--------------------------- MODULE CombineRuntimes ---------------------------
(***************************************************************************)
(* The run aggregator, src/bin/combineRuntimes.py: it checks its argument  *)
(* count, opens the enqueue-time file, the optional check-time (kernel)    *)
(* file and the output file, parses each input into blank-line separated   *)
(* groups of runs, reduces every group to one row by an integer-truncated  *)
(* floating-point geometric mean and writes the table.                      *)
(*                                                                         *)
(* A line of an input file is abstracted to what parsing makes of it:      *)
(* Blank (its first ", " field is empty: the group separator), Bad (a      *)
(* field int() rejects) or the sequence of integers it parses to.  A file  *)
(* that cannot be opened is Missing.  The output file is OldOut (earlier   *)
(* content, writable), ReadOnly (cannot be opened for writing), or the     *)
(* sequence of lines the program wrote: a header, then one tuple of the    *)
(* integers printed per row.                                               *)
(***************************************************************************)
EXTENDS Integers, Sequences, SequencesExt

CONSTANTS
    Blank,      \* a line parsed to [''], the group separator
    Bad,        \* a line with a field int() cannot parse
    Missing,    \* an input path open(.., 'r') fails on
    OldOut,     \* an output path holding earlier content
    ReadOnly,   \* an output path open(.., 'w') fails on
    EnqRuns,    \* the runs (integer sequences) an enqueue-time line may parse to
    ChkRuns,    \* the runs a check-time line may parse to
    MaxLines,   \* bound on the number of lines of the enqueue-time file
    ChkLines,   \* bound on the number of lines of the check-time file
    ArgCounts,  \* the values of len(sys.argv) enumerated
    Disks,      \* subset of {"free", "full"}: whether the output's file
                \* system has room for the table
    FloatMax,   \* the largest integer pow() converts to a double, on the
                \* scale of the run values
    Stdouts     \* subset of {"open", "broken"}: whether standard output is a
                \* pipe whose reader has gone

VARIABLES
    pc,         \* the point the script has reached
    status,     \* "running", or how the process ended
    argc,       \* len(sys.argv)
    haskernel,  \* a check-time file was given
    enq,        \* content of the enqueue-time file, or Missing
    chk,        \* content of the check-time file, or Missing
    out,        \* the output file
    pos,        \* index of the next line of the file being parsed
    values,     \* closed groups of the enqueue-time file
    runvals,    \* the group being parsed
    values2,    \* closed groups of the check-time file
    i,          \* index of the group being reduced
    results,    \* the rows computed so far
    disk,       \* "full" when writes to the output file fail
    stdout      \* "broken" when a flushed print raises IOError (EPIPE)

\* What the process is given; no step changes it.
inputs == <<argc, enq, chk, disk, stdout>>
Given == [argc |-> argc, enq |-> enq, chk |-> chk, disk |-> disk, stdout |-> stdout]

vars == <<pc, status, inputs, haskernel, out, pos, values, runvals, values2,
          i, results>>

Files(R, n) == BoundedSeq({Blank, Bad} \cup R, n)

Header(hk) ==
    IF hk THEN "compile time, total time, enqueue time, overhead, kernel time"
          ELSE "first run cost, total time, enqueue time, overhead"

(***************************************************************************)
(* int(pow(P, 1.0 / k)) for a positive integer P.  The exact root is       *)
(* truncated; when P is an exact k-th power r^k and the double 1.0/k lies  *)
(* below 1/k (k = 3, 6, 7, 9, 12 up to 12), pow returns a value just under *)
(* r and int() yields r - 1 (216 ** (1.0/3) = 5.999...).  Which r are hit  *)
(* depends on libm rounding, so both outcomes are allowed for r >= 2.       *)
(***************************************************************************)
InexactReciprocals == {3, 6, 7, 9, 12}

IntRoot(P, k) == CHOOSE r \in 0..P : r ^ k <= P /\ P < (r + 1) ^ k

TruncRoot(P, k) ==
    LET r == IntRoot(P, k)
    IN  IF r ^ k = P /\ k \in InexactReciprocals /\ r >= 2
          THEN {r - 1, r} ELSE {r}

Prod(s) == FoldSeq(LAMBDA a, b : a * b, 1, s)

\* pow() converts its integer argument to a double and raises OverflowError
\* when it exceeds the largest one (lines 86, 87, 106).
Overflows(P) == P > FloatMax

Column(rs, c) == [j \in DOMAIN rs |-> rs[j][c]]

-----------------------------------------------------------------------------
Init ==
    /\ argc \in ArgCounts
    /\ haskernel = TRUE
    /\ enq \in Files(EnqRuns, MaxLines) \cup {Missing}
    /\ chk \in IF argc = 4 THEN Files(ChkRuns, ChkLines) \cup {Missing} ELSE {Missing}
    /\ out \in {OldOut, ReadOnly}
    /\ disk \in Disks
    /\ stdout \in Stdouts
    /\ pc = "args"
    /\ status = "running"
    /\ pos = 1
    /\ values = <<>>
    /\ runvals = <<>>
    /\ values2 = <<>>
    /\ i = 1
    /\ results = <<>>

\* quit(-1) or an uncaught exception: the process ends with status s.
Exit(s) ==
    /\ pc' = "done"
    /\ status' = s
    /\ UNCHANGED <<inputs, haskernel, out, pos, values, runvals, values2, i,
                   results>>

\* Lines 6-21: wrong argument count, or pick the kernel mode.
CheckArgs ==
    /\ pc = "args"
    /\ \/ /\ argc < 3 \/ argc > 4
          /\ Exit("usage")
       \/ /\ argc \in 3..4
          /\ haskernel' = (argc = 4)
          /\ pc' = "open_enq"
          /\ UNCHANGED <<status, inputs, out, pos, values, runvals, values2,
                         i, results>>

\* Lines 23-27.
OpenEnq ==
    /\ pc = "open_enq"
    /\ \/ /\ enq = Missing
          /\ Exit("no_input")
       \/ /\ enq # Missing
          /\ pc' = IF haskernel THEN "open_chk" ELSE "open_out"
          /\ UNCHANGED <<status, inputs, haskernel, out, pos, values, runvals,
                         values2, i, results>>

\* Lines 29-34.
OpenChk ==
    /\ pc = "open_chk"
    /\ \/ /\ chk = Missing
          /\ Exit("no_input")
       \/ /\ chk # Missing
          /\ pc' = "open_out"
          /\ UNCHANGED <<status, inputs, haskernel, out, pos, values, runvals,
                         values2, i, results>>

\* Lines 36-40: open(out_times, 'w') truncates the output file.
OpenOut ==
    /\ pc = "open_out"
    /\ \/ /\ out = ReadOnly
          /\ Exit("no_output")
       \/ /\ out # ReadOnly
          /\ out' = <<>>
          /\ pc' = "parse_enq"
          /\ UNCHANGED <<status, inputs, haskernel, pos, values, runvals,
                         values2, i, results>>

\* One iteration of "for line in f" over the enqueue-time file, lines 44-56:
\* int() raises on a Bad line, a Blank line closes the open group.
ReadEnqLine ==
    /\ pc = "parse_enq"
    /\ pos <= Len(enq)
    /\ \/ /\ enq[pos] = Bad
          /\ Exit("crash")
       \/ /\ enq[pos] = Blank
          /\ values' = Append(values, runvals)
          /\ runvals' = <<>>
          /\ pos' = pos + 1
          /\ UNCHANGED <<pc, status, inputs, haskernel, out, values2, i,
                         results>>
       \/ /\ enq[pos] \notin {Blank, Bad}
          /\ runvals' = Append(runvals, enq[pos])
          /\ pos' = pos + 1
          /\ UNCHANGED <<pc, status, inputs, haskernel, out, values, values2,
                         i, results>>

\* Fault variant of EndEnq: runvals is not reset before the check-time loop.
EndEnqKeepsRunvals ==
    /\ pc = "parse_enq"
    /\ pos > Len(enq)
    /\ pc' = IF haskernel THEN "parse_chk" ELSE "aggregate"
    /\ pos' = 1
    /\ UNCHANGED <<status, inputs, haskernel, out, values, runvals, values2,
                   i, results>>

\* End of the enqueue-time file: the open group is not appended; with a
\* check-time file, lines 60-61 reset values2 and runvals.
EndEnq ==
    /\ pc = "parse_enq"
    /\ pos > Len(enq)
    /\ pc' = IF haskernel THEN "parse_chk" ELSE "aggregate"
    /\ pos' = 1
    /\ runvals' = IF haskernel THEN <<>> ELSE runvals
    /\ UNCHANGED <<status, inputs, haskernel, out, values, values2, i,
                   results>>

\* Lines 62-74, the same loop over the check-time file.
ReadChkLine ==
    /\ pc = "parse_chk"
    /\ pos <= Len(chk)
    /\ \/ /\ chk[pos] = Bad
          /\ Exit("crash")
       \/ /\ chk[pos] = Blank
          /\ values2' = Append(values2, runvals)
          /\ runvals' = <<>>
          /\ pos' = pos + 1
          /\ UNCHANGED <<pc, status, inputs, haskernel, out, values, i,
                         results>>
       \/ /\ chk[pos] \notin {Blank, Bad}
          /\ runvals' = Append(runvals, chk[pos])
          /\ pos' = pos + 1
          /\ UNCHANGED <<pc, status, inputs, haskernel, out, values, values2,
                         i, results>>

EndChk ==
    /\ pc = "parse_chk"
    /\ pos > Len(chk)
    /\ pc' = "aggregate"
    /\ UNCHANGED <<status, inputs, haskernel, out, pos, values, runvals,
                   values2, i, results>>

(***************************************************************************)
(* One iteration of the loop of lines 78-96 over values[i]: the products   *)
(* of fields 0 and 1 of runs 1..N-1, their (N-1)-th roots, and the row.    *)
(* It raises when the group has fewer than two runs (ZeroDivisionError for *)
(* N = 1, IndexError on runvals[0] for N = 0), a run has fewer than two    *)
(* fields (IndexError) or a product is too large for a double.            *)
(***************************************************************************)
Reducible(g) == Len(g) >= 2 /\ \A j \in 1..Len(g) : Len(g[j]) >= 2

\* The group also gets past the two pow() calls.
Reduces(g) ==
    /\ Reducible(g)
    /\ ~Overflows(Prod(Column(Tail(g), 1)))
    /\ ~Overflows(Prod(Column(Tail(g), 2)))

\* Fault variant of RootOf: the reference run is counted as a trial.
RootOfAll(g) == Len(g)

\* Lines 86-87: the root is len(runvals) - 1, the number of trials.
RootOf(g) == Len(g) - 1

AggregateGroup ==
    /\ pc = "aggregate"
    /\ i <= Len(values)
    /\ LET g == values[i]
           k == RootOf(g)
       IN  \/ /\ ~Reduces(g)
              /\ Exit("crash")
           \/ /\ Reduces(g)
              /\ \E total_run_time \in TruncRoot(Prod(Column(Tail(g), 1)), k),
                    enqueue_time \in TruncRoot(Prod(Column(Tail(g), 2)), k) :
                   results' = Append(results,
                                <<g[1][1] - g[1][2] - (total_run_time - enqueue_time),
                                  total_run_time, enqueue_time,
                                  total_run_time - enqueue_time>>)
              /\ i' = i + 1
              /\ UNCHANGED <<pc, status, inputs, haskernel, out, pos, values,
                             runvals, values2>>

AggregateEnd ==
    /\ pc = "aggregate"
    /\ i > Len(values)
    /\ pc' = IF haskernel THEN "kernel" ELSE "emit"
    /\ i' = 1
    /\ UNCHANGED <<status, inputs, haskernel, out, pos, values, runvals,
                   values2, results>>

(***************************************************************************)
(* One iteration of lines 100-107 over values2[i]: the len(runvals)-th     *)
(* root of the product of field 0 is appended to results[i].  It raises on *)
(* an empty group (ZeroDivisionError), on a product too large for a       *)
(* double, and when the check-time file has more groups than results has  *)
(* rows (IndexError).                                                      *)
(***************************************************************************)
\* Fault variant of AppendKernel: every kernel time goes to the first row.
AppendKernelFirst(rs, n, t) == [rs EXCEPT ![1] = Append(@, t)]

\* Line 107: results[i].append(kernel_time).
AppendKernel(rs, n, t) == [rs EXCEPT ![n] = Append(@, t)]

KernelGroup ==
    /\ pc = "kernel"
    /\ i <= Len(values2)
    /\ LET g == values2[i]
       IN  \/ /\ g = <<>> \/ Overflows(Prod(Column(g, 1))) \/ i > Len(results)
              /\ Exit("crash")
           \/ /\ g # <<>>
              /\ ~Overflows(Prod(Column(g, 1)))
              /\ i <= Len(results)
              /\ \E kernel_time \in TruncRoot(Prod(Column(g, 1)), Len(g)) :
                   results' = AppendKernel(results, i, kernel_time)
              /\ i' = i + 1
              /\ UNCHANGED <<pc, status, inputs, haskernel, out, pos, values,
                             runvals, values2>>

KernelEnd ==
    /\ pc = "kernel"
    /\ i > Len(values2)
    /\ pc' = "emit"
    /\ UNCHANGED <<status, inputs, haskernel, out, pos, values, runvals,
                   values2, i, results>>

\* Lines 116-119: the format string of the mode takes results[i][0..4] or
\* [0..3]; indexing results[i][4] raises when the row got no kernel time.
Formattable(r) == haskernel => Len(r) = 5

\* Fault variant of Table: the list of rows is appended as one line.
TableAppendsList(hk, rs) == Append(<<Header(hk)>>, rs)

\* Lines 109-121: the header of the mode followed by one line per row.
Table(hk, rs) == <<Header(hk)>> \o rs

\* Fault variant of WriteOut: a failing write has flushed the whole text.
WriteOutFlushesAll(T) ==
    \/ disk = "free" /\ out' = T /\ status' = "ok"
    \/ disk = "full" /\ out' = <<>> /\ status' = "ok"
    \/ /\ disk = "full"
       /\ out' \in {SubSeq(T, 1, m) : m \in 0..Len(T)}
       /\ status' = "crash"

\* Line 125: the single write of the table, never followed by close().  On
\* a full file system a text larger than the file buffer makes write()
\* raise IOError after flushing a prefix; a smaller one stays in the
\* buffer, and the flush at exit fails with the error ignored: the process
\* ends normally with the file empty.
WriteOut(T) ==
    \/ disk = "free" /\ out' = T /\ status' = "ok"
    \/ disk = "full" /\ out' = <<>> /\ status' = "ok"
    \/ /\ disk = "full"
       /\ out' \in {SubSeq(T, 1, m) : m \in 0..Len(T) - 1}
       /\ status' = "crash"

\* Fault variant of PrintThenWrite: the table is echoed after the write.
WriteThenPrint(T) ==
    \/ stdout = "broken" /\ disk = "free" /\ out' = T /\ status' = "crash"
    \/ WriteOut(T)

\* Lines 123-125: print the table, then write it.  On a broken pipe the
\* print raises IOError when the text outgrows the stdout buffer, before
\* line 125, leaving the output as line 37 emptied it; a text the buffer
\* holds is lost at exit without an error, and the write goes ahead.
PrintThenWrite(T) ==
    \/ stdout = "broken" /\ out' = out /\ status' = "crash"
    \/ WriteOut(T)

\* Lines 109-125: format every row, then print and write the table.
Emit ==
    /\ pc = "emit"
    /\ \/ /\ \E r \in 1..Len(results) : ~Formattable(results[r])
          /\ Exit("crash")
       \/ /\ \A r \in 1..Len(results) : Formattable(results[r])
          /\ pc' = "done"
          /\ PrintThenWrite(Table(haskernel, results))
          /\ UNCHANGED <<inputs, haskernel, pos, values, runvals, values2, i,
                         results>>

Next ==
    \/ CheckArgs \/ OpenEnq \/ OpenChk \/ OpenOut
    \/ ReadEnqLine \/ EndEnq \/ ReadChkLine \/ EndChk
    \/ AggregateGroup \/ AggregateEnd \/ KernelGroup \/ KernelEnd
    \/ Emit

Spec == Init /\ [][Next]_vars

-----------------------------------------------------------------------------
TypeOK ==
    /\ pc \in {"args", "open_enq", "open_chk", "open_out", "parse_enq",
               "parse_chk", "aggregate", "kernel", "emit", "done"}
    /\ status \in {"running", "usage", "no_input", "no_output", "crash", "ok"}
    /\ haskernel \in BOOLEAN
    /\ enq \in Files(EnqRuns, MaxLines) \cup {Missing}
    /\ chk \in Files(ChkRuns, ChkLines) \cup {Missing}
    /\ \/ out \in {OldOut, ReadOnly, <<>>}
       \/ /\ out[1] \in {Header(TRUE), Header(FALSE)}
          /\ \A n \in 2..Len(out) : Len(out[n]) \in {4, 5} /\ out[n] \in Seq(Int)
    /\ pos \in 1..MaxLines + 1
    /\ values \in Seq(Seq(EnqRuns))
    /\ runvals \in Seq(EnqRuns \cup ChkRuns)
    /\ values2 \in Seq(Seq(ChkRuns))
    /\ i \in 1..MaxLines + 1
    /\ results \in Seq(Seq(Int))
    /\ disk \in {"free", "full"}
    /\ stdout \in {"open", "broken"}

-----------------------------------------------------------------------------
(***************************************************************************)
(* Reference definitions from the input grammar, independent of the loop:  *)
(* the g-th group of a file is the run lines between its (g-1)-th and g-th *)
(* Blank line.                                                             *)
(***************************************************************************)
SepIndices(f) == SetToSortSeq({n \in 1..Len(f) : f[n] = Blank}, <)

Groups(f) ==
    LET s == <<0>> \o SepIndices(f)
    IN  [g \in 1..Len(s) - 1 |-> SubSeq(f, s[g] + 1, s[g + 1] - 1)]

(***************************************************************************)
(* Spec section 8: aggregating a group of repeated identical trials yields *)
(* the trial's own value.  Lines 86-87 take int(pow(P, 1.0 / (N-1))); with *)
(* three trials of 4 the root of 64 comes out as 3.999... and int() gives  *)
(* 3.                                                                      *)
(***************************************************************************)
IdenticalTrialsKeepTheirValue ==
    status = "ok" =>
        \A g \in 1..Len(Groups(enq)) :
            LET grp == Groups(enq)[g]
            IN  (Len(grp) >= 2 /\ \A j \in 2..Len(grp) : grp[j] = grp[2])
                  => out[g + 1][2] = grp[2][1] /\ out[g + 1][3] = grp[2][2]

(***************************************************************************)
(* Spec section 6: the script exits -1 on any output failure and otherwise *)
(* exits normally after writing the table.  The output file is never       *)
(* closed (line 125): when the file system is full, the buffered text is   *)
(* lost at the flush on exit, whose error is ignored, and the process      *)
(* ends normally with the output emptied.                                  *)
(***************************************************************************)
WrittenOnNormalExit ==
    status = "ok" => out # <<>>

-----------------------------------------------------------------------------
(***************************************************************************)
(* The script read as a function of its input in = [argc, enq, chk,       *)
(* disk].  It opens its output once both inputs open.  The input is        *)
(* well formed when, in addition, no line is Bad, every group of the       *)
(* enqueue-time file has a reference run and a trial of two fields, and   *)
(* with a check-time file both files hold equally many groups and no      *)
(* kernel group is empty.  It writes a table when, beyond that, no product *)
(* overflows a double.                                                     *)
(***************************************************************************)
OpensInputs(in) ==
    /\ in.argc \in 3..4
    /\ in.enq # Missing
    /\ in.argc = 4 => in.chk # Missing

WellFormed(in) ==
    /\ OpensInputs(in)
    /\ Bad \notin ToSet(in.enq)
    /\ \A g \in ToSet(Groups(in.enq)) : Reducible(g)
    /\ in.argc = 4 =>
          /\ Bad \notin ToSet(in.chk)
          /\ Len(Groups(in.chk)) = Len(Groups(in.enq))
          /\ <<>> \notin ToSet(Groups(in.chk))

ParsesCleanly(in) ==
    /\ WellFormed(in)
    /\ \A g \in ToSet(Groups(in.enq)) : Reduces(g)
    /\ in.argc = 4 =>
          \A g \in ToSet(Groups(in.chk)) : ~Overflows(Prod(Column(g, 1)))

\* The rows the contract allows for group g: geometric means of runs 1..N-1
\* (truncated roots), and the kernel mean of the g-th check-time group.
RowsFor(in, g) ==
    LET grp == Groups(in.enq)[g]
        ref == grp[1]
        k   == Len(grp) - 1
        Kernel == IF in.argc = 4
                    THEN LET kg == Groups(in.chk)[g]
                         IN  {<<x>> : x \in TruncRoot(Prod(Column(kg, 1)), Len(kg))}
                    ELSE {<<>>}
    IN  {<<ref[1] - ref[2] - (t - e), t, e, t - e>> \o x :
            t \in TruncRoot(Prod(Column(Tail(grp), 1)), k),
            e \in TruncRoot(Prod(Column(Tail(grp), 2)), k),
            x \in Kernel}

ExpectedTables(in) ==
    LET n == Len(Groups(in.enq))
    IN  {<<Header(in.argc = 4)>> \o r :
            r \in {r \in [1..n -> UNION {RowsFor(in, g) : g \in 1..n}] :
                     \A g \in 1..n : r[g] \in RowsFor(in, g)}}

(***************************************************************************)
(* Spec sections 7 and 8: the script fails only on a MalformedRow (a bad   *)
(* integer, a short group or run, unpaired kernel groups) and otherwise    *)
(* aggregates any positive integers.  It multiplies the trials as          *)
(* unbounded integers and hands the product to pow() (lines 83-87, 104-    *)
(* 106), which raises OverflowError once it exceeds a double: 35 trials of *)
(* 10^9 crash a well-formed file, after line 37 emptied the output.  A     *)
(* full disk or a broken stdout pipe (lines 123-125) may also end a run.   *)
(***************************************************************************)
CrashOnlyOnMalformedInput ==
    status = "crash" =>
        \/ ~WellFormed(Given)
        \/ disk = "full" \/ stdout = "broken"

OneShot == INSTANCE OneShotOutput WITH
    input  <- Given,
    status <- IF pc = "done" THEN status ELSE "running",
    Failures <- {"usage", "no_input", "no_output", "crash"},
    Ready  <- OpensInputs,
    Valid  <- LAMBDA in : ParsesCleanly(in) /\ in.disk = "free",
    Fragile <- LAMBDA in : in.stdout = "broken",
    Tables <- ExpectedTables

RefinesOneShotOutput == OneShot!Spec

=============================================================================
