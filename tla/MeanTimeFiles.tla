---------------------------- MODULE MeanTimeFiles ----------------------------
(***************************************************************************)
(* The file aggregator, src/bin/mean_time_files.py: it reads the files     *)
(* {prefix}{i}.csv for i in range(start, stop+1, increment), multiplies    *)
(* field by field the values recorded for each benchmark name, raises each *)
(* product to the power increment / (stop+1-start) and writes one row per  *)
(* benchmark named in the first file to {prefix}_mean.csv.                  *)
(*                                                                         *)
(* A line is Blank (exactly "\n", skipped), Bad (a value float() rejects)  *)
(* or <<name, fields>>: the benchmark name and the values it parses to.    *)
(* The floating-point root is kept symbolic: a cell of the output is the   *)
(* product and the exponent's numerator and denominator.                   *)
(***************************************************************************)
EXTENDS Integers, Sequences, SequencesExt

CONSTANTS
    Blank,      \* the line "\n"
    Bad,        \* a line with a value float() cannot parse
    Missing,    \* an input file open(.., 'r') fails on
    OldOut,     \* an output path holding earlier content
    ReadOnly,   \* an output path open(.., 'w') fails on
    NoEntry,    \* a name not (yet) in the dictionary data
    Names,      \* benchmark names
    Lines,      \* the record lines <<name, fields>> a file may hold
    MaxLines,   \* bound on the number of lines of a file
    ArgCounts,  \* the values of len(sys.argv) enumerated
    Starts, Stops, Increments, \* the integer arguments enumerated
    Disks,      \* subset of {"free", "full"}: whether the output's file
                \* system has room for the table
    FloatMax,   \* the largest double, on the scale of the values
    Inf         \* the float inf

VARIABLES
    pc,         \* the point the script has reached
    status,     \* "running", or how the process ended
    argc,       \* len(sys.argv)
    start, stop, increment,
    files,      \* index i -> content of {prefix}{i}.csv, or Missing
    out,        \* the output file
    k,          \* position in range(start, stop+1, increment)
    pos,        \* index of the next line of the file being read
    data,       \* name -> accumulated fields, or NoEntry
    benchmarks, \* the names in output order
    first,      \* the file being read is the first one
    disk        \* "full" when writes to the output file fail

\* What the process is given; no step changes it.
inputs == <<argc, start, stop, increment, files, disk>>

vars == <<pc, status, inputs, out, k, pos, data, benchmarks, first>>

Contents == BoundedSeq({Blank, Bad} \cup Lines, MaxLines)

\* Python's range(a, b, s) for s # 0, as a sequence.
PyRange(a, b, s) ==
    LET n == IF s > 0 THEN IF b > a THEN (b - a + s - 1) \div s ELSE 0
                      ELSE IF a > b THEN (a - b - s - 1) \div (-s) ELSE 0
    IN  [j \in 1..n |-> a + (j - 1) * s]

\* The indices of line 24, for the arguments of the run.
Indices == IF increment = 0 THEN <<>> ELSE PyRange(start, stop + 1, increment)

\* A float product (line 44): exact for the small integers of the model,
\* inf beyond the largest double, and inf ever after.
Times(a, b) == IF Inf \in {a, b} \/ a * b > FloatMax THEN Inf ELSE a * b

\* A float is kept as the power cell prod^(num/den); float() of a field
\* (lines 44, 48) has exponent 1.
Float(v) == [prod |-> v, num |-> 1, den |-> 1]

\* x *= float(v) of line 44, for a float x that is a product or inf.
TimesFloat(x, v) == IF x = Inf THEN Inf ELSE LET p == Times(x.prod, v)
                                              IN  IF p = Inf THEN Inf ELSE Float(p)

\* Fault variant of Accumulate: the values are parsed with int(), so the
\* products are unbounded integers that never become inf.
AccumulateExact(d, fs) ==
    IF d = NoEntry THEN [c \in DOMAIN fs |-> Float(fs[c])]
    ELSE [c \in 1..Len(d) |->
            IF c <= Len(fs) THEN Float(d[c].prod * fs[c]) ELSE d[c]]

\* data[name] after a line <<name, fs>>: lines 42-48.
Accumulate(d, fs) ==
    IF d = NoEntry THEN [c \in DOMAIN fs |-> Float(fs[c])]
    ELSE [c \in 1..Len(d) |-> IF c <= Len(fs) THEN TimesFloat(d[c], fs[c]) ELSE d[c]]

\* math.pow(x, num/den) of line 55 raises OverflowError when the result of
\* a finite x exceeds the largest double; inf ** e is inf.
PowOverflows(x, num, den) == x # Inf /\ x ^ num > FloatMax ^ den

\* Line 55: x ** (1.0 / (float(stop+1-start) / increment)).
Cell(x) ==
    IF x = Inf THEN Inf ELSE [x EXCEPT !.num = increment, !.den = stop + 1 - start]

-----------------------------------------------------------------------------
Init ==
    /\ argc \in ArgCounts
    /\ start \in Starts
    /\ stop \in Stops
    /\ increment \in Increments
    /\ files \in [ToSet(Indices) -> Contents \cup {Missing}]
    /\ out \in {OldOut, ReadOnly}
    /\ disk \in Disks
    /\ pc = "args"
    /\ status = "running"
    /\ k = 1
    /\ pos = 1
    /\ data = [n \in Names |-> NoEntry]
    /\ benchmarks = <<>>
    /\ first = TRUE

\* quit(-1) or an uncaught exception: the process ends with status s.
Exit(s) ==
    /\ pc' = "done"
    /\ status' = s
    /\ UNCHANGED <<inputs, out, k, pos, data, benchmarks, first>>

\* Lines 8-24: the argument count; range() raises ValueError on a zero step.
CheckArgs ==
    /\ pc = "args"
    /\ \/ /\ argc # 5
          /\ Exit("usage")
       \/ /\ argc = 5
          /\ increment = 0
          /\ Exit("crash")
       \/ /\ argc = 5
          /\ increment # 0
          /\ pc' = "file"
          /\ UNCHANGED <<status, inputs, out, k, pos, data, benchmarks, first>>

\* Lines 24-31: the next file of the range is opened, or the script quits.
OpenFile ==
    /\ pc = "file"
    /\ k <= Len(Indices)
    /\ \/ /\ files[Indices[k]] = Missing
          /\ Exit("no_input")
       \/ /\ files[Indices[k]] # Missing
          /\ pc' = "read"
          /\ pos' = 1
          /\ UNCHANGED <<status, inputs, out, k, data, benchmarks, first>>

\* Fault variant of NameOf: the whole parsed line is taken for the name.
NameOfRecord(line) == line

\* linevals[0], the benchmark name of a record line (lines 37-40).
NameOf(line) == line[1]

(***************************************************************************)
(* One iteration of lines 33-48.  A blank line is skipped.  The name of    *)
(* every record of the first file is appended to benchmarks; the fields    *)
(* are multiplied into data[name], which raises IndexError when the record *)
(* has more fields than data[name] holds.                                  *)
(***************************************************************************)
ReadLine ==
    /\ pc = "read"
    /\ pos <= Len(files[Indices[k]])
    /\ LET line == files[Indices[k]][pos]
       IN  \/ /\ line = Blank
              /\ pos' = pos + 1
              /\ UNCHANGED <<pc, status, inputs, out, k, data, benchmarks,
                             first>>
           \/ /\ line = Bad
              /\ Exit("crash")
           \/ /\ line \notin {Blank, Bad}
              /\ data[line[1]] # NoEntry
              /\ Len(line[2]) > Len(data[line[1]])
              /\ Exit("crash")
           \/ /\ line \notin {Blank, Bad}
              /\ data[line[1]] # NoEntry => Len(line[2]) <= Len(data[line[1]])
              /\ benchmarks' = IF first THEN Append(benchmarks, NameOf(line))
                                        ELSE benchmarks
              /\ data' = [data EXCEPT ![line[1]] = Accumulate(@, line[2])]
              /\ pos' = pos + 1
              /\ UNCHANGED <<pc, status, inputs, out, k, first>>

\* Lines 50-51: the end of a file.
EndFile ==
    /\ pc = "read"
    /\ pos > Len(files[Indices[k]])
    /\ first' = FALSE
    /\ k' = k + 1
    /\ pc' = "file"
    /\ UNCHANGED <<status, inputs, out, pos, data, benchmarks>>

(***************************************************************************)
(* Lines 53-55 once the range is exhausted: every accumulated field is     *)
(* raised to the power increment / (stop+1-start).  The denominator is     *)
(* never 0 here: data is empty unless a file was read, and then the range  *)
(* was not empty.  An exponent above 1 (an increment beyond the range) can *)
(* overflow, and math.pow raises.                                          *)
(***************************************************************************)
PowFails ==
    \E n \in Names : data[n] # NoEntry /\
        \E c \in DOMAIN data[n] :
            data[n][c] # Inf
            /\ PowOverflows(data[n][c].prod, increment, stop + 1 - start)

Normalise ==
    /\ pc = "file"
    /\ k > Len(Indices)
    /\ \/ /\ PowFails
          /\ Exit("crash")
       \/ /\ ~PowFails
          /\ data' = [n \in Names |->
                        IF data[n] = NoEntry THEN NoEntry
                        ELSE [c \in DOMAIN data[n] |-> Cell(data[n][c])]]
          /\ pc' = "open_out"
          /\ UNCHANGED <<status, inputs, out, k, pos, benchmarks, first>>

(***************************************************************************)
(* Lines 58-63.  When open() fails, the handler prints out_f, which is     *)
(* still unbound: the script dies of a NameError instead of quit(-1).      *)
(***************************************************************************)
OpenOut ==
    /\ pc = "open_out"
    /\ \/ /\ out = ReadOnly
          /\ Exit("name_error")
       \/ /\ out # ReadOnly
          /\ out' = <<>>
          /\ pc' = "emit"
          /\ UNCHANGED <<status, inputs, k, pos, data, benchmarks, first>>

\* Lines 65-70: the text built from one row per entry of benchmarks.
MeanTable ==
    [j \in DOMAIN benchmarks |-> <<benchmarks[j], data[benchmarks[j]]>>]

(***************************************************************************)
(* Lines 73-74: one write and a close.  On a full file system the write    *)
(* (once the text exceeds the file buffer) or the close (which flushes it) *)
(* raises IOError: the process dies with a prefix of the table flushed.    *)
(* An empty text flushes nothing and cannot fail.                          *)
(***************************************************************************)
Emit ==
    /\ pc = "emit"
    /\ pc' = "done"
    /\ \/ /\ disk = "free" \/ MeanTable = <<>>
          /\ out' = MeanTable
          /\ status' = "ok"
       \/ /\ disk = "full"
          /\ MeanTable # <<>>
          /\ out' \in {SubSeq(MeanTable, 1, m) : m \in 0..Len(MeanTable) - 1}
          /\ status' = "crash"
    /\ UNCHANGED <<inputs, k, pos, data, benchmarks, first>>

Next ==
    \/ CheckArgs \/ OpenFile \/ ReadLine \/ EndFile
    \/ Normalise \/ OpenOut \/ Emit

Spec == Init /\ [][Next]_vars

-----------------------------------------------------------------------------
TypeOK ==
    /\ pc \in {"args", "file", "read", "open_out", "emit", "done"}
    /\ status \in {"running", "ok", "usage", "no_input", "no_output", "crash",
                   "name_error"}
    /\ k \in 1..Len(Indices) + 1
    /\ pos \in 1..MaxLines + 1
    /\ benchmarks \in Seq(Names)
    /\ first \in BOOLEAN
    /\ disk \in {"free", "full"}
    /\ DOMAIN data = Names
    /\ \/ out \in {OldOut, ReadOnly}
       \/ \A j \in DOMAIN out : out[j][1] \in Names /\ out[j][2] # NoEntry

(***************************************************************************)
(* Reference definitions.  Read is the sequence of files the range names;  *)
(* NamesOf(f) the names of the records of f in order.                      *)
(***************************************************************************)
Read == [j \in DOMAIN Indices |-> files[Indices[j]]]

Records(f) == SelectSeq(f, LAMBDA l : l \notin {Blank, Bad})

NamesOf(f) == [j \in DOMAIN Records(f) |-> Records(f)[j][1]]

\* The fields of the record of name n in f (the first one).
FieldsOf(f, n) == Records(f)[CHOOSE j \in DOMAIN Records(f) : Records(f)[j][1] = n][2]

\* The distinct elements of L in the order of their first occurrence.
FirstSeen(L) ==
    LET P == SetToSortSeq({p \in DOMAIN L : \A q \in 1..p - 1 : L[q] # L[p]}, <)
    IN  [j \in DOMAIN P |-> L[P[j]]]

\* Spec section 3: each file names every benchmark once, with the same
\* number of fields in every file.
Uniform ==
    /\ \A f \in DOMAIN Read :
          /\ Len(NamesOf(Read[f])) = Cardinality(ToSet(NamesOf(Read[f])))
          /\ ToSet(NamesOf(Read[f])) = ToSet(NamesOf(Read[1]))
    /\ \A f \in DOMAIN Read, n \in ToSet(NamesOf(Read[1])) :
          Len(FieldsOf(Read[f], n)) = Len(FieldsOf(Read[1], n))

\* A cell is the m-th root of the product of the m values.
IsGeoMean(cell, vals) ==
    /\ cell # Inf
    /\ cell.prod = FoldSeq(LAMBDA a, b : a * b, 1, vals)
    /\ cell.den = cell.num * Len(vals)

(***************************************************************************)
(* For files that satisfy the data-model invariant, when the increment     *)
(* divides stop+1-start, each output row is, field by field, the geometric *)
(* mean of that benchmark's values over the files read, in the order of    *)
(* the first file.  It spans the accumulation of lines 42-48 across files, *)
(* the first flag of lines 39-40 and 50, and the exponent of line 55.      *)
(***************************************************************************)
MeanOverFiles ==
    (status = "ok" /\ Uniform /\ Indices # <<>>
       /\ (stop + 1 - start) % increment = 0)
      => /\ [j \in DOMAIN out |-> out[j][1]] = NamesOf(Read[1])
         /\ \A j \in DOMAIN out :
              /\ Len(out[j][2]) = Len(FieldsOf(Read[1], out[j][1]))
              /\ \A c \in DOMAIN out[j][2] :
                   IsGeoMean(out[j][2][c],
                             [f \in DOMAIN Read |-> FieldsOf(Read[f], out[j][1])[c]])

(***************************************************************************)
(* Spec sections 4.2 and 8: one row per benchmark, in first-seen order    *)
(* across the scanned files.  Lines 39-40 append the name of every record  *)
(* of the first file and of no other: a benchmark first seen in a later    *)
(* file is left out, and one named twice in the first file is written      *)
(* twice.                                                                  *)
(***************************************************************************)
FirstSeenOrder ==
    status = "ok" =>
        [j \in DOMAIN out |-> out[j][1]]
          = FirstSeen(FoldLeft(LAMBDA acc, f : acc \o NamesOf(f), <<>>, Read))

(***************************************************************************)
(* Spec sections 4.2 and 6: when the mean file cannot be created the       *)
(* script reports OutputWriteError and exits with -1.  Line 62 prints      *)
(* out_f, unbound after the failed open, and dies of a NameError instead.  *)
(***************************************************************************)
OutputWriteErrorReported ==
    out = ReadOnly /\ status \notin {"running", "usage", "no_input", "crash"}
      => status = "no_output"

-----------------------------------------------------------------------------
(***************************************************************************)
(* The script read as a function of its input in.  AllRecords(rd) are the  *)
(* record lines of the files rd in the order the loop meets them;          *)
(* FirstFields(rd, n) the fields of the first record named n, which fix    *)
(* the length of data[n].                                                  *)
(***************************************************************************)
ReadOf(in) ==
    LET ix == IF in.increment = 0 THEN <<>>
              ELSE PyRange(in.start, in.stop + 1, in.increment)
    IN  [j \in DOMAIN ix |-> in.files[ix[j]]]

AllRecords(rd) == FlattenSeq([f \in DOMAIN rd |-> Records(rd[f])])

FirstFields(rd, n) ==
    LET rs == AllRecords(rd)
        p  == CHOOSE p \in DOMAIN rs :
                  rs[p][1] = n /\ \A q \in 1..p - 1 : rs[q][1] # n
    IN  rs[p][2]

\* The product of field c over the records named n that have a field c.
FieldProduct(rd, n, c) ==
    LET rs == SelectSeq(AllRecords(rd), LAMBDA r : r[1] = n /\ Len(r[2]) >= c)
    IN  FoldSeq(Times, 1, [p \in DOMAIN rs |-> rs[p][2][c]])

\* The input lets the script get past every input and parse step.
ParsesCleanly(in) ==
    LET rd == ReadOf(in)
    IN  /\ in.argc = 5
        /\ in.increment # 0
        /\ \A f \in DOMAIN rd : rd[f] # Missing /\ Bad \notin ToSet(rd[f])
        /\ \A r \in ToSet(AllRecords(rd)) :
              Len(r[2]) <= Len(FirstFields(rd, r[1]))
        /\ \A r \in ToSet(AllRecords(rd)) :
              \A c \in DOMAIN FirstFields(rd, r[1]) :
                  ~PowOverflows(FieldProduct(rd, r[1], c), in.increment,
                                in.stop + 1 - in.start)

\* The table: a row for every record name of the first file, duplicates
\* kept; each field is its product raised to increment / (stop+1-start).
ExpectedTables(in) ==
    LET rd == ReadOf(in)
        ns == IF rd = <<>> THEN <<>> ELSE NamesOf(rd[1])
        pw(x) == IF x = Inf THEN Inf
                 ELSE [prod |-> x, num |-> in.increment, den |-> in.stop + 1 - in.start]
    IN  {[j \in DOMAIN ns |->
            <<ns[j], [c \in DOMAIN FirstFields(rd, ns[j]) |->
                        pw(FieldProduct(rd, ns[j], c))]>>]}

(***************************************************************************)
(* The script implements OneShotOutput: it opens (truncates) its output    *)
(* only when every input file opens and parses, after that it fails only   *)
(* when the file system is full and the table is not empty, and a normal   *)
(* exit leaves exactly the table above. It ties the loop of lines 24-51    *)
(* (the first flag, the IndexError of line 44, the early quits) and the    *)
(* power step of line 55 to the order of the output open (line 60) and the *)
(* final write (lines 73-74).                                              *)
(***************************************************************************)
OneShot == INSTANCE OneShotOutput WITH
    input  <- [argc |-> argc, start |-> start, stop |-> stop,
               increment |-> increment, files |-> files, disk |-> disk],
    status <- IF pc = "done" THEN status ELSE "running",
    Failures <- {"usage", "no_input", "crash", "name_error"},
    Ready  <- ParsesCleanly,
    Valid  <- LAMBDA in : ParsesCleanly(in)
                          /\ (in.disk = "free" \/ ExpectedTables(in) = {<<>>}),
    Fragile <- LAMBDA in : FALSE,
    Tables <- ExpectedTables

RefinesOneShotOutput == OneShot!Spec

=============================================================================
