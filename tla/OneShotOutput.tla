---------------------------- MODULE OneShotOutput ----------------------------
(***************************************************************************)
(* What an aggregator promises about its output file, whatever it computes *)
(* and however it parses. The input decides, once and for all, whether the *)
(* program may open its output (Ready), whether it can produce a table     *)
(* (Valid), and which tables are right for it (Tables). The output file    *)
(* then only goes through                                                  *)
(*                                                                         *)
(*   OldOut or ReadOnly --Refuse-->   unchanged, failed                    *)
(*   OldOut             --Truncate--> <<>>                                 *)
(*   <<>>               --Abort-->    <<>> or a prefix of one of Tables,   *)
(*                                    failed   (only if ~Valid or Fragile) *)
(*   <<>>               --Write-->    one of Tables, ok   (only if Valid)  *)
(*                                                                         *)
(* so a failure either leaves the old file or, once the input was ready,   *)
(* an empty or cut-short one, and a normal exit always leaves one of the   *)
(* right tables. Fragile inputs are those whose environment (a broken      *)
(* pipe, say) may end a run that could have written its table. The        *)
(* detailed modules of the two scripts implement it.                       *)
(***************************************************************************)
EXTENDS Naturals, Sequences

CONSTANTS
    OldOut,     \* an output path holding earlier content
    ReadOnly,   \* an output path that cannot be opened for writing
    Failures,   \* the ways the process may end other than normally
    Ready(_),   \* the input lets the program open (and so truncate) its output
    Valid(_),   \* the input lets the program produce a table
    Fragile(_), \* the environment may still make a valid run fail
    Tables(_)   \* the tables that are right for the input

VARIABLES
    input,      \* what the process is given: arguments and files
    out,        \* the output file
    status      \* "running", "ok" or one of Failures

avars == <<input, out, status>>

Running == status = "running"

Init ==
    /\ status = "running"
    /\ out \in {OldOut, ReadOnly}

Refuse ==
    /\ status' \in Failures
    /\ UNCHANGED <<input, out>>
    /\ Running
    /\ out \in {OldOut, ReadOnly}
    /\ ~Ready(input) \/ out = ReadOnly

Truncate ==
    /\ out' = <<>>
    /\ UNCHANGED <<input, status>>
    /\ Running
    /\ out = OldOut
    /\ Ready(input)

\* A failure after the open: the file stays empty, or a write that failed
\* part way left the beginning of a right table.
Abort ==
    /\ status' \in Failures
    /\ UNCHANGED input
    /\ Running
    /\ out = <<>>
    /\ ~Valid(input) \/ Fragile(input)
    /\ \/ out' = <<>>
       \/ \E t \in Tables(input) :
             \E m \in 1..Len(t) - 1 : out' = SubSeq(t, 1, m)

Write ==
    /\ status' = "ok"
    /\ UNCHANGED input
    /\ Running
    /\ out = <<>>
    /\ Valid(input)
    /\ out' \in Tables(input)

Next == Refuse \/ Truncate \/ Abort \/ Write

Spec == Init /\ [][Next]_avars
=============================================================================
