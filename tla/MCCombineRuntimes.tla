------------------------- MODULE MCCombineRuntimes --------------------------
(* Instantiates CombineRuntimes for TLC.  Runs carry the values 2 and 4,    *)
(* so that the reference run, the trials and the two columns differ and   *)
(* the roots of their products are distinct.                               *)
EXTENDS CombineRuntimes

\* Enqueue-time lines: two well-formed [total, enqueue] runs and a short one.
MCEnqRuns == {<<4, 2>>, <<2, 2>>, <<4>>}

\* Enqueue-time lines when a check-time file is given.
MCEnqRunsKernel == {<<4, 2>>, <<2, 2>>}

\* Enqueue-time lines of the pairing run: one run shape, so that six lines
\* reach two reducible groups within the time of a run.
MCEnqRunsPaired == {<<4, 2>>}

\* Check-time lines: one kernel time per line.
MCChkRuns == {<<2>>, <<4>>}

\* A single run shape, [4, 4]: every group repeats one trial value.
MCIdenticalRuns == {<<4, 4>>}
=============================================================================
