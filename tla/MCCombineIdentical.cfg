\* Groups of one reference run and three identical trials of 4.
CONSTANTS
    Blank = Blank
    Bad = Bad
    Missing = Missing
    OldOut = OldOut
    ReadOnly = ReadOnly
    ChkRuns <- MCChkRuns
    ArgCounts = {3}
    Disks = {"free"}
    FloatMax = 64
    Stdouts = {"open"}
    EnqRuns <- MCIdenticalRuns
    MaxLines = 5
    ChkLines = 5

SPECIFICATION Spec
INVARIANT IdenticalTrialsKeepTheirValue
\* The script exits: its final states have no successor.
CHECK_DEADLOCK FALSE
