\* With a check-time file: the pairing of enqueue-time and check-time groups.
\* Six enqueue lines hold two reducible groups, four check-time lines two
\* kernel groups, so the second group pairs with the second row.
CONSTANTS
    Blank = Blank
    Bad = Bad
    Missing = Missing
    OldOut = OldOut
    ReadOnly = ReadOnly
    EnqRuns <- MCEnqRunsPaired
    ChkRuns <- MCChkRuns
    MaxLines = 6
    ChkLines = 4
    ArgCounts = {4}
    Disks = {"free"}
    FloatMax = 8
    Stdouts = {"open"}

SPECIFICATION Spec
PROPERTY RefinesOneShotOutput
\* The script exits: its final states have no successor.
CHECK_DEADLOCK FALSE
