\* Without a check-time file: argument errors, missing and unwritable files,
\* and every shape of enqueue-time file of up to MaxLines lines.
CONSTANTS
    Blank = Blank
    Bad = Bad
    Missing = Missing
    OldOut = OldOut
    ReadOnly = ReadOnly
    EnqRuns <- MCEnqRuns
    ChkRuns <- MCChkRuns
    MaxLines = 5
    ChkLines = 5
    ArgCounts = {2, 3, 5}
    Disks = {"free"}
    FloatMax = 8
    Stdouts = {"open", "broken"}

SPECIFICATION Spec
INVARIANT TypeOK
PROPERTY RefinesOneShotOutput
\* The script exits: its final states have no successor.
CHECK_DEADLOCK FALSE
