\* One group of well-formed runs, written to a full file system.
CONSTANTS
    Blank = Blank
    Bad = Bad
    Missing = Missing
    OldOut = OldOut
    ReadOnly = ReadOnly
    EnqRuns <- MCEnqRunsKernel
    ChkRuns <- MCChkRuns
    MaxLines = 3
    ChkLines = 3
    ArgCounts = {3}
    Disks = {"full"}
    FloatMax = 64
    Stdouts = {"open"}

SPECIFICATION Spec
INVARIANT WrittenOnNormalExit
\* The script exits: its final states have no successor.
CHECK_DEADLOCK FALSE
