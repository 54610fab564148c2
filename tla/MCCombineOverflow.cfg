\* Well-formed enqueue-time files whose trial products exceed the largest
\* double: two trials of 4 multiply to 16 > FloatMax.
CONSTANTS
    Blank = Blank
    Bad = Bad
    Missing = Missing
    OldOut = OldOut
    ReadOnly = ReadOnly
    EnqRuns <- MCEnqRunsKernel
    ChkRuns <- MCChkRuns
    MaxLines = 4
    ChkLines = 4
    ArgCounts = {3}
    Disks = {"free"}
    FloatMax = 8
    Stdouts = {"open"}

SPECIFICATION Spec
INVARIANT CrashOnlyOnMalformedInput
\* The script exits: its final states have no successor.
CHECK_DEADLOCK FALSE
