\* Well-formed files and an output path that cannot be opened.
CONSTANTS
    Blank = Blank
    Bad = Bad
    Missing = Missing
    OldOut = OldOut
    ReadOnly = ReadOnly
    NoEntry = NoEntry
    b1 = b1
    b2 = b2
    Names = {b1, b2}
    Lines <- MCUniformLines
    ArgCounts = {5}
    Starts = {0}
    Stops = {1}
    Increments = {1}
    Disks = {"free"}
    FloatMax = 1000
    Inf = Inf
    MaxLines = 1

SPECIFICATION Spec
INVARIANT OutputWriteErrorReported
\* The script exits: its final states have no successor.
CHECK_DEADLOCK FALSE
