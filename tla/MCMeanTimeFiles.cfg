\* Ranges of one to three files, zero and non-dividing increments, missing
\* and malformed files, an unwritable output path, products beyond the
\* largest double (8 * 8 > FloatMax), and an exponent above 1 (stop 0,
\* increment 2) for which math.pow overflows.
CONSTANTS
    Blank = Blank
    Bad = Bad
    Missing = Missing
    OldOut = OldOut
    ReadOnly = ReadOnly
    NoEntry = NoEntry
    b1 = b1
    b2 = b2
    Names = {b1, b2}
    Lines <- MCLines
    MaxLines = 2
    ArgCounts = {4, 5}
    Starts = {0}
    Stops = {0, 1, 2}
    Increments = {0, 1, 2}
    Disks = {"free", "full"}
    FloatMax = 16
    Inf = Inf

SPECIFICATION Spec
INVARIANT TypeOK
PROPERTY RefinesOneShotOutput
\* The script exits: its final states have no successor.
CHECK_DEADLOCK FALSE
