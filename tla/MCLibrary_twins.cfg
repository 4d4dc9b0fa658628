SPECIFICATION Spec
CONSTANTS
    A = A
    B = B
    None = None
    LastPath = 4
    FormatOf <- MCFormatOf
    StemOf <- MCStemOf
    Works = {A, B}
    Library0 <- MCLibrary0
    MASS_MISSING_MIN_ABSOLUTE = 2
    MaxBooks = 9
    MaxOps = 2
    MaxFaults = 1
INVARIANTS
    TwinsComeBackToOneBook
CHECK_DEADLOCK FALSE
