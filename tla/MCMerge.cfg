CONSTANTS
    A = A
    B = B
    C = C
    p = p
    q = q
    Books = {A, B, C}
    FormatOf <- MCFormatOf
    Catalogues <- MCCatalogues
    Latest = {"status"}
    Folded = {"review"}
    MaxWrites = 3
    MaxMerges = 3
    None = None
SPECIFICATION Spec
INVARIANTS
    TypeOK
    RoundTrip
    EventOnItsBook
    NothingLost
    LastMergeUndoable
SYMMETRY Symmetry
CHECK_DEADLOCK FALSE
