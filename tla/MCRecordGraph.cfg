SPECIFICATION FairSpec
CONSTANTS
    A = A
    B = B
    C = C
    bad = bad
    int = int
    Names = {A, B, C, bad, int}
    ValidNames = {A, B, C, int}
    Order <- MCOrder
    Scalars = {int}
    FieldNames = {"f", "g"}
    Tables <- MCTables
INVARIANTS
    AcceptedIsRanked
    RefusedCycleIsReal
    WalksAreDistinct
    VerdictMatchesDefinition
PROPERTIES
    Decides
