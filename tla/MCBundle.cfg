SPECIFICATION BundleSpec
CONSTANTS
    A = A
    B = B
    C = C
    int = int
    player = player
    NaN = NaN
    Zero = Zero
    Names = {A, B, C, int}
    ValidNames = {A, B, C, int}
    Order <- MCOrder
    Scalars = {int, player}
    FieldNames = {"f", "g", "h", "i", "j"}
    Tables <- MCTables
    MaxBlankDepth = 2
    PlayerRef = player
    KindOf <- MCKindOf
    MaxValueDepth = 10
    DottedNames = {"shop", "buy", "sell"}
    BlankStrings = {"", " "}
    Archives <- MCArchives
    MaxManifestSize = 2
    MaxTreeSize = 3
INVARIANTS
    LoadedIsWhole
    RefusedIsFlawed
    ShallowBlankFits
    BlankEncodes
