SPECIFICATION Spec
CONSTANTS
    NaN = NaN
    MaxValueDepth = 3
    DottedNames = {}
    BlankStrings = {""}
    Blocks <- MCBlocks
    Nodes = {"p", "s"}
    BindingTables <- MCBindingTables
    TypeLists <- MCTypeLists
    ArgumentValues <- MCArgumentValues
    FieldLists <- MCFieldLists
    Players <- MCPlayers
    ForeignPairs <- MCForeignPairs
    EffectLists <- MCEffectLists
    MaxCalls = 2
INVARIANTS
    ReadAsWritten
    FailClosedHolds
    AllowedIsDeclaredAndHeld
PROPERTIES
    EffectsWholeInOrder
