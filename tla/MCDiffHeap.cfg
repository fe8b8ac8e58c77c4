SPECIFICATION Spec
CONSTANTS
    a = a
    b = b
    zero = zero
    minus = minus
    NaN = NaN
    Zeros <- MCZeros
    MaxValueDepth = 5
    Scalars <- MCScalars
    Payloads <- MCPayloads
    Foreign <- MCForeign
    Spare = 1
    Rounds = 2
PROPERTIES
    PublishedNeverChanges
    ImplementsPayload
