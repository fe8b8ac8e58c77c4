SPECIFICATION Spec
CONSTANTS
    NaN = NaN
    a = a
    b = b
    id = id
    zero = zero
    minus = minus
    Zeros <- MCZeros
    MaxValueDepth = 3
    Payloads <- MCPayloadsOdd
    Foreign <- MCForeign
    Mutable <- MCMutable
    Subscribers = 2
    FailClosed = TRUE
INVARIANTS
    TypeOK
    ReplayReproduces
    ReadOnlyFieldsKept
    UntouchedSendsNothing
    DeepestChangesOnly
