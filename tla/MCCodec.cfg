SPECIFICATION Spec
CONSTANTS
    s1 = s1
    s2 = s2
    NoSender = NoSender
    NoEnvelope = NoEnvelope
    Junk = Junk
    empty = empty
    small = small
    large = large
    invalid = invalid
    huge = huge
    nil = nil
    Senders = {s1, s2}
    Envelopes = {empty, large, invalid, huge, nil}
    Missing <- MCMissing
    Invalid <- MCInvalid
    Size <- MCSize
    Header <- MCHeader
    SendLimit = 2
    ReceiveLimit = 2
    Capacity = 3
    JunkLengths = {0, 1}
SYMMETRY Symmetry
INVARIANTS
    TypeOK
    BuffersOwned
    FramesContiguous
    ResultMeansBytes
    OrderlyEndIsClean
    CleanEOFOnlyAroundHeaders
PROPERTIES
    ImplementsChannel
