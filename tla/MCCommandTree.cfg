SPECIFICATION Spec
CONSTANTS
    x = x
    y = y
    odd = odd
    op = op
    blank = blank
    bad = bad
    worse = worse
    fffd = fffd
    None = None
    NaN = NaN
    Trees <- MCTrees
    Documents <- MCDocuments
    WireTrees <- MCWireTrees
    ValidNames = {x, y, bad, worse, fffd}
    Blanks = {None, blank}
    Mended <- MCMended
    FileSize <- MCFileSize
    MaxFileSize = 4
    Infinity = 100
    MantissaBits = 2
    MinInt <- MCMinInt
    MaxInt = 7
    MaxNodes = 4
    MaxDepth = 3
INVARIANTS
    TypeOK
    ExecutorsDense
    BuildKeepsCommands
    PermissionsSurvive
    HostLoadsWhatWasBuilt
