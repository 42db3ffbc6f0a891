SPECIFICATION FairSpec
CONSTANTS
    a = a
    b = b
    c = c
    clangd = clangd
    abapls = abapls
    Paths = {a, b, c}
    JsonPaths = {c}
    NoPath = NoPath
    Servers = {clangd, abapls}
    NoServer = NoServer
    ServerFor <- MCServerFor
    Clangd = {clangd}
    MaxRev = 1
    MaxCommands = 2
INVARIANT ProtocolKept
INVARIANT SyncedMeansOpen
INVARIANT Answerable
 
