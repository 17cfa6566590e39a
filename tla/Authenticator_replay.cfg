SPECIFICATION Spec
CONSTANTS
    h1 = h1
    h2 = h2
    i1 = i1
    Handlers <- TwoHandlers
    HttpIds <- OneId
    WsseIds <- OneId
    Created <- SomeCreated
    NoKey = NoKey
    TTL = 1
    MaxTime = 2
    MaxRestarts = 0
    MaxPlain = 0
SYMMETRY Symmetry
PROPERTY
    ReplayRejected
