SPECIFICATION PullSpec
CONSTANTS
    nginx = nginx
    redis = redis
    base = base
    app = app
    NoImage = NoImage
    Images <- MCImages
    Digests <- MCDigests
    LayersOf <- MCLayersOf
    Framings = {"length", "chunks", "close", "malformed"}
    FirstPort = 6
    PortSpace = 8
    TxCapacity = 1
    RxCapacity = 2
    ChunkSize = 1
    MaxPolls = 2
    RequestLen = 1
    ReplyLens = {3, 8}
    MaxCalls = 4
    MaxField = 2
    MaxPayload = 3
    MaxInflated = 2
INVARIANTS PullTypeOK NoSocketLeft ManifestsAreGenuine CutsAreSeen LayersUnpack
PROPERTIES StoreSpec OperationReturns
