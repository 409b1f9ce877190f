\* A session beside a claim check or a print test, on one P1102.
SPECIFICATION AllSpec
CONSTANTS
    p1 = p1
    Printers = {p1}
    Clients = {"server", "user"}
    MayRun <- ServerAndUser
    NoPrinter = NoPrinter
    NoClient = NoClient
    Serialised = {p1}
    ProductOf <- One
    Models <- hplp_models
    ChunkSize = 1
    ReconnectAttempts = 1
    MaxWrite = 1
    MaxJob = 2
    WritesAfterFailure = FALSE
    PageBytes = 1
    BufferSize = 1
    MaxZjs = 1
INVARIANTS
    OneWriter
PROPERTIES
    EveryJobAStream
    OnlyTakerHandsBack
