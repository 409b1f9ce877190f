\* A caller that goes on writing after failures; two identical printers.
SPECIFICATION Spec
CONSTANTS
    p1 = p1
    p2 = p2
    Printers = {p1, p2}
    Clients = {"c1"}
    NoPrinter = NoPrinter
    NoClient = NoClient
    Serialised = {p1, p2}
    ProductOf <- Twins
    Models <- hplp_models
    ChunkSize = 2
    ReconnectAttempts = 2
    MaxWrite = 3
    MaxJob = 4
    WritesAfterFailure = TRUE
INVARIANTS
    AcceptedCounts
    RightPrinter
    NoByteTwice
    NoReattachAfterJob
PROPERTIES
    ImplementsJobStream
    NoByteAfterTear
    CallReturns
