\* Two sessions contend for one printer, which has no quirk.
SPECIFICATION Spec
CONSTANTS
    p1 = p1
    p2 = p2
    Printers = {p1}
    Clients = {"c1", "c2"}
    NoPrinter = NoPrinter
    NoClient = NoClient
    Serialised = {p1}
    ProductOf <- Quirkless
    Models <- GrownTable
    ChunkSize = 1
    ReconnectAttempts = 1
    MaxWrite = 2
    MaxJob = 2
    WritesAfterFailure = FALSE
INVARIANTS
    SessionInv
    Exclusive
    NothingLeaked
