\* Two sessions race for the one printer that has the no-reattach quirk.
SPECIFICATION Spec
CONSTANTS
    p1 = p1
    p2 = p2
    Printers = {p1}
    Clients = {"c1", "c2"}
    NoPrinter = NoPrinter
    NoClient = NoClient
    Serialised = {p1}
    ProductOf <- Twins
    Models <- hplp_models
    ChunkSize = 1
    ReconnectAttempts = 2
    MaxWrite = 1
    MaxJob = 1
    WritesAfterFailure = FALSE
INVARIANTS
    NoReattachAfterJob
