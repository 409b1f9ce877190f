\* The message the watch prints when it stops.
SPECIFICATION Spec
CONSTANTS
    p1 = p1
    p2 = p2
    Printers = {p1}
    Clients = {"watch"}
    NoPrinter = NoPrinter
    NoClient = NoClient
    Serialised = {p1}
    ProductOf <- Twins
    Models <- hplp_models
INVARIANTS
    OriginalStateRestored
