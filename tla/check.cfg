\* Two claim checks at once on one P1102, beside a P1006 that they skip.
SPECIFICATION Spec
CONSTANTS
    p1 = p1
    p2 = p2
    Printers = {p1, p2}
    Clients = {"k1", "k2"}
    NoPrinter = NoPrinter
    NoClient = NoClient
    Serialised = {p1}
    ProductOf <- Family
    Models <- hplp_models
INVARIANTS
    LeavesAsFound
    FinishedCheck
