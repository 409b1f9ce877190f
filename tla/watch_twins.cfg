\* Two P1102, one of them without a serial number.
SPECIFICATION Spec
CONSTANTS
    p1 = p1
    p2 = p2
    Printers = {p1, p2}
    Clients = {"watch"}
    NoPrinter = NoPrinter
    NoClient = NoClient
    Serialised = {p1}
    ProductOf <- Twins
    Models <- hplp_models
INVARIANTS
    WatchTypeOK
    ReportsWhatItHolds
    StopsClean
    LeavesUnboundAlone
PROPERTIES
    StopsOnSignal
    NoticesUnplug
