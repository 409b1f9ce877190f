\* --list, --watch or PAPPL on a bus with a P1102, a P1006, a device of another
\* kind and a P1102 without a serial number.
SPECIFICATION Spec
CONSTANTS
    p1 = p1
    p2 = p2
    p3 = p3
    p4 = p4
    Printers = {p1, p2, p3, p4}
    Clients = {"client"}
    Programs = {"--list", "--watch", "pappl"}
    NoPrinter = NoPrinter
    NoClient = NoClient
    Serialised = {p1, p2}
    ProductOf <- Bus
    Models <- hplp_models
    Ports = 2
    Probed = {"usblp"}
    SerialSize = 4
    SerialStrings <- ShortStrings
    HandWritten <- Written
INVARIANTS
    UriTypeOK
    ListsEachOnce
    ShowsLatest
    ExitCodeTells
    OffersOpen
    OpenedCanBeNamed
PROPERTIES
    NoticesEmptyBus
    Ends
