\* One print test after another, two P1102.
SPECIFICATION Spec
CONSTANTS
    p1 = p1
    p2 = p2
    Printers = {p1, p2}
    Clients = {"test"}
    Processes = {"test"}
    NoPrinter = NoPrinter
    NoClient = NoClient
    Serialised = {p1, p2}
    ProductOf <- Twins
    Models <- hplp_models
    PageBytes = 2
    BufferSize = 2
    MaxZjs = 3
INVARIANTS
    TestTypeOK
    RenderContract
    NothingLeft
    NoUsblpAfterPage
PROPERTIES
    ImplementsJobStream
    TestEnds
