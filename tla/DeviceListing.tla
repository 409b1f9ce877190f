--------------------------- MODULE DeviceListing ---------------------------
(***************************************************************************)
(* The programs that look for printers: --list and --watch of DeviceWatch, *)
(* and PAPPL with hplp_device_list and the first half of hplp_device_open, *)
(* up to hplp_usb_session_open (src/pappl_device.c).  The printers on the  *)
(* bus are offered to PAPPL as URIs, and PAPPL opens URIs, those it was    *)
(* offered and those that a user wrote.  The session behind an open is     *)
(* UsbSession.                                                             *)
(*                                                                         *)
(* A serial number has no say in how a device is listed, and is chosen     *)
(* when the string is put into the URI.                                    *)
(***************************************************************************)
EXTENDS DeviceWatch, DeviceUri

CONSTANTS
    Ports,          \* bound: devices on the bus at a time
    Probed,         \* bound: their drivers, which no program here looks at
    SerialStrings,  \* bound: the strings a serial descriptor may hold
    HandWritten     \* bound: the encoded serials users write

\* C strings; hplp_usb_list reads a serial number into 256 bytes.
ASSUME ListingAssumption ==
    /\ Ports \in Nat /\ Probed \subseteq Drivers
    /\ \A s \in SerialStrings : s \in Seq(1..255) /\ Len(s) < SerialSize
    /\ \A s \in HandWritten : s \in Seq(1..255)

VARIABLES
    offers,     \* history: what cb got, if the last call was a listing
    opened      \* history: the product and serial number that got as far as
                \* hplp_usb_session_open and have not been closed

uriVars == <<offers, opened>>
vars    == <<busVars, listVars, mainVars, uriVars>>

Products == {ProductOf[p] : p \in Printers}
Names    == [product : Products, serial : Seq(Nat)]

UriTypeOK ==
    /\ MainTypeOK
    /\ offers \in Seq([dev : Printers, serial : Seq(Nat), uri : Names])
    /\ opened \subseteq Names /\ Cardinality(opened) <= 1

WithinBounds ==
    /\ Cardinality(plugged) <= Ports
    /\ \A p \in plugged : driver[p] \in Probed

Init ==
    /\ MainInit
    /\ WithinBounds
    /\ offers = <<>> /\ opened = {}

-----------------------------------------------------------------------------
Offerable(d) ==
    /\ ProfileVerified(ProductOf[d.dev])
    /\ d.serial_state = "READY"

StartListing(c) ==
    /\ program[c] = "pappl"
    /\ UsbList(c)
    /\ offers' = <<>> /\ opened' = {}
    /\ UNCHANGED mainVars

ListingStep(c) ==
    /\ program[c] = "pappl"
    /\ Listing(c)
    /\ UNCHANGED <<mainVars, uriVars>>

Ready(ds) == {i \in 1..Len(ds) : Offerable(ds[i])}

\* An empty string is no serial number.
Named(ds, s) == {i \in Ready(ds) : s[i] # <<>>}

Offer(d, serial) == [dev    |-> d.dev,
                     serial |-> serial,
                     uri    |-> UriOf(ProductOf[d.dev], serial)]

\* What the loop has offered of ds after each turn, s the serial numbers.
Offered(ds, s) ==
    LET offered[i \in 0..Len(ds)] ==
            IF i = 0 THEN <<>>
            ELSE IF i \in Named(ds, s)
                 THEN Append(offered[i - 1], Offer(ds[i], s[i]))
                 ELSE offered[i - 1]
    IN  offered

\* The callback may stop the loop at any offer.
hplp_device_list(c) ==
    /\ program[c] = "pappl"
    /\ ListFree(c) /\ Forget(c)
    /\ \E s \in [Ready(devices[c]) -> SerialStrings] :
          \E last \in Named(devices[c], s) \cup {Len(devices[c])} :
             offers' = Offered(devices[c], s)[last]
    /\ UNCHANGED <<mainVars, opened>>

\* Bound: one open at a time.  It looks at nothing but the URI.
hplp_device_open(c, uri) ==
    /\ program[c] = "pappl"
    /\ dpc[c] = "idle"
    /\ opened = {}
    /\ opened' = parse_hplp_uri(uri)
    /\ offers' = <<>>
    /\ UNCHANGED <<busVars, listVars, mainVars>>

hplp_device_close(c) ==
    /\ program[c] = "pappl"
    /\ opened # {}
    /\ opened' = {}
    /\ UNCHANGED <<busVars, listVars, mainVars, offers>>

\* Bound: a user's URI is tried when there is no offer to take.
Uris ==
    IF offers = <<>> THEN [product : Products, serial : HandWritten]
    ELSE {offers[i].uri : i \in 1..Len(offers)}

-----------------------------------------------------------------------------
Leaves(p)  == Unplug(p) /\ UNCHANGED <<listVars, mainVars, uriVars>>
Arrives(p) ==
    Plug(p) /\ WithinBounds' /\ UNCHANGED <<listVars, mainVars, uriVars>>

CommandLine(c) == MainStep(c) /\ UNCHANGED uriVars
Signal(c)      == on_signal(c) /\ UNCHANGED uriVars

Next ==
    \/ \E p \in Printers : Leaves(p) \/ Arrives(p)
    \/ \E c \in Clients :
          \/ CommandLine(c) \/ Signal(c)
          \/ StartListing(c) \/ ListingStep(c) \/ hplp_device_list(c)
          \/ \E uri \in Uris : hplp_device_open(c, uri)
          \/ hplp_device_close(c)

\* In the command line's programs libusb calls return and the sleep ends.
Spec == Init /\ [][Next]_vars /\ \A c \in Clients : WF_vars(CommandLine(c))

-----------------------------------------------------------------------------
(* What the device scheme promises. *)

\* PAPPL is offered each printer at most once, none with a profile that nobody
\* has verified or a descriptor without a serial number; and every URI that it
\* was offered opens as the product and the serial number of the printer it was
\* made from, whatever characters that number has and however long it is
\* (16-130, 158-175).
OffersOpen ==
    \A i \in 1..Len(offers) :
        /\ ProfileVerified(ProductOf[offers[i].dev])
        /\ offers[i].dev \in Serialised
        /\ \A j \in 1..Len(offers) : offers[i].dev = offers[j].dev => i = j
        /\ parse_hplp_uri(offers[i].uri) =
              {[product |-> ProductOf[offers[i].dev],
                serial  |-> offers[i].serial]}

\* Whatever URI a user writes: what it opens fits the buffer of a serial
\* number, and the URI made from it opens the same (66-81, 109-130).
OpenedCanBeNamed ==
    \A n \in opened :
        /\ n.serial # <<>> /\ Len(n.serial) < SerialSize
        /\ 0 \notin {n.serial[i] : i \in 1..Len(n.serial)}
        /\ parse_hplp_uri(UriOf(n.product, n.serial)) = {n}
=============================================================================
