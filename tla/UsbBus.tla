------------------------------- MODULE UsbBus -------------------------------
(***************************************************************************)
(* The world the program calls through libusb: printers on a USB bus, the  *)
(* kernel's usblp driver, and the usbfs claim that at most one client      *)
(* holds on a printer's interface.  None of it is code of the repository;  *)
(* it is what src/usb_transport.c, src/usb_claim.c and src/print_test.c    *)
(* rely on when they call libusb_open, libusb_kernel_driver_active,        *)
(* libusb_detach_kernel_driver, libusb_claim_interface,                    *)
(* libusb_release_interface, libusb_attach_kernel_driver and               *)
(* libusb_close.                                                           *)
(*                                                                         *)
(* A libusb_device or an open handle refers to one ENUMERATION of a        *)
(* printer.  Unplugging ends the enumeration: every reference to it goes   *)
(* dead for good, and the next plug makes a new enumeration that old       *)
(* references do not reach.                                                *)
(***************************************************************************)
EXTENDS PrinterModels

CONSTANTS
    Printers,    \* physical printers
    Clients,     \* open libusb contexts, in one process or in several
    NoPrinter,   \* also the empty serial string
    NoClient,
    ProductOf,   \* USB product id of each printer
    Serialised   \* the printers whose descriptor carries a serial number

ASSUME BusAssumption ==
    /\ NoPrinter \notin Printers
    /\ NoClient \notin Clients
    /\ Serialised \subseteq Printers

VARIABLES
    plugged,   \* the printers on the bus
    driver,    \* kernel driver bound to each printer's interface
    owner,     \* the client that holds each printer's interface through usbfs
    handle,    \* the libusb_device_handle each client has open
    list       \* what is left of the device list each client walks

busVars == <<plugged, driver, owner, handle, list>>

Drivers == {"none", "usblp"}
Device  == [dev : Printers, live : BOOLEAN]
NoRef   == [dev |-> NoPrinter, live |-> FALSE]

BusTypeOK ==
    /\ plugged \subseteq Printers
    /\ driver \in [Printers -> Drivers]
    /\ owner \in [Printers -> Clients \cup {NoClient}]
    /\ handle \in [Clients -> Device \cup {NoRef}]
    /\ list \in [Clients -> SUBSET Device]

BusInit ==
    /\ plugged \in SUBSET Printers
    /\ driver \in [Printers -> Drivers]
    /\ \A p \in Printers \ plugged : driver[p] = "none"
    /\ owner = [p \in Printers |-> NoClient]
    /\ handle = [c \in Clients |-> NoRef]
    /\ list = [c \in Clients |-> {}]

-----------------------------------------------------------------------------
(* The environment. *)

Stale(r, p) == IF r.dev = p THEN [r EXCEPT !.live = FALSE] ELSE r

Unplug(p) ==
    /\ p \in plugged
    /\ plugged' = plugged \ {p}
    /\ driver' = [driver EXCEPT ![p] = "none"]
    /\ owner' = [owner EXCEPT ![p] = NoClient]
    /\ handle' = [c \in Clients |-> Stale(handle[c], p)]
    /\ list' = [c \in Clients |-> {Stale(r, p) : r \in list[c]}]

\* usblp probes a new enumeration when the module is loaded.
Plug(p) ==
    /\ p \notin plugged
    /\ plugged' = plugged \cup {p}
    /\ \E d \in Drivers : driver' = [driver EXCEPT ![p] = d]
    /\ UNCHANGED <<owner, handle, list>>

-----------------------------------------------------------------------------
(* What one libusb call of client c does to the bus.  Each call may also   *)
(* fail; its caller says what it does then.                                *)

Printer(c) == handle[c].dev
Live(c)    == handle[c].live

\* A call on a dead enumeration says NO_DEVICE; on a live one, anything else.
ErrorOf(r) == IF r.live THEN "ERROR" ELSE "NO_DEVICE"

DetachDriver(c) ==
    /\ Live(c)
    /\ driver[Printer(c)] = "usblp"
    /\ driver' = [driver EXCEPT ![Printer(c)] = "none"]

ClaimInterface(c) ==
    /\ Live(c)
    /\ driver[Printer(c)] = "none"
    /\ owner[Printer(c)] = NoClient
    /\ owner' = [owner EXCEPT ![Printer(c)] = c]

ReleaseInterface(c) ==
    owner' = [p \in Printers |-> IF owner[p] = c /\ Printer(c) = p /\ Live(c)
                                 THEN NoClient ELSE owner[p]]

\* The kernel refuses to bind a driver to an interface usbfs holds; the
\* call may fail on a free one too (the module is gone).  Nobody looks.
AttachDriver(c) ==
    \/ UNCHANGED driver
    \/ /\ Live(c)
       /\ owner[Printer(c)] = NoClient
       /\ driver' = [driver EXCEPT ![Printer(c)] = "usblp"]

CloseHandle(c) == handle' = [handle EXCEPT ![c] = NoRef]
=============================================================================
