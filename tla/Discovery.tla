----------------------------- MODULE Discovery -----------------------------
(***************************************************************************)
(* hplp_usb_list of src/usb_discovery.c: the supported printers on the bus,*)
(* counted in a first pass over libusb's device list and written into an   *)
(* array of that length in a second one, which opens each to read its      *)
(* serial number.  Its callers are the command line (DeviceWatch) and      *)
(* PAPPL (DeviceListing).                                                  *)
(*                                                                         *)
(* A libusb call is a step.  A descriptor, which libusb keeps with the     *)
(* device, reads the same in both passes.  A caller starts with UsbList and*)
(* finds "done" in dpc, and the count or the error in rc.                  *)
(***************************************************************************)
EXTENDS UsbBus, FiniteSets, Sequences

\* libusb's device list ends.
ASSUME DiscoveryAssumption == IsFiniteSet(Printers)

VARIABLES
    dpc,      \* the libusb call each client makes next
    matched,  \* the length of the array result
    devices,  \* result[0 .. out - 1]
    rc,       \* 0, or 1 for an error
    found     \* history: the supported printers when the list was taken

listVars == <<dpc, matched, devices, rc, found>>

SerialStates == {"ABSENT", "READY", "PENDING"}
UsbDevice    == [dev : Printers, serial_state : SerialStates]

Supported == {p \in Printers : ProductOf[p] \in DOMAIN Models}

ListTypeOK ==
    /\ BusTypeOK
    /\ dpc \in [Clients -> {"idle", "fill", "string", "done"}]
    /\ matched \in [Clients -> 0..Cardinality(Supported)]
    /\ devices \in [Clients -> Seq(UsbDevice)]
    /\ rc \in [Clients -> {0, 1}]
    /\ found \in [Clients -> SUBSET Printers]

ListInit ==
    /\ dpc = [c \in Clients |-> "idle"]
    /\ matched = [c \in Clients |-> 0]
    /\ devices = [c \in Clients |-> <<>>]
    /\ rc = [c \in Clients |-> 0]
    /\ found = [c \in Clients |-> {}]

Step(c, from, to) ==
    /\ dpc[c] = from
    /\ dpc' = [dpc EXCEPT ![c] = to]

-----------------------------------------------------------------------------
\* libusb_init, libusb_get_device_list, the first pass and calloc.
UsbList(c) ==
    /\ devices' = [devices EXCEPT ![c] = <<>>]
    /\ found' = [found EXCEPT ![c] = plugged \cap Supported]
    /\ UNCHANGED <<plugged, driver, owner, handle>>
    /\ \/ /\ Step(c, "idle", "fill")
          /\ list' = [list EXCEPT ![c] = {[dev |-> p, live |-> TRUE] :
                                          p \in plugged}]
          /\ matched' = [matched EXCEPT
                           ![c] = Cardinality(plugged \cap Supported)]
          /\ rc' = [rc EXCEPT ![c] = 0]
       \/ /\ Step(c, "idle", "done")
          /\ rc' = [rc EXCEPT ![c] = 1]
          /\ UNCHANGED <<list, matched>>

\* ++out, with the serial_state that read_serial returned.
Fill(c, p, state) ==
    devices' = [devices EXCEPT
                  ![c] = Append(@, [dev |-> p, serial_state |-> state])]

\* Mutant: the second pass goes on counting in matched.
NextDeviceCounts(c) ==
    /\ \E r \in list[c] :
          /\ r.dev \in Supported
          /\ list' = [list EXCEPT ![c] = @ \ {r}]
          /\ Step(c, "fill", "fill") /\ Fill(c, r.dev, "PENDING")
          /\ matched' = [matched EXCEPT ![c] = @ + 1]
    /\ UNCHANGED <<plugged, driver, owner, handle, rc, found>>

\* Mutant: a printer that cannot be opened is left out.
NextDeviceSkips(c) ==
    /\ \E r \in list[c] :
          /\ list' = [list EXCEPT ![c] = @ \ {r}]
          /\ \/ Step(c, "fill", "fill") /\ UNCHANGED <<handle, devices>>
             \/ /\ r.dev \in Supported /\ r.live
                /\ Step(c, "fill", "string")
                /\ handle' = [handle EXCEPT ![c] = r]
                /\ UNCHANGED devices
    /\ UNCHANGED <<plugged, driver, owner, matched, rc, found>>

\* The next device of the second pass, up to read_serial's libusb_open.
NextDevice(c) ==
    /\ \E r \in list[c] :
          /\ list' = [list EXCEPT ![c] = @ \ {r}]
          /\ \/ /\ r.dev \notin Supported
                /\ Step(c, "fill", "fill")
                /\ UNCHANGED <<handle, devices>>
             \/ /\ r.dev \in Supported \ Serialised
                /\ Step(c, "fill", "fill")
                /\ Fill(c, r.dev, "ABSENT")
                /\ UNCHANGED handle
             \/ /\ r.dev \in Supported \cap Serialised
                /\ Step(c, "fill", "fill")
                /\ Fill(c, r.dev, "PENDING")
                /\ UNCHANGED handle
             \/ /\ r.dev \in Supported \cap Serialised /\ r.live
                /\ Step(c, "fill", "string")
                /\ handle' = [handle EXCEPT ![c] = r]
                /\ UNCHANGED devices
    /\ UNCHANGED <<plugged, driver, owner, matched, rc, found>>

\* Mutant: the handle is closed only after a success.
ReadStringOpen(c) ==
    /\ Step(c, "string", "fill")
    /\ \/ Live(c) /\ Fill(c, Printer(c), "READY") /\ CloseHandle(c)
       \/ Fill(c, Printer(c), "PENDING") /\ UNCHANGED handle
    /\ UNCHANGED <<plugged, driver, owner, list, matched, rc, found>>

\* libusb_get_string_descriptor_ascii.
ReadString(c) ==
    /\ Step(c, "string", "fill")
    /\ \/ Live(c) /\ Fill(c, Printer(c), "READY")
       \/ Fill(c, Printer(c), "PENDING")
    /\ CloseHandle(c)
    /\ UNCHANGED <<plugged, driver, owner, list, matched, rc, found>>

LastDevice(c) ==
    /\ list[c] = {}
    /\ Step(c, "fill", "done")
    /\ UNCHANGED <<busVars, matched, devices, rc, found>>

Listing(c) == NextDevice(c) \/ ReadString(c) \/ LastDevice(c)

\* The caller has read the array: hplp_usb_list_free, and its locals end.
ListFree(c) ==
    /\ Step(c, "done", "idle")
    /\ devices' = [devices EXCEPT ![c] = <<>>]
    /\ matched' = [matched EXCEPT ![c] = 0]
    /\ rc' = [rc EXCEPT ![c] = 0]
    /\ UNCHANGED busVars

Forget(c) == found' = [found EXCEPT ![c] = {}]

-----------------------------------------------------------------------------
(* What the list promises. *)

\* A list that succeeds names every supported printer that was on the bus when
\* it was taken, each once, those that left while it was filled included; and
\* whichever of its reads failed, it has closed every handle (48-60, 96-139).
ListsEachOnce ==
    \A c \in Clients : dpc[c] = "done" =>
        /\ handle[c] = NoRef
        /\ rc[c] = 0 =>
              /\ {devices[c][i].dev : i \in 1..Len(devices[c])} = found[c]
              /\ Len(devices[c]) = Cardinality(found[c])
=============================================================================
