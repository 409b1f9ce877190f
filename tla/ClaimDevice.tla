---------------------------- MODULE ClaimDevice ----------------------------
(***************************************************************************)
(* The session record of src/usb_transport.c and the two static functions  *)
(* that open and close it: claim_device, with the loop over the device     *)
(* list that each of its callers wraps around it, and close_session_handle.*)
(*                                                                         *)
(* One step is one libusb call that other clients or an unplug can come    *)
(* between.  libusb_close goes with the call before it: a handle without a *)
(* claim excludes nobody.  A caller starts a walk with StartWalk and finds *)
(* "done" in cpc when it is over, and "closed" after a close.              *)
(***************************************************************************)
EXTENDS UsbBus

VARIABLES
    cpc,      \* the libusb call each client makes next
    want,     \* expected_serial, NoPrinter for NULL
    try,      \* claim_device's locals serial and detached
    result,   \* the walk's result code
    sess      \* the hplp_usb_session_t

claimVars == <<cpc, want, try, result, sess>>

Codes == {"SUCCESS", "NO_DEVICE", "ERROR"}
Serials == Printers \cup {NoPrinter}

ClosedSession == [held |-> FALSE, detached |-> FALSE, serial |-> NoPrinter,
                  accepted |-> 0, last_error |-> "SUCCESS"]

ClaimPcs == {"idle", "scan", "serial", "active", "detach", "claim", "undo",
             "done", "release", "attach", "closed"}
TryRec   == [serial : Serials, detached : BOOLEAN]
SessRec  == [held : BOOLEAN, detached : BOOLEAN, serial : Serials,
             accepted : Nat, last_error : Codes]

ClaimTypeOK ==
    /\ cpc \in [Clients -> ClaimPcs]
    /\ want \in [Clients -> Serials]
    /\ try \in [Clients -> TryRec]
    /\ result \in [Clients -> Codes]
    /\ sess \in [Clients -> SessRec]

ClaimInit ==
    /\ cpc = [c \in Clients |-> "idle"]
    /\ want = [c \in Clients |-> NoPrinter]
    /\ try = [c \in Clients |-> [serial |-> NoPrinter, detached |-> FALSE]]
    /\ result = [c \in Clients |-> "NO_DEVICE"]
    /\ sess = [c \in Clients |-> ClosedSession]

Goto(c, from, to) ==
    /\ cpc[c] = from
    /\ cpc' = [cpc EXCEPT ![c] = to]

-----------------------------------------------------------------------------
(* claim_device, over the devices of the list one by one. *)

\* libusb_get_device_list, which may fail; "among" are the devices that the
\* loop body does not skip.
StartWalk(c, from, expected, among) ==
    /\ want' = [want EXCEPT ![c] = expected]
    /\ UNCHANGED <<plugged, driver, owner, handle, try>>
    /\ \/ /\ Goto(c, from, "scan")
          /\ list' = [list EXCEPT ![c] = {[dev |-> p, live |-> TRUE] :
                                          p \in plugged \cap among}]
          /\ result' = [result EXCEPT ![c] = "NO_DEVICE"]
       \/ /\ Goto(c, from, "done")
          /\ list' = [list EXCEPT ![c] = {}]
          /\ result' = [result EXCEPT ![c] = "ERROR"]

\* A device that is not the wanted one, or has gone, does not spoil the result.
Record(c, code) ==
    result' = [result EXCEPT ![c] = IF code = "NO_DEVICE" THEN @ ELSE code]

\* Mutant: an error return that forgets libusb_close.
GiveUpOpen(c, from, code) ==
    /\ Goto(c, from, "scan")
    /\ Record(c, code)
    /\ UNCHANGED <<plugged, owner, handle, list, want, try, sess>>

\* An error return of claim_device: close the handle, go on with the list.
GiveUp(c, from, code) ==
    /\ Goto(c, from, "scan")
    /\ CloseHandle(c)
    /\ Record(c, code)
    /\ UNCHANGED <<plugged, owner, list, want, try, sess>>

ScanOpen(c) ==
    /\ \E r \in list[c] :
          /\ list' = [list EXCEPT ![c] = @ \ {r}]
          /\ \/ /\ r.live
                /\ Goto(c, "scan", "serial")
                /\ handle' = [handle EXCEPT ![c] = r]
                /\ UNCHANGED result
             \/ /\ Goto(c, "scan", "scan")
                /\ Record(c, ErrorOf(r))
                /\ UNCHANGED handle
    /\ UNCHANGED <<plugged, driver, owner, want, try, sess>>

ScanEnd(c) ==
    /\ list[c] = {}
    /\ Goto(c, "scan", "done")
    /\ UNCHANGED <<busVars, want, try, result, sess>>

SerialIs(c, s) ==
    /\ Goto(c, "serial", "active")
    /\ try' = [try EXCEPT ![c] = [serial |-> s, detached |-> FALSE]]
    /\ UNCHANGED <<busVars, want, result, sess>>

\* Mutant: the serial number is read but not compared.
ReadAnySerial(c) ==
    LET s == IF Printer(c) \in Serialised THEN Printer(c) ELSE NoPrinter
    IN  SerialIs(c, s)

ReadSerial(c) ==
    \/ /\ Live(c) \/ Printer(c) \notin Serialised
       /\ LET s == IF Printer(c) \in Serialised THEN Printer(c) ELSE NoPrinter
          IN  IF want[c] \in {NoPrinter, s}
              THEN SerialIs(c, s)
              ELSE GiveUp(c, "serial", "NO_DEVICE") /\ UNCHANGED driver
    \/ /\ Printer(c) \in Serialised
       /\ IF want[c] = NoPrinter
          THEN SerialIs(c, NoPrinter)
          ELSE GiveUp(c, "serial", ErrorOf(handle[c])) /\ UNCHANGED driver

DriverActive(c) ==
    \/ /\ Live(c)
       /\ Goto(c, "active",
               IF driver[Printer(c)] = "usblp" THEN "detach" ELSE "claim")
       /\ UNCHANGED <<busVars, want, try, result, sess>>
    \/ GiveUp(c, "active", ErrorOf(handle[c])) /\ UNCHANGED driver

Detach(c) ==
    \/ /\ Goto(c, "detach", "claim")
       /\ DetachDriver(c)
       /\ try' = [try EXCEPT ![c].detached = TRUE]
       /\ UNCHANGED <<plugged, owner, handle, list, want, result, sess>>
    \/ GiveUp(c, "detach", ErrorOf(handle[c])) /\ UNCHANGED driver

FillSession(c) ==
    /\ sess' = [sess EXCEPT ![c] =
                  [held |-> TRUE, detached |-> try[c].detached,
                   serial |-> try[c].serial, accepted |-> 0,
                   last_error |-> "SUCCESS"]]
    /\ result' = [result EXCEPT ![c] = "SUCCESS"]
    /\ list' = [list EXCEPT ![c] = {}]
    /\ UNCHANGED <<plugged, driver, handle, want, try>>

\* Mutant: the result of libusb_claim_interface is not looked at.
ClaimUnchecked(c) ==
    /\ Goto(c, "claim", "done")
    /\ ClaimInterface(c) \/ UNCHANGED owner
    /\ FillSession(c)

\* Success fills the session record and ends the walk.
Claim(c) ==
    \/ /\ Goto(c, "claim", "done")
       /\ ClaimInterface(c)
       /\ FillSession(c)
    \/ /\ try[c].detached
       /\ Goto(c, "claim", "undo")
       /\ Record(c, ErrorOf(handle[c]))
       /\ UNCHANGED <<busVars, want, try, sess>>
    \/ /\ ~try[c].detached
       /\ GiveUp(c, "claim", ErrorOf(handle[c]))
       /\ UNCHANGED driver

\* The claim failed after the detach: hand the interface back to usblp.
Undo(c) ==
    /\ Goto(c, "undo", "scan")
    /\ AttachDriver(c)
    /\ CloseHandle(c)
    /\ UNCHANGED <<plugged, owner, list, want, try, result, sess>>

Walk(c) ==
    \/ ScanOpen(c) \/ ScanEnd(c) \/ ReadSerial(c) \/ DriverActive(c)
    \/ Detach(c) \/ Claim(c) \/ Undo(c)

-----------------------------------------------------------------------------
(* close_session_handle(session, restore_kernel_driver), called with a     *)
(* handle; without one it returns at once.                                 *)

\* Mutant: the closed handle stays in the session record.
ForgetNothing(c) ==
    /\ CloseHandle(c)
    /\ sess' = [sess EXCEPT ![c].detached = FALSE]

ForgetHandle(c) ==
    /\ CloseHandle(c)
    /\ sess' = [sess EXCEPT ![c].held = FALSE, ![c].detached = FALSE]

\* Mutant: attach usblp whether or not this session detached it.
ReleaseAttach(c, restore) ==
    /\ ReleaseInterface(c)
    /\ IF restore
       THEN Goto(c, "release", "attach") /\ UNCHANGED <<handle, sess>>
       ELSE Goto(c, "release", "closed") /\ ForgetHandle(c)
    /\ UNCHANGED <<plugged, driver, list, want, try, result>>

Release(c, restore) ==
    /\ ReleaseInterface(c)
    /\ IF restore /\ sess[c].detached
       THEN Goto(c, "release", "attach") /\ UNCHANGED <<handle, sess>>
       ELSE Goto(c, "release", "closed") /\ ForgetHandle(c)
    /\ UNCHANGED <<plugged, driver, list, want, try, result>>

AttachBack(c) ==
    /\ Goto(c, "attach", "closed")
    /\ AttachDriver(c)
    /\ ForgetHandle(c)
    /\ UNCHANGED <<plugged, owner, list, want, try, result>>
=============================================================================
