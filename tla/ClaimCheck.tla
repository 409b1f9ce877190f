----------------------------- MODULE ClaimCheck -----------------------------
(***************************************************************************)
(* hp-legacy-print --claim-check (src/usb_claim.c): for each supported     *)
(* printer on the bus take the interface from usblp, claim it, release it  *)
(* and hand it back.  A diagnostic that sends no data; it is run beside    *)
(* whatever else uses the printers.                                        *)
(*                                                                         *)
(* One step is one libusb call, as in ClaimDevice.  libusb_close goes with *)
(* the call before it.                                                     *)
(***************************************************************************)
EXTENDS UsbBus

VARIABLES
    kpc,       \* the libusb call each check makes next
    detached,  \* check_one's local
    failed,    \* hplp_usb_claim_check_supported's local, and its exit code
    found,     \* history: the verified printers in this run's device list
    claimed,   \* history: the printers that this run claimed
    original,  \* history: the driver a check found bound to each enumeration,
               \* "unseen" before
    lost       \* history: the enumerations with a line that says
               \* "restore-kernel-driver=fail"

checkVars == <<kpc, detached, failed, found, claimed, original, lost>>
vars      == <<busVars, checkVars>>

CheckTypeOK ==
    /\ kpc \in [Clients -> {"idle", "scan", "active", "detach", "claim",
                            "release", "attach"}]
    /\ detached \in [Clients -> BOOLEAN]
    /\ failed \in [Clients -> {0, 1}]
    /\ found \in [Clients -> SUBSET Printers]
    /\ claimed \in [Clients -> SUBSET Printers]
    /\ original \in [Printers -> Drivers \cup {"unseen"}]
    /\ lost \subseteq Printers

CheckInit ==
    /\ kpc = [c \in Clients |-> "idle"]
    /\ detached = [c \in Clients |-> FALSE]
    /\ failed = [c \in Clients |-> 0]
    /\ found = [c \in Clients |-> {}]
    /\ claimed = [c \in Clients |-> {}]
    /\ original = [p \in Printers |-> "unseen"]
    /\ lost = {}

At(c, from, to) ==
    /\ kpc[c] = from
    /\ kpc' = [kpc EXCEPT ![c] = to]

\* check_one insists on the interface only; it does not use the endpoints.
Checkable(p) == hplp_model_lookup(ProductOf[p]).printer_interface >= 0

Listed   == {p \in plugged : ProductOf[p] \in DOMAIN Models}
Verified == {p \in Listed : Checkable(p)}

-----------------------------------------------------------------------------
(* hplp_usb_claim_check_supported: the device list, which may fail. *)

CheckStart(c) ==
    /\ claimed' = [claimed EXCEPT ![c] = {}]
    /\ UNCHANGED <<plugged, driver, owner, handle, detached, original, lost>>
    /\ \/ /\ At(c, "idle", "scan")
          /\ list' = [list EXCEPT ![c] = {[dev |-> p, live |-> TRUE] :
                                          p \in Listed}]
          /\ found' = [found EXCEPT ![c] = Verified]
          /\ failed' = [failed EXCEPT ![c] = 0]
       \/ /\ At(c, "idle", "idle")
          /\ failed' = [failed EXCEPT ![c] = 1]
          /\ UNCHANGED <<list, found>>

CheckEnd(c) ==
    /\ list[c] = {}
    /\ At(c, "scan", "idle")
    /\ UNCHANGED <<busVars, detached, failed, found, claimed, original, lost>>

\* Mutant: what the next printer returns replaces the failure of this one.
PassedOnLast(c) == failed' = [failed EXCEPT ![c] = 0]

Passed(c) == UNCHANGED failed

\* Mutant: "return 1" without libusb_close.
CheckFailsOpen(c, from) ==
    /\ At(c, from, "scan")
    /\ failed' = [failed EXCEPT ![c] = 1]
    /\ UNCHANGED handle

\* "return 1" of check_one, with the handle closed.
CheckFails(c, from) ==
    /\ At(c, from, "scan")
    /\ CloseHandle(c)
    /\ failed' = [failed EXCEPT ![c] = 1]

-----------------------------------------------------------------------------
(* check_one. *)

CheckOpen(c) ==
    /\ \E r \in list[c] :
          /\ list' = [list EXCEPT ![c] = @ \ {r}]
          /\ \/ /\ ~Checkable(r.dev)      \* SKIP
                /\ At(c, "scan", "scan")
                /\ Passed(c)
                /\ UNCHANGED <<handle, detached>>
             \/ /\ Checkable(r.dev)
                /\ r.live
                /\ At(c, "scan", "active")
                /\ handle' = [handle EXCEPT ![c] = r]
                /\ detached' = [detached EXCEPT ![c] = FALSE]
                /\ UNCHANGED failed
             \/ /\ Checkable(r.dev)       \* OPEN FAIL
                /\ CheckFails(c, "scan")
                /\ UNCHANGED detached
    /\ UNCHANGED <<plugged, driver, owner, found, claimed, original, lost>>

CheckDriver(c) ==
    /\ \/ /\ Live(c)
          /\ At(c, "active",
                IF driver[Printer(c)] = "usblp" THEN "detach" ELSE "claim")
          /\ original' = [original EXCEPT ![Printer(c)] =
                            IF @ = "unseen" THEN driver[Printer(c)] ELSE @]
          /\ UNCHANGED <<handle, failed>>
       \/ CheckFails(c, "active") /\ UNCHANGED original
    /\ UNCHANGED <<plugged, driver, owner, list, detached, found, claimed,
                   lost>>

CheckDetach(c) ==
    /\ \/ /\ At(c, "detach", "claim")
          /\ DetachDriver(c)
          /\ detached' = [detached EXCEPT ![c] = TRUE]
          /\ UNCHANGED <<handle, failed>>
       \/ CheckFails(c, "detach") /\ UNCHANGED <<driver, detached>>
    /\ UNCHANGED <<plugged, owner, list, found, claimed, original, lost>>

\* Mutant: a failed claim returns like the failures before it.
CheckClaimReturns(c) ==
    /\ \/ /\ At(c, "claim", "release")
          /\ ClaimInterface(c)
          /\ claimed' = [claimed EXCEPT ![c] = @ \cup {Printer(c)}]
          /\ UNCHANGED <<handle, failed>>
       \/ CheckFails(c, "claim") /\ UNCHANGED <<owner, claimed>>
    /\ UNCHANGED <<plugged, driver, list, detached, found, original, lost>>

\* "goto cleanup": a failed claim skips the release and not the attach.
CheckClaim(c) ==
    /\ \/ /\ At(c, "claim", "release")
          /\ ClaimInterface(c)
          /\ claimed' = [claimed EXCEPT ![c] = @ \cup {Printer(c)}]
          /\ UNCHANGED <<handle, failed>>
       \/ /\ detached[c]
          /\ At(c, "claim", "attach")
          /\ failed' = [failed EXCEPT ![c] = 1]
          /\ UNCHANGED <<owner, handle, claimed>>
       \/ /\ ~detached[c]
          /\ CheckFails(c, "claim")
          /\ UNCHANGED <<owner, claimed>>
    /\ UNCHANGED <<plugged, driver, list, detached, found, original, lost>>

CheckRelease(c) ==
    /\ ReleaseInterface(c)
    /\ IF detached[c]
       THEN At(c, "release", "attach") /\ UNCHANGED <<handle, failed>>
       ELSE At(c, "release", "scan") /\ CloseHandle(c) /\ Passed(c)
    /\ UNCHANGED <<plugged, driver, list, detached, found, claimed,
                   original, lost>>

\* The result of the attach is printed; check_one returns that of the claim.
CheckAttach(c) ==
    /\ At(c, "attach", "scan")
    /\ AttachDriver(c)
    /\ lost' = IF driver' = driver THEN lost \cup {Printer(c)} ELSE lost
    /\ CloseHandle(c)
    /\ Passed(c)
    /\ UNCHANGED <<plugged, owner, list, detached, found, claimed, original>>

Check(c) ==
    \/ CheckEnd(c) \/ CheckOpen(c) \/ CheckDriver(c) \/ CheckDetach(c)
    \/ CheckClaim(c) \/ CheckRelease(c) \/ CheckAttach(c)

-----------------------------------------------------------------------------
CheckUnplugged(p) ==
    /\ original' = [original EXCEPT ![p] = "unseen"]
    /\ lost' = lost \ {p}
    /\ UNCHANGED <<kpc, detached, failed, found, claimed>>

Leaves(p)  == Unplug(p) /\ CheckUnplugged(p)
Arrives(p) == Plug(p) /\ UNCHANGED checkVars

Init == BusInit /\ CheckInit

Next ==
    \/ \E p \in Printers : Leaves(p) \/ Arrives(p)
    \/ \E c \in Clients : CheckStart(c) \/ Check(c)

\* libusb calls return; nothing makes a user run the check.
Spec == Init /\ [][Next]_vars /\ \A c \in Clients : WF_vars(Check(c))

-----------------------------------------------------------------------------
(* What the check promises. *)

Quiet == \A c \in Clients : kpc[c] = "idle"

\* The checks leave the drivers as they found them, also after a claim that
\* failed behind the detach, and when several checks run at once and take the
\* driver from under each other.  None binds usblp to a printer that had no
\* driver; one that was bound to usblp is bound to it again with no check
\* running, unless a check has said that it failed to restore it (77-92).
LeavesAsFound ==
    /\ \A p \in Printers : original[p] = "none" => driver[p] = "none"
    /\ Quiet => \A p \in plugged :
          original[p] = "usblp" => driver[p] = "usblp" \/ p \in lost

\* A finished check leaves no handle open and no interface claimed, whichever
\* call failed; and exit code 0 says that every verified printer of the device
\* list has been claimed in this run: none was skipped, refused or lost on the
\* way (29-96, 134-146).
FinishedCheck ==
    \A c \in Clients : kpc[c] = "idle" =>
        /\ handle[c] = NoRef
        /\ \A p \in Printers : owner[p] # c
        /\ failed[c] = 0 => found[c] \subseteq claimed[c]
=============================================================================
