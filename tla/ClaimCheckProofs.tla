-------------------------- MODULE ClaimCheckProofs --------------------------
(***************************************************************************)
(* The safety properties of ClaimCheck, for any number of claim checks at  *)
(* once and any printers.                                                  *)
(*                                                                         *)
(* CheckInv is about each check by itself: what it has open and claimed at *)
(* each libusb call, and which printers of its list are still to come.     *)
(* RestoreInv is about the checks together: who has taken usblp from a     *)
(* printer and has not yet handed it back.                                 *)
(***************************************************************************)
EXTENDS ClaimCheck, TLAPS

USE BusAssumption

\* Inside check_one, with a handle open.
Busy == {"active", "detach", "claim", "release", "attach"}

\* A check has a handle open inside check_one only, and a claim only between
\* libusb_claim_interface and libusb_release_interface.
Working(c) ==
    /\ kpc[c] \in {"idle", "scan"} => handle[c] = NoRef
    /\ kpc[c] \in Busy => Printer(c) \in Printers
    /\ \A p \in Printers : owner[p] = c =>
          kpc[c] = "release" /\ Printer(c) = p /\ Live(c)

\* As long as nothing has failed, a verified printer of the device list has
\* been claimed, is still in the list or is the one being checked.
Covers(c) ==
    /\ \A p \in found[c] : Checkable(p)
    /\ failed[c] = 0 =>
          \A p \in found[c] :
             \/ p \in claimed[c]
             \/ kpc[c] # "idle" /\ \E r \in list[c] : r.dev = p
             \/ kpc[c] \in {"active", "detach", "claim"} /\ Printer(c) = p

Types == BusTypeOK /\ CheckTypeOK

CheckInv == Types /\ \A c \in Clients : Working(c) /\ Covers(c)

-----------------------------------------------------------------------------
(* One step of one check. *)

\* What a step of c leaves of the other checks.
OthersSame(c) ==
    \A d \in Clients \ {c} :
        /\ kpc'[d] = kpc[d] /\ detached'[d] = detached[d]
        /\ failed'[d] = failed[d] /\ found'[d] = found[d]
        /\ claimed'[d] = claimed[d] /\ handle'[d] = handle[d]
        /\ list'[d] = list[d]
        /\ \A p \in Printers : owner'[p] = d <=> owner[p] = d

StepOk(c) == Types' /\ OthersSame(c) /\ Working(c)' /\ Covers(c)'

\* The other checks keep what they know through a step of this one.
LEMMA OthersKept ==
  ASSUME NEW c \in Clients, NEW d \in Clients \ {c}, CheckInv, OthersSame(c)
  PROVE  Working(d)' /\ Covers(d)'
  BY DEF CheckInv, OthersSame, Working, Covers, Printer, Live

\* "return 1" of check_one, wherever it stands.
LEMMA FailsOk ==
  ASSUME NEW c \in Clients, CheckInv, NEW from \in {"scan"} \cup Busy,
         from # "release", CheckFails(c, from),
         UNCHANGED <<plugged, driver, owner, found, claimed, original, lost>>,
         detached' \in [Clients -> BOOLEAN],
         list' \in [Clients -> SUBSET Device],
         \A d \in Clients \ {c} : detached'[d] = detached[d]
                                  /\ list'[d] = list[d]
  PROVE  StepOk(c)
  <1>1. /\ kpc[c] = from /\ kpc' = [kpc EXCEPT ![c] = "scan"]
        /\ failed' = [failed EXCEPT ![c] = 1]
        /\ handle' = [handle EXCEPT ![c] = NoRef]
        /\ Types /\ Working(c) /\ Covers(c)
    BY DEF CheckFails, At, CloseHandle, CheckInv
  <1>2. Types'
    BY <1>1 DEF Types, BusTypeOK, CheckTypeOK
  <1>3. OthersSame(c)
    BY <1>1 DEF OthersSame, Types, BusTypeOK, CheckTypeOK
  <1>4. Working(c)'
    BY <1>1 DEF Working, Types, BusTypeOK, CheckTypeOK, Busy
  <1>5. Covers(c)'
    BY <1>1 DEF Covers, Types, CheckTypeOK
  <1> QED BY <1>2, <1>3, <1>4, <1>5 DEF StepOk

\* The list is made from the bus, and nothing is claimed yet.
LEMMA StartOk ==
  ASSUME NEW c \in Clients, CheckInv, CheckStart(c) PROVE StepOk(c)
  <1>1. /\ claimed' = [claimed EXCEPT ![c] = {}]
        /\ UNCHANGED <<plugged, driver, owner, handle, detached, original,
                       lost>>
        /\ kpc[c] = "idle"
        /\ Types /\ Working(c) /\ Covers(c)
    BY DEF CheckStart, At, CheckInv
  <1>2. CASE /\ At(c, "idle", "scan")
             /\ list' = [list EXCEPT ![c] = {[dev |-> p, live |-> TRUE] :
                                             p \in Listed}]
             /\ found' = [found EXCEPT ![c] = Verified]
             /\ failed' = [failed EXCEPT ![c] = 0]
    <2>1. /\ Listed \subseteq Printers /\ Verified \subseteq Listed
          /\ \A p \in Verified : Checkable(p)
      BY <1>1 DEF Listed, Verified, Types, BusTypeOK
    <2>2. {[dev |-> p, live |-> TRUE] : p \in Listed} \in SUBSET Device
      <3>1. \A p \in Listed : [dev |-> p, live |-> TRUE] \in Device
        BY <2>1 DEF Device
      <3> QED BY <3>1
    <2>3. kpc' = [kpc EXCEPT ![c] = "scan"]
      BY <1>2 DEF At
    <2>4. Types' /\ OthersSame(c)
      <3>1. /\ list' \in [Clients -> SUBSET Device]
            /\ found' \in [Clients -> SUBSET Printers]
        BY <1>1, <1>2, <2>1, <2>2 DEF Types, BusTypeOK, CheckTypeOK
      <3>2. /\ kpc' \in [Clients -> {"idle", "scan", "active", "detach",
                                     "claim", "release", "attach"}]
            /\ failed' \in [Clients -> {0, 1}]
            /\ claimed' \in [Clients -> SUBSET Printers]
        BY <1>1, <1>2, <2>3 DEF Types, CheckTypeOK
      <3>3. OthersSame(c)
        BY <1>1, <1>2, <2>3 DEF OthersSame, Types, BusTypeOK, CheckTypeOK
      <3> QED BY <1>1, <3>1, <3>2, <3>3 DEF Types, BusTypeOK, CheckTypeOK
    <2>5. Working(c)'
      BY <1>1, <2>3 DEF Working, Types, CheckTypeOK, Busy
    <2>6. /\ kpc'[c] = "scan" /\ found'[c] = Verified
          /\ list'[c] = {[dev |-> p, live |-> TRUE] : p \in Listed}
      BY <1>1, <1>2, <2>3 DEF Types, BusTypeOK, CheckTypeOK
    <2>7. ASSUME NEW p \in Verified PROVE \E r \in list'[c] : r.dev = p
      <3>1. [dev |-> p, live |-> TRUE] \in list'[c]
        BY <2>1, <2>6
      <3> QED BY <3>1
    <2>8. Covers(c)'
      BY <2>1, <2>6, <2>7 DEF Covers
    <2> QED BY <2>4, <2>5, <2>8 DEF StepOk
  <1>3. CASE /\ At(c, "idle", "idle")
             /\ failed' = [failed EXCEPT ![c] = 1]
             /\ UNCHANGED <<list, found>>
    <2>1. kpc' = kpc
      BY <1>1, <1>3 DEF At, Types, CheckTypeOK
    <2>2. Types' /\ OthersSame(c)
      BY <1>1, <1>3, <2>1 DEF OthersSame, Types, BusTypeOK, CheckTypeOK
    <2>3. Working(c)' /\ Covers(c)'
      BY <1>1, <1>3, <2>1 DEF Working, Covers, Types, CheckTypeOK, Printer,
         Live
    <2> QED BY <2>2, <2>3 DEF StepOk
  <1> QED BY <1>2, <1>3 DEF CheckStart

\* A reference of the list is opened, or skipped.
LEMMA OpenOk ==
  ASSUME NEW c \in Clients, CheckInv, CheckOpen(c) PROVE StepOk(c)
  <1>1. PICK r \in list[c] :
          /\ list' = [list EXCEPT ![c] = @ \ {r}]
          /\ \/ /\ ~Checkable(r.dev)
                /\ At(c, "scan", "scan")
                /\ UNCHANGED <<failed, handle, detached>>
             \/ /\ At(c, "scan", "active")
                /\ handle' = [handle EXCEPT ![c] = r]
                /\ detached' = [detached EXCEPT ![c] = FALSE]
                /\ UNCHANGED failed
             \/ /\ CheckFails(c, "scan")
                /\ UNCHANGED detached
    BY DEF CheckOpen, Passed
  <1>2. /\ UNCHANGED <<plugged, driver, owner, found, claimed, original, lost>>
        /\ kpc[c] = "scan"
        /\ Types /\ Working(c) /\ Covers(c)
    BY DEF CheckOpen, At, CheckFails, CheckInv
  <1>3. /\ r \in Device /\ r.dev \in Printers
        /\ list' \in [Clients -> SUBSET Device]
        /\ list'[c] = list[c] \ {r}
        /\ \A d \in Clients \ {c} : list'[d] = list[d]
    BY <1>1, <1>2 DEF Types, BusTypeOK, Device
  <1>4. CASE /\ ~Checkable(r.dev)
             /\ At(c, "scan", "scan")
             /\ UNCHANGED <<failed, handle, detached>>
    <2>1. kpc' = kpc
      BY <1>2, <1>4 DEF At, Types, CheckTypeOK
    <2>2. Types' /\ OthersSame(c)
      BY <1>2, <1>3, <1>4, <2>1 DEF OthersSame, Types, BusTypeOK, CheckTypeOK
    <2>3. Working(c)'
      BY <1>2, <1>4, <2>1 DEF Working, Printer, Live
    <2>4. Covers(c)'
      BY <1>2, <1>3, <1>4, <2>1 DEF Covers, Printer
    <2> QED BY <2>2, <2>3, <2>4 DEF StepOk
  <1>5. CASE /\ At(c, "scan", "active")
             /\ handle' = [handle EXCEPT ![c] = r]
             /\ detached' = [detached EXCEPT ![c] = FALSE]
             /\ UNCHANGED failed
    <2>1. /\ kpc' = [kpc EXCEPT ![c] = "active"]
          /\ kpc'[c] = "active" /\ handle'[c] = r
      BY <1>2, <1>5 DEF At, Types, BusTypeOK, CheckTypeOK
    <2>2. Types' /\ OthersSame(c)
      BY <1>2, <1>3, <1>5, <2>1 DEF OthersSame, Types, BusTypeOK, CheckTypeOK
    <2>3. Working(c)'
      BY <1>2, <1>3, <2>1 DEF Working, Printer
    <2>4. Covers(c)'
      BY <1>2, <1>3, <1>5, <2>1 DEF Covers, Printer
    <2> QED BY <2>2, <2>3, <2>4 DEF StepOk
  <1>6. CASE CheckFails(c, "scan") /\ UNCHANGED detached
    <2>1. detached' \in [Clients -> BOOLEAN]
      BY <1>2, <1>6 DEF Types, CheckTypeOK
    <2> QED BY <1>2, <1>3, <1>6, <2>1, FailsOk
  <1> QED BY <1>1, <1>4, <1>5, <1>6

\* The list is done, and the exit code says what became of it.
LEMMA EndOk ==
  ASSUME NEW c \in Clients, CheckInv, CheckEnd(c) PROVE StepOk(c)
  <1>1. /\ list[c] = {} /\ kpc[c] = "scan"
        /\ kpc' = [kpc EXCEPT ![c] = "idle"]
        /\ UNCHANGED <<busVars, detached, failed, found, claimed, original,
                       lost>>
        /\ Types /\ Working(c) /\ Covers(c)
    BY DEF CheckEnd, At, CheckInv
  <1>2. Types' /\ OthersSame(c)
    BY <1>1 DEF busVars, OthersSame, Types, BusTypeOK, CheckTypeOK
  <1>3. Working(c)' /\ Covers(c)'
    BY <1>1 DEF busVars, Working, Covers, Types, CheckTypeOK, Printer, Live,
       Busy
  <1> QED BY <1>2, <1>3 DEF StepOk

\* check_one asks for the driver, and remembers what it found.
LEMMA DriverOk ==
  ASSUME NEW c \in Clients, CheckInv, CheckDriver(c) PROVE StepOk(c)
  <1>1. /\ UNCHANGED <<plugged, driver, owner, list, detached, found, claimed,
                       lost>>
        /\ kpc[c] = "active"
        /\ Types /\ Working(c) /\ Covers(c)
    BY DEF CheckDriver, At, CheckFails, CheckInv
  <1>2. CASE CheckFails(c, "active") /\ UNCHANGED original
    <2>1. detached' \in [Clients -> BOOLEAN]
          /\ list' \in [Clients -> SUBSET Device]
      BY <1>1 DEF Types, BusTypeOK, CheckTypeOK
    <2> QED BY <1>1, <1>2, <2>1, FailsOk DEF Busy
  <1>3. ASSUME NEW to \in {"detach", "claim"}, At(c, "active", to),
               original' = [original EXCEPT ![Printer(c)] =
                              IF @ = "unseen" THEN driver[Printer(c)] ELSE @],
               UNCHANGED <<handle, failed>>
        PROVE  StepOk(c)
    <2>1. /\ kpc' = [kpc EXCEPT ![c] = to] /\ kpc'[c] = to
          /\ Printer(c) \in Printers
      BY <1>1, <1>3 DEF At, Types, CheckTypeOK, Working, Busy
    <2>2. original' \in [Printers -> Drivers \cup {"unseen"}]
      BY <1>1, <1>3, <2>1 DEF Types, BusTypeOK, CheckTypeOK
    <2>3. Types' /\ OthersSame(c)
      BY <1>1, <1>3, <2>1, <2>2 DEF OthersSame, Types, BusTypeOK, CheckTypeOK
    <2>4. Working(c)' /\ Covers(c)'
      BY <1>1, <1>3, <2>1 DEF Working, Covers, Printer, Live, Busy
    <2> QED BY <2>3, <2>4 DEF StepOk
  <1> QED BY <1>2, <1>3 DEF CheckDriver

\* It detaches usblp, or fails.
LEMMA DetachOk ==
  ASSUME NEW c \in Clients, CheckInv, CheckDetach(c) PROVE StepOk(c)
  <1>1. /\ UNCHANGED <<plugged, owner, list, found, claimed, original, lost>>
        /\ kpc[c] = "detach"
        /\ Types /\ Working(c) /\ Covers(c)
    BY DEF CheckDetach, At, CheckFails, CheckInv
  <1>2. CASE CheckFails(c, "detach") /\ UNCHANGED <<driver, detached>>
    <2>1. detached' \in [Clients -> BOOLEAN]
          /\ list' \in [Clients -> SUBSET Device]
      BY <1>1, <1>2 DEF Types, BusTypeOK, CheckTypeOK
    <2> QED BY <1>1, <1>2, <2>1, FailsOk DEF Busy
  <1>3. CASE /\ At(c, "detach", "claim")
             /\ DetachDriver(c)
             /\ detached' = [detached EXCEPT ![c] = TRUE]
             /\ UNCHANGED <<handle, failed>>
    <2>1. /\ kpc' = [kpc EXCEPT ![c] = "claim"] /\ kpc'[c] = "claim"
          /\ driver' \in [Printers -> Drivers]
      BY <1>1, <1>3 DEF At, DetachDriver, Types, BusTypeOK, CheckTypeOK,
         Drivers
    <2>2. Types' /\ OthersSame(c)
      BY <1>1, <1>3, <2>1 DEF OthersSame, Types, BusTypeOK, CheckTypeOK
    <2>3. Working(c)' /\ Covers(c)'
      BY <1>1, <1>3, <2>1 DEF Working, Covers, Printer, Live, Busy
    <2> QED BY <2>2, <2>3 DEF StepOk
  <1> QED BY <1>2, <1>3 DEF CheckDetach

\* It claims the interface, or attaches usblp again, or fails.
LEMMA ClaimOk ==
  ASSUME NEW c \in Clients, CheckInv, CheckClaim(c) PROVE StepOk(c)
  <1>1. /\ UNCHANGED <<plugged, driver, list, detached, found, original, lost>>
        /\ kpc[c] = "claim" /\ Printer(c) \in Printers
        /\ \A p \in Printers : owner[p] # c
        /\ Types /\ Working(c) /\ Covers(c)
    BY DEF CheckClaim, At, CheckFails, CheckInv, Working, Busy
  <1>2. CASE CheckFails(c, "claim") /\ UNCHANGED <<owner, claimed>>
    <2>1. detached' \in [Clients -> BOOLEAN]
          /\ list' \in [Clients -> SUBSET Device]
      BY <1>1 DEF Types, BusTypeOK, CheckTypeOK
    <2> QED BY <1>1, <1>2, <2>1, FailsOk DEF Busy
  <1>3. CASE /\ At(c, "claim", "attach")
             /\ failed' = [failed EXCEPT ![c] = 1]
             /\ UNCHANGED <<owner, handle, claimed>>
    <2>1. kpc' = [kpc EXCEPT ![c] = "attach"] /\ kpc'[c] = "attach"
      BY <1>1, <1>3 DEF At, Types, CheckTypeOK
    <2>2. Types' /\ OthersSame(c)
      BY <1>1, <1>3, <2>1 DEF OthersSame, Types, BusTypeOK, CheckTypeOK
    <2>3. failed'[c] # 0
      BY <1>1, <1>3 DEF Types, CheckTypeOK
    <2>4. Working(c)' /\ Covers(c)'
      BY <1>1, <1>3, <2>1, <2>3 DEF Working, Covers, Printer, Live, Busy
    <2> QED BY <2>2, <2>4 DEF StepOk
  <1>4. CASE /\ At(c, "claim", "release")
             /\ ClaimInterface(c)
             /\ claimed' = [claimed EXCEPT ![c] = @ \cup {Printer(c)}]
             /\ UNCHANGED <<handle, failed>>
    <2>1. /\ kpc' = [kpc EXCEPT ![c] = "release"] /\ kpc'[c] = "release"
          /\ claimed'[c] = claimed[c] \cup {Printer(c)}
          /\ claimed' \in [Clients -> SUBSET Printers]
          /\ Live(c) /\ owner[Printer(c)] = NoClient
          /\ owner' = [owner EXCEPT ![Printer(c)] = c]
      BY <1>1, <1>4 DEF At, ClaimInterface, Types, CheckTypeOK
    <2>2. /\ owner' \in [Printers -> Clients \cup {NoClient}]
          /\ \A p \in Printers :
                /\ owner'[p] = c <=> p = Printer(c)
                /\ \A d \in Clients \ {c} : owner'[p] = d <=> owner[p] = d
      BY <1>1, <2>1 DEF Types, BusTypeOK
    <2>3. Types' /\ OthersSame(c)
      BY <1>1, <1>4, <2>1, <2>2 DEF OthersSame, Types, BusTypeOK, CheckTypeOK
    <2>4. Working(c)' /\ Covers(c)'
      BY <1>1, <1>4, <2>1, <2>2 DEF Working, Covers, Printer, Live, Busy
    <2> QED BY <2>3, <2>4 DEF StepOk
  <1> QED BY <1>2, <1>3, <1>4 DEF CheckClaim

\* Only its own claim is released, and libusb_close comes behind the last
\* call that needs the handle.
LEMMA ReleaseOk ==
  ASSUME NEW c \in Clients, CheckInv, CheckRelease(c) PROVE StepOk(c)
  <1>1. /\ ReleaseInterface(c)
        /\ UNCHANGED <<plugged, driver, list, detached, found, claimed,
                       original, lost, failed>>
        /\ kpc[c] = "release" /\ Printer(c) \in Printers
        /\ Types /\ Working(c) /\ Covers(c)
    BY DEF CheckRelease, At, Passed, CheckInv, Working, Busy
  <1>2. /\ owner' \in [Printers -> Clients \cup {NoClient}]
        /\ \A p \in Printers :
              /\ owner'[p] # c
              /\ \A d \in Clients \ {c} : owner'[p] = d <=> owner[p] = d
    BY <1>1 DEF ReleaseInterface, Types, BusTypeOK, Working
  <1>3. CASE At(c, "release", "attach") /\ UNCHANGED handle
    <2>1. kpc' = [kpc EXCEPT ![c] = "attach"] /\ kpc'[c] = "attach"
      BY <1>1, <1>3 DEF At, Types, CheckTypeOK
    <2>2. Types' /\ OthersSame(c)
      BY <1>1, <1>2, <1>3, <2>1 DEF OthersSame, Types, BusTypeOK, CheckTypeOK
    <2>3. Working(c)' /\ Covers(c)'
      BY <1>1, <1>2, <1>3, <2>1 DEF Working, Covers, Printer, Live, Busy
    <2> QED BY <2>2, <2>3 DEF StepOk
  <1>4. CASE At(c, "release", "scan") /\ CloseHandle(c)
    <2>1. /\ kpc' = [kpc EXCEPT ![c] = "scan"] /\ kpc'[c] = "scan"
          /\ handle' = [handle EXCEPT ![c] = NoRef] /\ handle'[c] = NoRef
      BY <1>1, <1>4 DEF At, CloseHandle, Types, BusTypeOK, CheckTypeOK
    <2>2. Types' /\ OthersSame(c)
      BY <1>1, <1>2, <2>1 DEF OthersSame, Types, BusTypeOK, CheckTypeOK
    <2>3. Working(c)' /\ Covers(c)'
      BY <1>1, <1>2, <2>1 DEF Working, Covers, Printer, Live, Busy
    <2> QED BY <2>2, <2>3 DEF StepOk
  <1> QED BY <1>3, <1>4 DEF CheckRelease

\* It attaches usblp again, or says that it could not.
LEMMA AttachOk ==
  ASSUME NEW c \in Clients, CheckInv, CheckAttach(c) PROVE StepOk(c)
  <1>1. /\ AttachDriver(c)
        /\ UNCHANGED <<plugged, owner, list, detached, found, claimed,
                       original, failed>>
        /\ kpc[c] = "attach" /\ Printer(c) \in Printers
        /\ lost' \subseteq Printers
        /\ Types /\ Working(c) /\ Covers(c)
    BY DEF CheckAttach, At, Passed, CheckInv, Working, Busy, Types,
       CheckTypeOK
  <1>2. /\ kpc' = [kpc EXCEPT ![c] = "scan"] /\ kpc'[c] = "scan"
        /\ handle' = [handle EXCEPT ![c] = NoRef] /\ handle'[c] = NoRef
        /\ driver' \in [Printers -> Drivers]
    BY <1>1 DEF CheckAttach, At, CloseHandle, AttachDriver, Types, BusTypeOK,
       CheckTypeOK, Drivers
  <1>3. Types' /\ OthersSame(c)
    BY <1>1, <1>2 DEF OthersSame, Types, BusTypeOK, CheckTypeOK
  <1>4. Working(c)' /\ Covers(c)'
    BY <1>1, <1>2 DEF Working, Covers, Printer, Live, Busy
  <1> QED BY <1>3, <1>4 DEF StepOk

\* So every call of a check is one of these.
LEMMA CheckStepOk ==
  ASSUME NEW c \in Clients, CheckInv, CheckStart(c) \/ Check(c)
  PROVE  StepOk(c)
  BY StartOk, OpenOk, EndOk, DriverOk, DetachOk, ClaimOk, ReleaseOk, AttachOk
     DEF Check

-----------------------------------------------------------------------------
(* Printers come and go. *)

\* What an unplug does to the references.
LEMMA BusMoves ==
  ASSUME NEW p \in Printers, BusTypeOK, Unplug(p) PROVE
         /\ BusTypeOK'
         /\ \A c \in Clients :
               /\ handle'[c].dev = handle[c].dev
               /\ handle[c] = NoRef => handle'[c] = NoRef
               /\ handle'[c].live <=> handle[c].live /\ handle[c].dev # p
               /\ \A r \in list[c] : \E s \in list'[c] : s.dev = r.dev
               /\ \A s \in list'[c] : s.live => s \in list[c] /\ s.dev # p
  <1>1. \A r \in Device :
          /\ Stale(r, p) \in Device /\ Stale(r, p).dev = r.dev
          /\ Stale(r, p).live <=> r.live /\ r.dev # p
          /\ Stale(r, p).live => Stale(r, p) = r
    BY DEF Stale, Device
  <1>2. Stale(NoRef, p) = NoRef /\ NoRef.live = FALSE
    BY BusAssumption DEF Stale, NoRef
  <1>3. \A c \in Clients : /\ list'[c] = {Stale(r, p) : r \in list[c]}
                           /\ list[c] \subseteq Device
    BY DEF Unplug, BusTypeOK
  <1>4. list' \in [Clients -> SUBSET Device]
    <2>1. \A c \in Clients : {Stale(r, p) : r \in list[c]} \in SUBSET Device
      BY <1>1, <1>3
    <2> QED BY <2>1 DEF Unplug
  <1>5. handle' \in [Clients -> Device \cup {NoRef}]
    BY <1>1, <1>2 DEF Unplug, BusTypeOK
  <1>6. BusTypeOK'
    BY <1>4, <1>5 DEF Unplug, BusTypeOK, Drivers
  <1>7. \A c \in Clients : /\ handle'[c] = Stale(handle[c], p)
                           /\ handle[c] \in Device \/ handle[c] = NoRef
    BY DEF Unplug, BusTypeOK
  <1>8. ASSUME NEW c \in Clients, NEW r \in list[c]
        PROVE  \E s \in list'[c] : s.dev = r.dev
    <2>1. Stale(r, p) \in list'[c] /\ Stale(r, p).dev = r.dev
      BY <1>1, <1>3, <1>8
    <2> QED BY <2>1
  <1>9. ASSUME NEW c \in Clients, NEW s \in list'[c], s.live
        PROVE  s \in list[c] /\ s.dev # p
    <2>1. PICK r \in list[c] : s = Stale(r, p)
      BY <1>3, <1>9
    <2> QED BY <1>1, <1>3, <1>9, <2>1
  <1> QED BY <1>1, <1>2, <1>6, <1>7, <1>8, <1>9

\* A printer that leaves takes its claim and its handles with it.
LEMMA LeavesOk ==
  ASSUME NEW p \in Printers, CheckInv, Leaves(p) PROVE CheckInv'
  <1>1. /\ Types /\ Unplug(p) /\ owner' = [owner EXCEPT ![p] = NoClient]
        /\ original' = [original EXCEPT ![p] = "unseen"]
        /\ lost' = lost \ {p}
        /\ UNCHANGED <<kpc, detached, failed, found, claimed>>
    BY DEF CheckInv, Leaves, CheckUnplugged, Unplug
  <1>2. Types'
    BY <1>1, BusMoves DEF Types, CheckTypeOK
  <1>3. ASSUME NEW c \in Clients PROVE Working(c)' /\ Covers(c)'
    <2>1. /\ handle'[c].dev = handle[c].dev
          /\ handle[c] = NoRef => handle'[c] = NoRef
          /\ handle'[c].live <=> handle[c].live /\ handle[c].dev # p
          /\ \A r \in list[c] : \E s \in list'[c] : s.dev = r.dev
          /\ Working(c) /\ Covers(c)
      BY <1>1, BusMoves DEF Types, CheckInv
    <2>2. Working(c)'
      BY <1>1, <2>1 DEF Working, Printer, Live, Types, BusTypeOK
    <2>3. Covers(c)'
      BY <1>1, <2>1 DEF Covers, Printer
    <2> QED BY <2>2, <2>3
  <1> QED BY <1>2, <1>3 DEF CheckInv

\* A plug, and a step of none, leave the checks alone.
LEMMA Unbothered ==
  ASSUME CheckInv, UNCHANGED <<owner, handle, list, checkVars>>,
         plugged' \subseteq Printers, driver' \in [Printers -> Drivers]
  PROVE  CheckInv'
  <1>1. Types'
    BY DEF CheckInv, Types, BusTypeOK, CheckTypeOK, checkVars
  <1>2. ASSUME NEW c \in Clients PROVE Working(c)' /\ Covers(c)'
    BY DEF CheckInv, Working, Covers, checkVars, Printer, Live
  <1> QED BY <1>1, <1>2 DEF CheckInv

-----------------------------------------------------------------------------
(* Each check by itself. *)

\* At the start no check runs.
LEMMA InitInv == Init => CheckInv
  BY BusAssumption DEF Init, BusInit, CheckInit, CheckInv, Types, BusTypeOK,
     CheckTypeOK, Working, Covers, Busy, Drivers, Device, NoRef

\* The invariant is inductive.
LEMMA NextInv == CheckInv /\ [Next]_vars => CheckInv'
  <1> SUFFICES ASSUME CheckInv, [Next]_vars PROVE CheckInv'
    OBVIOUS
  <1>1. ASSUME NEW c \in Clients, CheckStart(c) \/ Check(c) PROVE CheckInv'
    BY <1>1, CheckStepOk, OthersKept DEF StepOk, CheckInv
  <1>2. CASE UNCHANGED vars
    <2>1. /\ UNCHANGED <<owner, handle, list, checkVars>>
          /\ plugged' \subseteq Printers /\ driver' \in [Printers -> Drivers]
      BY <1>2 DEF vars, busVars, CheckInv, Types, BusTypeOK
    <2> QED BY <2>1, Unbothered
  <1>3. ASSUME NEW p \in Printers, Arrives(p) PROVE CheckInv'
    <2>1. /\ UNCHANGED <<owner, handle, list, checkVars>>
          /\ plugged' \subseteq Printers /\ driver' \in [Printers -> Drivers]
      BY <1>3 DEF Arrives, Plug, CheckInv, Types, BusTypeOK, Drivers
    <2> QED BY <2>1, Unbothered
  <1> QED BY <1>1, <1>2, <1>3, LeavesOk DEF Next

\* Any number of claim checks, whatever unplugs and failing libusb calls come
\* between their steps: what each has open, claimed and still to do agrees
\* with the libusb call it makes next.
THEOREM CheckInvariant == Spec => []CheckInv
  BY InitInv, NextInv, PTL DEF Spec

\* Every variable keeps its type; the exit code is 0 or 1, never a libusb
\* error (lines 101-146).
THEOREM CheckTypesCorrect == Spec => []CheckTypeOK
  <1>1. CheckInv => CheckTypeOK
    BY DEF CheckInv, Types
  <1> QED BY <1>1, CheckInvariant, PTL

\* A finished check has nothing open and nothing claimed whichever call failed,
\* and its exit code 0 stands for a claim of every verified printer that was on
\* its device list (lines 29-96 and 134-146).
THEOREM FinishedMeansChecked == Spec => []FinishedCheck
  <1>1. CheckInv => FinishedCheck
    BY DEF CheckInv, Working, Covers, FinishedCheck
  <1> QED BY <1>1, CheckInvariant, PTL

-----------------------------------------------------------------------------
(* The checks together: what was taken from usblp is given back to it.     *)

Taking == {"claim", "release", "attach"}

\* A check takes a printer from usblp when it has seen usblp bound to it.
Owes(c) ==
    /\ kpc[c] \in {"active", "detach"} => ~detached[c]
    /\ kpc[c] = "attach" => detached[c]
    /\ Live(c) /\ kpc[c] \in Taking \cup {"detach"} =>
          original[Printer(c)] # "unseen"
    /\ Live(c) /\ kpc[c] \in Taking /\ detached[c] =>
          original[Printer(c)] = "usblp"

\* Someone will give p back to usblp, or say that it could not.
Takes(c, p) == detached[c] /\ Live(c) /\ Printer(c) = p /\ kpc[c] \in Taking

\* What is listed or open as alive, and what was seen, is on the bus.
Seen ==
    /\ \A p \in Printers : original[p] # "unseen" => p \in plugged
    /\ \A c \in Clients :
          /\ Live(c) => Printer(c) \in plugged
          /\ \A r \in list[c] : r.live => r.dev \in plugged

LeavesUnbound == \A p \in Printers : original[p] = "none" => driver[p] = "none"

GivesBack ==
    \A p \in Printers : original[p] = "usblp" =>
        driver[p] = "usblp" \/ p \in lost \/ \E c \in Clients : Takes(c, p)

RestoreInv ==
    /\ Seen /\ LeavesUnbound /\ GivesBack
    /\ \A c \in Clients : Owes(c)

\* What a step of c does to the histories and the drivers.
Remembers(c) ==
    /\ \A p \in Printers :
          \/ original'[p] = original[p]
          \/ original[p] = "unseen" /\ original'[p] = driver[p]
    /\ \A p \in Printers :
          \/ driver'[p] = driver[p]
          \/ original[p] = "usblp"
    /\ \A p \in Printers :
          driver[p] = "usblp" /\ driver'[p] # "usblp" => Takes(c, p)'
    /\ \A p \in Printers :
          Takes(c, p) => driver'[p] = "usblp" \/ p \in lost' \/ Takes(c, p)'
    /\ lost \subseteq lost'

\* What a step of c lists and opens.
SeesWhatIs(c) ==
    /\ plugged' = plugged
    /\ \A p \in Printers : original'[p] # "unseen" => p \in plugged
    /\ Live(c)' => Printer(c)' \in plugged
    /\ \A r \in list'[c] : r.live => r.dev \in plugged

RestoresOk(c) == Owes(c)' /\ Remembers(c) /\ SeesWhatIs(c)

\* The steps of one check: by the libusb call it makes.
LEMMA CallsKeep ==
  ASSUME NEW c \in Clients, CheckInv, RestoreInv,
         CheckStart(c) \/ CheckOpen(c) \/ CheckEnd(c)
  PROVE  RestoresOk(c)
  <1>1. /\ Types /\ Working(c) /\ Seen /\ Owes(c)
        /\ kpc[c] \in {"idle", "scan"} /\ handle[c] = NoRef
        /\ UNCHANGED <<plugged, driver, original, lost>>
    BY DEF CheckInv, RestoreInv, CheckStart, CheckOpen, CheckEnd, At, Working,
       CheckFails, busVars
  <1>2. Remembers(c)
    BY <1>1 DEF Remembers, Takes, Taking
  <1>3. \A r \in list'[c] : r.live => r.dev \in plugged
    BY <1>1 DEF CheckStart, CheckOpen, CheckEnd, busVars, Listed, Seen, Types,
       BusTypeOK
  <1>4. \/ kpc'[c] \in {"idle", "scan"} /\ handle'[c] = NoRef
        \/ kpc'[c] = "active" /\ ~detached'[c] /\ handle'[c] \in list[c]
    BY <1>1 DEF CheckStart, CheckOpen, CheckEnd, CheckFails, CloseHandle, At,
       busVars, Types, BusTypeOK, CheckTypeOK
  <1>5. Owes(c)'
    BY <1>4 DEF Owes, Live, NoRef, Taking
  <1>6. Live(c)' => Printer(c)' \in plugged
    BY <1>1, <1>4 DEF Live, Printer, NoRef, Seen
  <1> QED BY <1>1, <1>2, <1>3, <1>5, <1>6 DEF RestoresOk, SeesWhatIs, Seen

\* What is remembered is what was bound, unless another check has it off.
LEMMA DriverKeeps ==
  ASSUME NEW c \in Clients, CheckInv, RestoreInv, CheckDriver(c)
  PROVE  RestoresOk(c)
  <1>1. /\ UNCHANGED <<plugged, driver, list, detached, lost>>
        /\ kpc[c] = "active" /\ Printer(c) \in Printers
        /\ Types /\ Owes(c) /\ Seen
    BY DEF CheckDriver, At, CheckFails, CheckInv, RestoreInv, Working, Busy
  <1>2. CASE CheckFails(c, "active") /\ UNCHANGED original
    <2>1. kpc'[c] = "scan" /\ handle'[c] = NoRef
      BY <1>1, <1>2 DEF CheckFails, CloseHandle, At, Types, BusTypeOK,
         CheckTypeOK
    <2>2. Owes(c)' /\ Remembers(c)
      BY <1>1, <1>2, <2>1 DEF Owes, Remembers, Takes, Taking, Live, NoRef
    <2> QED BY <1>1, <1>2, <2>1, <2>2 DEF RestoresOk, SeesWhatIs, Seen, Live,
            NoRef
  <1>3. CASE /\ Live(c)
             /\ At(c, "active",
                   IF driver[Printer(c)] = "usblp" THEN "detach" ELSE "claim")
             /\ original' = [original EXCEPT ![Printer(c)] =
                            IF @ = "unseen" THEN driver[Printer(c)] ELSE @]
             /\ UNCHANGED <<handle, failed>>
    <2>1. /\ kpc'[c] \in {"detach", "claim"} /\ ~detached'[c]
          /\ original'[Printer(c)] # "unseen"
      BY <1>1, <1>3 DEF At, Types, BusTypeOK, CheckTypeOK, Owes, Drivers
    <2>2. \A p \in Printers :
             \/ original'[p] = original[p]
             \/ original[p] = "unseen" /\ original'[p] = driver[p]
                   /\ p = Printer(c)
      BY <1>1, <1>3 DEF Types, CheckTypeOK
    <2>3. Owes(c)'
      BY <1>1, <1>3, <2>1 DEF Owes, Printer, Live, Taking
    <2>4. Remembers(c)
      BY <1>1, <2>2 DEF Remembers, Takes, Taking
    <2>5. SeesWhatIs(c)
      BY <1>1, <1>3, <2>2 DEF SeesWhatIs, Seen, Live, Printer
    <2> QED BY <2>3, <2>4, <2>5 DEF RestoresOk
  <1> QED BY <1>2, <1>3 DEF CheckDriver

\* The detach is owed an attach.
LEMMA DetachKeeps ==
  ASSUME NEW c \in Clients, CheckInv, RestoreInv, CheckDetach(c)
  PROVE  RestoresOk(c)
  <1>1. /\ UNCHANGED <<plugged, list, original, lost>>
        /\ kpc[c] = "detach" /\ Printer(c) \in Printers
        /\ Types /\ Owes(c) /\ Seen /\ LeavesUnbound
    BY DEF CheckDetach, At, CheckFails, CheckInv, RestoreInv, Working, Busy
  <1>2. CASE CheckFails(c, "detach") /\ UNCHANGED <<driver, detached>>
    <2>1. kpc'[c] = "scan" /\ handle'[c] = NoRef
      BY <1>1, <1>2 DEF CheckFails, CloseHandle, At, Types, BusTypeOK,
         CheckTypeOK
    <2>2. Owes(c)' /\ Remembers(c)
      BY <1>1, <1>2, <2>1 DEF Owes, Remembers, Takes, Taking, Live, NoRef
    <2> QED BY <1>1, <1>2, <2>1, <2>2 DEF RestoresOk, SeesWhatIs, Seen, Live,
            NoRef
  <1>3. CASE /\ At(c, "detach", "claim")
             /\ DetachDriver(c)
             /\ detached' = [detached EXCEPT ![c] = TRUE]
             /\ UNCHANGED <<handle, failed>>
    <2>1. /\ kpc'[c] = "claim" /\ detached'[c]
          /\ Live(c) /\ driver[Printer(c)] = "usblp"
          /\ driver' = [driver EXCEPT ![Printer(c)] = "none"]
      BY <1>1, <1>3 DEF At, DetachDriver, Types, CheckTypeOK
    <2>2. original[Printer(c)] = "usblp"
      BY <1>1, <2>1 DEF Owes, LeavesUnbound, Types, CheckTypeOK, Drivers
    <2>3. Owes(c)'
      BY <1>1, <1>3, <2>1, <2>2 DEF Owes, Printer, Live, Taking
    <2>4. Takes(c, Printer(c))' /\ Printer(c)' = Printer(c)
      BY <1>3, <2>1 DEF Takes, Printer, Live, Taking
    <2>5. Remembers(c)
      BY <1>1, <1>3, <2>1, <2>2, <2>4 DEF Remembers, Takes, Types, BusTypeOK,
         Taking
    <2>6. SeesWhatIs(c)
      BY <1>1, <1>3 DEF SeesWhatIs, Seen, Live, Printer
    <2> QED BY <2>3, <2>5, <2>6 DEF RestoresOk
  <1> QED BY <1>2, <1>3 DEF CheckDetach

\* Claim and release leave the drivers to who detached them.
LEMMA ClaimKeeps ==
  ASSUME NEW c \in Clients, CheckInv, RestoreInv,
         CheckClaim(c) \/ CheckRelease(c)
  PROVE  RestoresOk(c)
  <1>1. /\ UNCHANGED <<plugged, driver, list, detached, original, lost>>
        /\ kpc[c] \in {"claim", "release"}
        /\ Types /\ Owes(c) /\ Seen
    BY DEF CheckClaim, CheckRelease, At, CheckFails, CheckInv, RestoreInv
  <1>2. \/ kpc'[c] = "release" /\ handle' = handle
        \/ kpc'[c] = "attach" /\ detached[c] /\ handle' = handle
        \/ kpc'[c] = "scan" /\ ~detached[c] /\ handle'[c] = NoRef
    BY <1>1 DEF CheckClaim, CheckRelease, At, CheckFails, CloseHandle, Types,
       BusTypeOK, CheckTypeOK
  <1>3. Owes(c)'
    BY <1>1, <1>2 DEF Owes, Printer, Live, Taking, NoRef
  <1>4. Remembers(c)
    BY <1>1, <1>2 DEF Remembers, Takes, Taking, Live, Printer, NoRef
  <1>5. SeesWhatIs(c)
    BY <1>1, <1>2 DEF SeesWhatIs, Seen, Live, Printer, NoRef
  <1> QED BY <1>3, <1>4, <1>5 DEF RestoresOk

\* The attach pays what is owed, or it is said to be lost.
LEMMA AttachKeeps ==
  ASSUME NEW c \in Clients, CheckInv, RestoreInv, CheckAttach(c)
  PROVE  RestoresOk(c)
  <1>1. /\ UNCHANGED <<plugged, list, detached, original>>
        /\ kpc[c] = "attach" /\ Printer(c) \in Printers /\ AttachDriver(c)
        /\ lost' = IF driver' = driver THEN lost \cup {Printer(c)} ELSE lost
        /\ Types /\ Owes(c) /\ Seen
    BY DEF CheckAttach, At, CheckInv, RestoreInv, Working, Busy
  <1>2. kpc'[c] = "scan" /\ handle'[c] = NoRef
    BY <1>1 DEF CheckAttach, CloseHandle, At, Types, BusTypeOK, CheckTypeOK
  <1>3. Owes(c)' /\ SeesWhatIs(c)
    BY <1>1, <1>2 DEF Owes, SeesWhatIs, Seen, Live, NoRef, Taking
  <1>4. Live(c) => original[Printer(c)] = "usblp"
    BY <1>1 DEF Owes, Taking
  <1>5. \A p \in Printers : \/ driver'[p] = driver[p]
                            \/ original[p] = "usblp" /\ driver'[p] = "usblp"
    BY <1>1, <1>4 DEF AttachDriver, Types, BusTypeOK
  <1>6. \A p \in Printers :
          Takes(c, p) => driver'[p] = "usblp" \/ p \in lost'
    BY <1>1 DEF Takes, AttachDriver, Types, BusTypeOK
  <1>7. Remembers(c)
    BY <1>1, <1>5, <1>6 DEF Remembers
  <1> QED BY <1>3, <1>7 DEF RestoresOk

\* Every call of a check keeps the account of the drivers.
LEMMA CheckRestores ==
  ASSUME NEW c \in Clients, CheckInv, RestoreInv, CheckStart(c) \/ Check(c)
  PROVE  RestoreInv'
  <1>1. Owes(c)' /\ Remembers(c) /\ SeesWhatIs(c)
    BY CallsKeep, DriverKeeps, DetachKeeps, ClaimKeeps, AttachKeeps
       DEF Check, RestoresOk
  <1>2. OthersSame(c) /\ Types
    BY CheckStepOk DEF StepOk, CheckInv
  <1>3. \A p \in Printers :
           original[p] # "unseen" => original'[p] = original[p]
    BY <1>1 DEF Remembers
  <1>4. ASSUME NEW d \in Clients \ {c} PROVE Owes(d)'
    <2>1. Owes(d) /\ (Live(d) => Printer(d) \in Printers)
      <3>1. handle[d] \in Device \/ handle[d] = NoRef
        BY <1>2 DEF Types, BusTypeOK
      <3> QED BY <3>1 DEF RestoreInv, Live, Printer, Device, NoRef
    <2> QED BY <1>2, <1>3, <2>1 DEF OthersSame, Owes, Live, Printer
  <1>5. Seen'
    BY <1>1, <1>2 DEF SeesWhatIs, OthersSame, RestoreInv, Seen, Live, Printer
  <1>6. LeavesUnbound'
    BY <1>1 DEF Remembers, RestoreInv, LeavesUnbound
  <1>7. GivesBack'
    <2> SUFFICES ASSUME NEW p \in Printers, original'[p] = "usblp"
                 PROVE  \/ driver'[p] = "usblp" \/ p \in lost'
                        \/ \E d \in Clients : Takes(d, p)'
      BY DEF GivesBack
    <2>1. \/ driver[p] = "usblp"
          \/ p \in lost
          \/ \E d \in Clients : Takes(d, p)
      BY <1>1 DEF Remembers, RestoreInv, GivesBack
    <2>2. ASSUME NEW d \in Clients \ {c}, Takes(d, p) PROVE Takes(d, p)'
      BY <1>2, <2>2 DEF Takes, OthersSame, Live, Printer
    <2> QED BY <1>1, <2>1, <2>2 DEF Remembers
  <1> QED BY <1>1, <1>4, <1>5, <1>6, <1>7 DEF RestoreInv

\* A printer that leaves is owed nothing.
LEMMA LeavesRestores ==
  ASSUME NEW p \in Printers, CheckInv, RestoreInv, Leaves(p)
  PROVE  RestoreInv'
  <1>1. /\ Types /\ Seen /\ LeavesUnbound /\ GivesBack
        /\ Unplug(p) /\ original' = [original EXCEPT ![p] = "unseen"]
        /\ plugged' = plugged \ {p} /\ driver' = [driver EXCEPT ![p] = "none"]
        /\ lost' = lost \ {p} /\ UNCHANGED <<kpc, detached>>
    BY DEF CheckInv, RestoreInv, Leaves, CheckUnplugged, Unplug
  <1>2. \A c \in Clients :
          /\ Printer(c)' = Printer(c)
          /\ Live(c)' <=> Live(c) /\ Printer(c) # p
          /\ \A r \in list'[c] : r.live => r \in list[c] /\ r.dev # p
          /\ Live(c) => Printer(c) \in Printers
    <2>1. \A c \in Clients : handle[c] \in Device \/ handle[c] = NoRef
      BY <1>1 DEF Types, BusTypeOK
    <2> QED BY <1>1, <2>1, BusMoves
            DEF Types, Live, Printer, Device, NoRef
  <1>3. /\ \A q \in Printers \ {p} :
              original'[q] = original[q] /\ driver'[q] = driver[q]
        /\ original'[p] = "unseen"
    BY <1>1 DEF Types, BusTypeOK, CheckTypeOK
  <1>4. LeavesUnbound' /\ Seen'
    BY <1>1, <1>2, <1>3 DEF LeavesUnbound, Seen
  <1>5. GivesBack'
    BY <1>1, <1>2, <1>3 DEF GivesBack, Takes
  <1>6. ASSUME NEW c \in Clients PROVE Owes(c)'
    BY <1>1, <1>2, <1>3 DEF RestoreInv, Owes
  <1> QED BY <1>4, <1>5, <1>6 DEF RestoreInv

\* A printer that arrives has not been seen, whatever the kernel binds to it.
LEMMA ArrivesRestores ==
  ASSUME NEW p \in Printers, CheckInv, RestoreInv, Arrives(p)
  PROVE  RestoreInv'
  <1>1. /\ original[p] = "unseen"
        /\ \A q \in Printers \ {p} : driver'[q] = driver[q]
        /\ UNCHANGED <<owner, handle, list, checkVars>>
        /\ plugged' = plugged \cup {p}
    BY DEF Arrives, Plug, RestoreInv, Seen, CheckInv, Types, BusTypeOK
  <1>2. Seen' /\ LeavesUnbound'
    BY <1>1 DEF RestoreInv, LeavesUnbound, Seen, checkVars, Live, Printer
  <1>3. GivesBack'
    <2>1. \A q \in Printers, c \in Clients : Takes(c, q) => Takes(c, q)'
      BY <1>1 DEF Takes, checkVars, Live, Printer
    <2> QED BY <1>1, <2>1 DEF RestoreInv, GivesBack, checkVars
  <1>4. ASSUME NEW c \in Clients PROVE Owes(c)'
    BY <1>1 DEF RestoreInv, Owes, checkVars, Live, Printer
  <1> QED BY <1>2, <1>3, <1>4 DEF RestoreInv

\* At the start nothing is owed.
LEMMA InitRestores == Init => RestoreInv
  BY BusAssumption DEF Init, BusInit, CheckInit, RestoreInv, LeavesUnbound,
     GivesBack, Seen, Owes, Taking, Live, NoRef

\* The account is inductive, given CheckInv.
LEMMA NextRestores ==
  CheckInv /\ RestoreInv /\ [Next]_vars => RestoreInv'
  <1> SUFFICES ASSUME CheckInv, RestoreInv, [Next]_vars PROVE RestoreInv'
    OBVIOUS
  <1>1. CASE UNCHANGED vars
    BY <1>1 DEF vars, busVars, checkVars, RestoreInv, LeavesUnbound,
       GivesBack, Takes, Seen, Owes, Live, Printer
  <1> QED BY <1>1, CheckRestores, LeavesRestores, ArrivesRestores DEF Next

\* However many checks run at once and take the driver from under each other:
\* none binds usblp to a printer that had no driver, and with no check running
\* every printer that had usblp has it again, unless a check has said that it
\* could not restore it (lines 77-92).
THEOREM DriversAsFound == Spec => []LeavesAsFound
  <1>1. Init => CheckInv /\ RestoreInv
    BY InitInv, InitRestores
  <1>2. CheckInv /\ RestoreInv /\ [Next]_vars => (CheckInv /\ RestoreInv)'
    BY NextInv, NextRestores
  <1>3. CheckInv /\ RestoreInv => LeavesAsFound
    BY DEF CheckInv, Types, BusTypeOK, RestoreInv, LeavesUnbound, GivesBack,
       Takes, Taking, Quiet, LeavesAsFound
  <1> QED BY <1>1, <1>2, <1>3, PTL DEF Spec
=============================================================================
