------------------------ MODULE TransportWatchProofs ------------------------
(***************************************************************************)
(* The safety properties of TransportWatch, for any number of watches and  *)
(* printers.                                                               *)
(*                                                                         *)
(* The laps of the loop, the walk and the close hold together through the  *)
(* session record: WatchInv says which libusb call a watch can be at given *)
(* its place in the loop, when its record has a handle, and what it has    *)
(* printed by then.  A step of one watch shows StepOk: types, its own part *)
(* of the invariant, and that the other watches see nothing of it.         *)
(***************************************************************************)
EXTENDS TransportWatch, TLAPS

USE BusAssumption

\* Inside claim_device, with a handle open.
Opened == {"serial", "active", "detach", "claim", "undo"}

\* Which libusb call a watch can be at, given its place in the loop.
Control(c) ==
    /\ wpc[c] \in {"loop", "look", "stopped"} => cpc[c] = "idle"
    /\ wpc[c] = "open" => cpc[c] \in Opened \cup {"scan", "done"}
    /\ wpc[c] \in {"gone", "exit"} =>
          cpc[c] \in {"release", "attach", "closed"}

\* When the session record has a handle, and when the watch has one open.
Holding(c) ==
    /\ cpc[c] \in Opened \cup {"scan"} =>
          ~sess[c].held /\ result[c] # "SUCCESS"
    /\ cpc[c] = "done" => (sess[c].held <=> result[c] = "SUCCESS")
    /\ cpc[c] \in {"release", "attach"} => sess[c].held
    /\ cpc[c] = "closed" => ~sess[c].held
    /\ cpc[c] \in Opened => Printer(c) \in Printers
    /\ sess[c].held => Printer(c) \in Printers
    /\ cpc[c] \notin Opened /\ ~sess[c].held => handle[c] = NoRef

\* A claim belongs to a record that has the live handle it was made with.
Claimed(c) ==
    \A p \in Printers : owner[p] = c =>
        sess[c].held /\ cpc[c] # "attach" /\ Printer(c) = p /\ Live(c)

\* What was printed, at every place of the loop.
Reported(c) ==
    /\ wpc[c] = "loop" => (last_state[c] = 1 <=> sess[c].held)
    /\ wpc[c] = "look" => last_state[c] = 1 /\ sess[c].held
    /\ wpc[c] = "gone" => last_state[c] = 0
    /\ wpc[c] = "stopped" => ~sess[c].held

WatcherInv(c) == Control(c) /\ Holding(c) /\ Claimed(c) /\ Reported(c)

WatchInv == WatchTypeOK /\ \A c \in Clients : WatcherInv(c)

-----------------------------------------------------------------------------
(* Types.                                                                  *)

\* The result codes a step may give.
LEMMA CodesAre ==
  /\ "SUCCESS" \in Codes /\ "ERROR" \in Codes /\ "NO_DEVICE" \in Codes
  /\ \A r : ErrorOf(r) \in Codes /\ ErrorOf(r) # "SUCCESS"
  BY DEF Codes, ErrorOf

Types == BusTypeOK /\ ClaimTypeOK

\* The next libusb call is one of those that claim_device knows.
LEMMA GotoType ==
  ASSUME NEW c \in Clients, NEW from, NEW to \in ClaimPcs, ClaimTypeOK,
         Goto(c, from, to)
  PROVE  /\ cpc' \in [Clients -> ClaimPcs] /\ cpc[c] = from /\ cpc'[c] = to
         /\ \A d \in Clients \ {c} : cpc'[d] = cpc[d]
  BY DEF ClaimTypeOK, Goto

\* Closing a handle touches no other.
LEMMA CloseHandleType ==
  ASSUME NEW c \in Clients, BusTypeOK, CloseHandle(c)
  PROVE  /\ handle' \in [Clients -> Device \cup {NoRef}]
         /\ handle'[c] = NoRef
         /\ \A d \in Clients \ {c} : handle'[d] = handle[d]
  BY DEF BusTypeOK, CloseHandle

\* An error that is recorded does not become a success.
LEMMA RecordType ==
  ASSUME NEW c \in Clients, NEW code \in Codes, code # "SUCCESS",
         ClaimTypeOK, Record(c, code)
  PROVE  /\ result' \in [Clients -> Codes]
         /\ result[c] # "SUCCESS" => result'[c] # "SUCCESS"
         /\ \A d \in Clients \ {c} : result'[d] = result[d]
  BY DEF ClaimTypeOK, Record

\* What a step of c leaves of the other clients' walk and session.
WalksSame(c) ==
    /\ \A d \in Clients \ {c} :
          /\ cpc'[d] = cpc[d] /\ try'[d] = try[d] /\ result'[d] = result[d]
          /\ sess'[d] = sess[d] /\ handle'[d] = handle[d]
          /\ \A p \in Printers : owner'[p] = d <=> owner[p] = d

\* A walk has claimed nothing yet: what it is like before each of its steps.
Searching(c) ==
    /\ cpc[c] \in Opened \cup {"scan"} =>
          result[c] # "SUCCESS" /\ \A p \in Printers : owner[p] # c
    /\ cpc[c] \in Opened => Printer(c) \in Printers
    /\ cpc[c] = "scan" => handle[c] = NoRef

\* A step of a walk goes on with the list, ends with it, or claims a printer.
GoesOn(c) ==
    /\ cpc'[c] \in Opened \cup {"scan"} /\ result'[c] # "SUCCESS"
    /\ cpc'[c] \in Opened => handle'[c].dev \in Printers
    /\ cpc'[c] = "scan" => handle'[c] = NoRef
    /\ UNCHANGED <<owner, sess>>

Ends(c) ==
    /\ cpc[c] = "scan" /\ cpc'[c] = "done"
    /\ UNCHANGED <<handle, owner, result, sess>>

Claims(c) ==
    /\ cpc[c] = "claim" /\ cpc'[c] = "done" /\ result'[c] = "SUCCESS"
    /\ sess'[c].held /\ sess'[c].detached = try[c].detached
    /\ Live(c) /\ handle' = handle
    /\ \A p \in Printers : owner'[p] = c <=> p = Printer(c)

WalkOk(c) ==
    /\ Types' /\ WalksSame(c)
    /\ cpc[c] \in Opened \cup {"scan"}
    /\ GoesOn(c) \/ Ends(c) \/ Claims(c)

\* claim_device gives a printer up and goes on to the next.
LEMMA GiveUpOk ==
  ASSUME NEW c \in Clients, NEW from \in Opened, NEW code \in Codes,
         code # "SUCCESS", Types, Searching(c), GiveUp(c, from, code),
         driver' \in [Printers -> Drivers]
  PROVE  WalkOk(c)
  <1>1. /\ Goto(c, from, "scan") /\ CloseHandle(c) /\ Record(c, code)
        /\ UNCHANGED <<plugged, owner, list, want, try, sess>>
    BY DEF GiveUp
  <1>2. /\ cpc' \in [Clients -> ClaimPcs] /\ cpc[c] = from
        /\ cpc'[c] = "scan"
        /\ \A d \in Clients \ {c} : cpc'[d] = cpc[d]
    <2>1. "scan" \in ClaimPcs
      BY DEF ClaimPcs
    <2> QED BY <1>1, <2>1, GotoType DEF Types
  <1>3. /\ result' \in [Clients -> Codes] /\ result'[c] # "SUCCESS"
        /\ \A d \in Clients \ {c} : result'[d] = result[d]
    BY <1>1, <1>2, RecordType DEF Types, Searching
  <1>4. /\ handle' \in [Clients -> Device \cup {NoRef}]
        /\ handle'[c] = NoRef
        /\ \A d \in Clients \ {c} : handle'[d] = handle[d]
    BY <1>1, CloseHandleType DEF Types
  <1>5. Types'
    BY <1>1, <1>2, <1>3, <1>4 DEF Types, BusTypeOK, ClaimTypeOK
  <1>6. GoesOn(c)
    BY <1>1, <1>2, <1>3, <1>4 DEF GoesOn, Opened
  <1> QED BY <1>1, <1>2, <1>3, <1>4, <1>5, <1>6 DEF WalkOk, WalksSame

\* It opens the next of the list, or skips it.
LEMMA ScanOpenOk ==
  ASSUME NEW c \in Clients, Types, Searching(c), ScanOpen(c)
  PROVE  WalkOk(c)
  <1>1. PICK r \in list[c] :
          /\ list' = [list EXCEPT ![c] = @ \ {r}]
          /\ \/ /\ Goto(c, "scan", "serial")
                /\ handle' = [handle EXCEPT ![c] = r]
                /\ UNCHANGED result
             \/ /\ Goto(c, "scan", "scan")
                /\ Record(c, ErrorOf(r))
                /\ UNCHANGED handle
    BY DEF ScanOpen
  <1>2. UNCHANGED <<plugged, driver, owner, want, try, sess>>
    BY DEF ScanOpen
  <1>3. r \in Device /\ r.dev \in Printers
    BY <1>1 DEF Types, BusTypeOK, Device
  <1>4. list' \in [Clients -> SUBSET Device]
    BY <1>1 DEF Types, BusTypeOK
  <1>5. "serial" \in ClaimPcs /\ "scan" \in ClaimPcs
    BY DEF ClaimPcs
  <1>6. CASE /\ Goto(c, "scan", "serial")
             /\ handle' = [handle EXCEPT ![c] = r]
             /\ UNCHANGED result
    <2>1. /\ cpc' \in [Clients -> ClaimPcs] /\ cpc[c] = "scan"
          /\ cpc'[c] = "serial"
          /\ \A d \in Clients \ {c} : cpc'[d] = cpc[d]
      BY <1>5, <1>6, GotoType DEF Types
    <2>2. /\ handle' \in [Clients -> Device \cup {NoRef}]
          /\ handle'[c] = r
          /\ \A d \in Clients \ {c} : handle'[d] = handle[d]
      BY <1>3, <1>6 DEF Types, BusTypeOK
    <2>3. Types'
      BY <1>2, <1>4, <1>6, <2>1, <2>2 DEF Types, BusTypeOK, ClaimTypeOK
    <2>4. GoesOn(c)
      BY <1>2, <1>3, <1>6, <2>1, <2>2 DEF GoesOn, Opened, Searching
    <2> QED BY <1>2, <1>6, <2>1, <2>2, <2>3, <2>4 DEF WalkOk, WalksSame
  <1>7. CASE /\ Goto(c, "scan", "scan")
             /\ Record(c, ErrorOf(r))
             /\ UNCHANGED handle
    <2>1. /\ cpc' \in [Clients -> ClaimPcs] /\ cpc[c] = "scan"
          /\ cpc'[c] = "scan"
          /\ \A d \in Clients \ {c} : cpc'[d] = cpc[d]
      BY <1>5, <1>7, GotoType DEF Types
    <2>2. /\ result' \in [Clients -> Codes] /\ result'[c] # "SUCCESS"
          /\ \A d \in Clients \ {c} : result'[d] = result[d]
      BY <1>7, <2>1, CodesAre, RecordType DEF Types, Searching
    <2>3. Types'
      BY <1>2, <1>4, <1>7, <2>1, <2>2 DEF Types, BusTypeOK, ClaimTypeOK
    <2>4. GoesOn(c)
      BY <1>2, <1>7, <2>1, <2>2 DEF GoesOn, Opened, Searching
    <2> QED BY <1>2, <1>7, <2>1, <2>2, <2>3, <2>4 DEF WalkOk, WalksSame
  <1> QED BY <1>1, <1>6, <1>7

\* The list is done without a claim.
LEMMA ScanEndOk ==
  ASSUME NEW c \in Clients, Types, Searching(c), ScanEnd(c)
  PROVE  WalkOk(c)
  <1>1. /\ Goto(c, "scan", "done")
        /\ UNCHANGED <<busVars, want, try, result, sess>>
    BY DEF ScanEnd
  <1>2. /\ cpc' \in [Clients -> ClaimPcs] /\ cpc[c] = "scan"
        /\ cpc'[c] = "done"
        /\ \A d \in Clients \ {c} : cpc'[d] = cpc[d]
    <2>1. "done" \in ClaimPcs
      BY DEF ClaimPcs
    <2> QED BY <1>1, <2>1, GotoType DEF Types
  <1>3. Types'
    BY <1>1, <1>2 DEF Types, BusTypeOK, ClaimTypeOK, busVars
  <1>4. Ends(c)
    BY <1>1, <1>2 DEF Ends, busVars
  <1> QED BY <1>1, <1>2, <1>3, <1>4 DEF WalkOk, WalksSame, busVars

\* A step of the walk that keeps the handle open and claims nothing.
LEMMA KeepsOpen ==
  ASSUME NEW c \in Clients, NEW from \in Opened, NEW to \in Opened, Types,
         Searching(c), Goto(c, from, to), driver' \in [Printers -> Drivers],
         try' \in [Clients -> TryRec], result' \in [Clients -> Codes],
         \A d \in Clients \ {c} :
             try'[d] = try[d] /\ result'[d] = result[d],
         result'[c] # "SUCCESS",
         UNCHANGED <<plugged, owner, handle, list, want, sess>>
  PROVE  WalkOk(c)
  <1>1. /\ cpc' \in [Clients -> ClaimPcs] /\ cpc[c] = from /\ cpc'[c] = to
        /\ \A d \in Clients \ {c} : cpc'[d] = cpc[d]
    <2>1. to \in ClaimPcs
      BY DEF ClaimPcs, Opened
    <2> QED BY <2>1, GotoType DEF Types
  <1>2. Types'
    BY <1>1 DEF Types, BusTypeOK, ClaimTypeOK
  <1>3. GoesOn(c)
    BY <1>1 DEF GoesOn, Searching, Opened, Printer
  <1> QED BY <1>1, <1>2, <1>3 DEF WalkOk, WalksSame

\* It reads the serial number.
LEMMA ReadSerialOk ==
  ASSUME NEW c \in Clients, Types, Searching(c), ReadSerial(c)
  PROVE  WalkOk(c)
  <1>1. ASSUME NEW s \in Serials, SerialIs(c, s) PROVE WalkOk(c)
    <2>1. /\ Goto(c, "serial", "active")
          /\ try' = [try EXCEPT ![c] = [serial |-> s, detached |-> FALSE]]
          /\ UNCHANGED <<busVars, want, result, sess>>
      BY <1>1 DEF SerialIs
    <2>2. try' \in [Clients -> TryRec]
          /\ \A d \in Clients \ {c} : try'[d] = try[d]
      BY <2>1 DEF Types, ClaimTypeOK, TryRec
    <2>3. cpc[c] = "serial" /\ result[c] # "SUCCESS"
      BY <2>1 DEF Goto, Searching, Opened
    <2>4. /\ driver' \in [Printers -> Drivers]
          /\ result' \in [Clients -> Codes]
          /\ UNCHANGED <<plugged, owner, handle, list, want, result, sess>>
      BY <2>1 DEF busVars, Types, BusTypeOK, ClaimTypeOK
    <2> QED BY <2>1, <2>2, <2>3, <2>4, KeepsOpen DEF Opened
  <1>2. ASSUME NEW code \in Codes, code # "SUCCESS",
               GiveUp(c, "serial", code), UNCHANGED driver
        PROVE  WalkOk(c)
    <2>1. driver' \in [Printers -> Drivers]
      BY <1>2 DEF Types, BusTypeOK
    <2> QED BY <1>2, <2>1, GiveUpOk DEF Opened
  <1>3. NoPrinter \in Serials /\ \A p \in Serialised : p \in Serials
    BY DEF Serials
  <1> QED BY <1>1, <1>2, <1>3, CodesAre DEF ReadSerial

\* It asks for the driver.
LEMMA DriverActiveOk ==
  ASSUME NEW c \in Clients, Types, Searching(c), DriverActive(c)
  PROVE  WalkOk(c)
  <1>1. driver' \in [Printers -> Drivers]
    BY DEF DriverActive, busVars, Types, BusTypeOK
  <1>2. ASSUME NEW to \in {"detach", "claim"}, Goto(c, "active", to),
               UNCHANGED <<busVars, want, try, result, sess>>
        PROVE  WalkOk(c)
    <2>1. cpc[c] = "active" /\ result[c] # "SUCCESS"
      BY <1>2 DEF Goto, Searching, Opened
    <2>2. /\ try' \in [Clients -> TryRec] /\ result' \in [Clients -> Codes]
          /\ UNCHANGED <<plugged, owner, handle, list, want, sess, try,
                         result>>
      BY <1>2 DEF busVars, Types, ClaimTypeOK
    <2> QED BY <1>1, <1>2, <2>1, <2>2, KeepsOpen DEF Opened
  <1> QED BY <1>1, <1>2, CodesAre, GiveUpOk DEF DriverActive, Opened

\* It detaches usblp, or fails.
LEMMA DetachOk ==
  ASSUME NEW c \in Clients, Types, Searching(c), Detach(c)
  PROVE  WalkOk(c)
  <1>1. driver' \in [Printers -> Drivers]
    BY DEF Detach, DetachDriver, Types, BusTypeOK, Drivers
  <1>2. CASE /\ Goto(c, "detach", "claim")
             /\ try' = [try EXCEPT ![c].detached = TRUE]
             /\ UNCHANGED <<plugged, owner, handle, list, want, result, sess>>
    <2>1. cpc[c] = "detach" /\ result[c] # "SUCCESS"
      BY <1>2 DEF Goto, Searching, Opened
    <2>2. /\ try' \in [Clients -> TryRec] /\ result' \in [Clients -> Codes]
          /\ \A d \in Clients \ {c} : try'[d] = try[d]
      BY <1>2 DEF Types, ClaimTypeOK, TryRec
    <2> QED BY <1>1, <1>2, <2>1, <2>2, KeepsOpen DEF Opened
  <1> QED BY <1>1, <1>2, CodesAre, GiveUpOk DEF Detach, Opened

\* It attaches usblp again after a claim that failed.
LEMMA UndoOk ==
  ASSUME NEW c \in Clients, Types, Searching(c), Undo(c)
  PROVE  WalkOk(c)
  <1>1. /\ Goto(c, "undo", "scan") /\ AttachDriver(c) /\ CloseHandle(c)
        /\ UNCHANGED <<plugged, owner, list, want, try, result, sess>>
    BY DEF Undo
  <1>2. driver' \in [Printers -> Drivers]
    BY <1>1 DEF AttachDriver, Types, BusTypeOK, Drivers
  <1>3. /\ cpc' \in [Clients -> ClaimPcs] /\ cpc[c] = "undo"
        /\ cpc'[c] = "scan"
        /\ \A d \in Clients \ {c} : cpc'[d] = cpc[d]
    <2>1. "scan" \in ClaimPcs
      BY DEF ClaimPcs
    <2> QED BY <1>1, <2>1, GotoType DEF Types
  <1>4. /\ handle' \in [Clients -> Device \cup {NoRef}]
        /\ handle'[c] = NoRef
        /\ \A d \in Clients \ {c} : handle'[d] = handle[d]
    BY <1>1, CloseHandleType DEF Types
  <1>5. Types'
    BY <1>1, <1>2, <1>3, <1>4 DEF Types, BusTypeOK, ClaimTypeOK
  <1>6. GoesOn(c)
    BY <1>1, <1>3, <1>4 DEF GoesOn, Opened, Searching
  <1> QED BY <1>1, <1>3, <1>4, <1>5, <1>6 DEF WalkOk, WalksSame, Opened

\* It claims the interface, and the walk ends with the session.
LEMMA ClaimOk ==
  ASSUME NEW c \in Clients, Types, Searching(c), Claim(c)
  PROVE  WalkOk(c)
  <1>1. cpc[c] = "claim" /\ Printer(c) \in Printers /\ result[c] # "SUCCESS"
    BY DEF Claim, Goto, GiveUp, Searching, Opened
  <1>2. CASE GiveUp(c, "claim", ErrorOf(handle[c])) /\ UNCHANGED driver
    <2>1. driver' \in [Printers -> Drivers]
      BY <1>2 DEF Types, BusTypeOK
    <2> QED BY <1>2, <2>1, CodesAre, GiveUpOk DEF Opened
  <1>3. CASE /\ Goto(c, "claim", "undo")
             /\ Record(c, ErrorOf(handle[c]))
             /\ UNCHANGED <<busVars, want, try, sess>>
    <2>1. /\ result' \in [Clients -> Codes] /\ result'[c] # "SUCCESS"
          /\ \A d \in Clients \ {c} : result'[d] = result[d]
      BY <1>1, <1>3, CodesAre, RecordType DEF Types
    <2>2. /\ driver' \in [Printers -> Drivers] /\ try' \in [Clients -> TryRec]
          /\ UNCHANGED <<plugged, owner, handle, list, want, sess, try>>
      BY <1>3 DEF busVars, Types, BusTypeOK, ClaimTypeOK
    <2> QED BY <1>3, <2>1, <2>2, KeepsOpen DEF Opened
  <1>4. CASE Goto(c, "claim", "done") /\ ClaimInterface(c) /\ FillSession(c)
    <2>1. /\ sess' = [sess EXCEPT ![c] =
                        [held |-> TRUE, detached |-> try[c].detached,
                         serial |-> try[c].serial, accepted |-> 0,
                         last_error |-> "SUCCESS"]]
          /\ result' = [result EXCEPT ![c] = "SUCCESS"]
          /\ list' = [list EXCEPT ![c] = {}]
          /\ UNCHANGED <<plugged, driver, handle, want, try>>
          /\ Live(c) /\ owner[Printer(c)] = NoClient
          /\ owner' = [owner EXCEPT ![Printer(c)] = c]
      BY <1>4 DEF FillSession, ClaimInterface
    <2>2. /\ cpc' \in [Clients -> ClaimPcs] /\ cpc'[c] = "done"
          /\ \A d \in Clients \ {c} : cpc'[d] = cpc[d]
      <3>1. "done" \in ClaimPcs
        BY DEF ClaimPcs
      <3> QED BY <1>4, <3>1, GotoType DEF Types
    <2>3. /\ sess' \in [Clients -> SessRec] /\ sess'[c].held
          /\ sess'[c].detached = try[c].detached
          /\ \A d \in Clients \ {c} : sess'[d] = sess[d]
      <3>1. [held |-> TRUE, detached |-> try[c].detached,
             serial |-> try[c].serial, accepted |-> 0,
             last_error |-> "SUCCESS"] \in SessRec
        BY CodesAre DEF Types, ClaimTypeOK, TryRec, SessRec
      <3> QED BY <2>1, <3>1 DEF Types, ClaimTypeOK
    <2>4. /\ result' \in [Clients -> Codes] /\ result'[c] = "SUCCESS"
          /\ \A d \in Clients \ {c} : result'[d] = result[d]
      BY <2>1, CodesAre DEF Types, ClaimTypeOK
    <2>5. /\ owner' \in [Printers -> Clients \cup {NoClient}]
          /\ \A p \in Printers :
                /\ owner'[p] = c <=> p = Printer(c)
                /\ \A d \in Clients \ {c} : owner'[p] = d <=> owner[p] = d
      <3>1. \A p \in Printers : owner[p] # c
        BY <1>1 DEF Searching, Opened
      <3> QED BY <1>1, <2>1, <3>1, BusAssumption DEF Types, BusTypeOK
    <2>6. Types'
      BY <2>1, <2>2, <2>3, <2>4, <2>5 DEF Types, BusTypeOK, ClaimTypeOK
    <2>7. Claims(c)
      BY <1>1, <2>1, <2>2, <2>3, <2>4, <2>5 DEF Claims
    <2> QED BY <1>1, <2>1, <2>2, <2>3, <2>4, <2>5, <2>6, <2>7
            DEF WalkOk, WalksSame, Opened
  <1> QED BY <1>2, <1>3, <1>4 DEF Claim

\* The loop over the device list of open_first_supported and of the session.
LEMMA WalkIsOk ==
  ASSUME NEW c \in Clients, Types, Searching(c), Walk(c)
  PROVE  WalkOk(c)
  BY ScanOpenOk, ScanEndOk, ReadSerialOk, DriverActiveOk, DetachOk, UndoOk,
     ClaimOk DEF Walk

-----------------------------------------------------------------------------
(* close_session_handle. *)

\* A session that is closed has no handle.
LEMMA ForgetTypes ==
  ASSUME NEW c \in Clients, Types, ForgetHandle(c)
  PROVE  /\ handle' \in [Clients -> Device \cup {NoRef}]
         /\ sess' \in [Clients -> SessRec]
         /\ handle'[c] = NoRef /\ ~sess'[c].held
         /\ \A d \in Clients \ {c} :
               sess'[d] = sess[d] /\ handle'[d] = handle[d]
  <1>1. /\ sess' = [sess EXCEPT ![c].held = FALSE, ![c].detached = FALSE]
        /\ sess \in [Clients -> SessRec] /\ CloseHandle(c)
    BY DEF Types, ClaimTypeOK, ForgetHandle
  <1>2. sess' \in [Clients -> SessRec] /\ ~sess'[c].held
    BY <1>1 DEF SessRec
  <1>3. \A d \in Clients \ {c} : sess'[d] = sess[d]
    BY <1>1
  <1> QED BY <1>1, <1>2, <1>3, CloseHandleType DEF Types

CloseOk(c) ==
    /\ Types' /\ WalksSame(c) /\ UNCHANGED <<try, result>>
    /\ \A p \in Printers : owner'[p] # c
    /\ \/ /\ cpc[c] = "release" /\ cpc'[c] = "attach"
          /\ sess[c].detached /\ UNCHANGED <<handle, sess>>
       \/ /\ cpc[c] \in {"release", "attach"} /\ cpc'[c] = "closed"
          /\ handle'[c] = NoRef /\ ~sess'[c].held

\* close_session_handle releases the interface.
LEMMA ReleaseOk ==
  ASSUME NEW c \in Clients, NEW restore, Types, Release(c, restore),
         \A p \in Printers : owner[p] = c => Printer(c) = p /\ Live(c)
  PROVE  CloseOk(c)
  <1>1. /\ ReleaseInterface(c)
        /\ UNCHANGED <<plugged, driver, list, want, try, result>>
        /\ \/ /\ Goto(c, "release", "attach")
              /\ sess[c].detached /\ UNCHANGED <<handle, sess>>
           \/ Goto(c, "release", "closed") /\ ForgetHandle(c)
    BY DEF Release
  <1>2. /\ owner' \in [Printers -> Clients \cup {NoClient}]
        /\ \A p \in Printers :
              /\ owner'[p] # c
              /\ \A d \in Clients \ {c} : owner'[p] = d <=> owner[p] = d
    BY <1>1, BusAssumption DEF Types, BusTypeOK, ReleaseInterface
  <1>3. "attach" \in ClaimPcs /\ "closed" \in ClaimPcs
    BY DEF ClaimPcs
  <1>4. CASE /\ Goto(c, "release", "attach")
             /\ sess[c].detached /\ UNCHANGED <<handle, sess>>
    <2>1. /\ cpc' \in [Clients -> ClaimPcs] /\ cpc[c] = "release"
          /\ cpc'[c] = "attach"
          /\ \A d \in Clients \ {c} : cpc'[d] = cpc[d]
      BY <1>3, <1>4, GotoType DEF Types
    <2>2. Types'
      BY <1>1, <1>2, <1>4, <2>1 DEF Types, BusTypeOK, ClaimTypeOK
    <2> QED BY <1>1, <1>2, <1>4, <2>1, <2>2 DEF CloseOk, WalksSame
  <1>5. CASE Goto(c, "release", "closed") /\ ForgetHandle(c)
    <2>1. /\ cpc' \in [Clients -> ClaimPcs] /\ cpc[c] = "release"
          /\ cpc'[c] = "closed"
          /\ \A d \in Clients \ {c} : cpc'[d] = cpc[d]
      BY <1>3, <1>5, GotoType DEF Types
    <2>2. Types'
      BY <1>1, <1>2, <1>5, <2>1, ForgetTypes DEF Types, BusTypeOK, ClaimTypeOK
    <2> QED BY <1>1, <1>2, <1>5, <2>1, <2>2, ForgetTypes DEF CloseOk, WalksSame
  <1> QED BY <1>1, <1>4, <1>5

\* And attaches usblp where it is to be restored.
LEMMA AttachBackOk ==
  ASSUME NEW c \in Clients, Types, AttachBack(c),
         \A p \in Printers : owner[p] # c
  PROVE  CloseOk(c)
  <1>1. /\ Goto(c, "attach", "closed") /\ AttachDriver(c) /\ ForgetHandle(c)
        /\ UNCHANGED <<plugged, owner, list, want, try, result>>
    BY DEF AttachBack
  <1>2. driver' \in [Printers -> Drivers]
    BY <1>1 DEF AttachDriver, Types, BusTypeOK, Drivers
  <1>3. /\ cpc' \in [Clients -> ClaimPcs] /\ cpc[c] = "attach"
        /\ cpc'[c] = "closed"
        /\ \A d \in Clients \ {c} : cpc'[d] = cpc[d]
    <2>1. "closed" \in ClaimPcs
      BY DEF ClaimPcs
    <2> QED BY <1>1, <2>1, GotoType DEF Types
  <1>4. Types'
    BY <1>1, <1>2, <1>3, ForgetTypes DEF Types, BusTypeOK, ClaimTypeOK
  <1> QED BY <1>1, <1>3, <1>4, ForgetTypes DEF CloseOk, WalksSame

-----------------------------------------------------------------------------
(* The steps of one watch: types, its own part of the invariant, and       *)
(* nothing of the other watches.                                           *)

LoopTypeOK ==
    /\ wpc \in [Clients -> {"loop", "open", "look", "gone", "exit", "stopped"}]
    /\ running \in [Clients -> BOOLEAN]
    /\ last_state \in [Clients -> {-1, 0, 1}]
    /\ was_live \in [Clients -> BOOLEAN]
    /\ original \in [Printers -> Drivers \cup {"unseen"}]

\* The types of the walk, and those of the loop.
LEMMA TypesAre == WatchTypeOK <=> Types /\ LoopTypeOK
  BY DEF WatchTypeOK, Types, LoopTypeOK

OthersSame(c) ==
    /\ WalksSame(c)
    /\ \A d \in Clients \ {c} :
          wpc'[d] = wpc[d] /\ last_state'[d] = last_state[d]

StepOk(c) == Types' /\ LoopTypeOK' /\ WatcherInv(c)' /\ OthersSame(c)

\* The other watches keep what they know through a step of this one.
LEMMA OthersKept ==
  ASSUME NEW c \in Clients, NEW d \in Clients \ {c}, WatchInv, OthersSame(c)
  PROVE  WatcherInv(d)'
  <1>1. Control(d) /\ Holding(d) /\ Claimed(d) /\ Reported(d)
    BY DEF WatchInv, WatcherInv
  <1>2. Control(d)' /\ Holding(d)' /\ Reported(d)'
    BY <1>1 DEF OthersSame, WalksSame, Control, Holding, Reported, Printer
  <1>3. Claimed(d)'
    BY <1>1 DEF OthersSame, WalksSame, Claimed, Printer, Live
  <1> QED BY <1>2, <1>3 DEF WatcherInv

\* What the invariant says of a walk and of a close before each step.
LEMMA WatchFacts ==
  ASSUME NEW c \in Clients, WatchInv
  PROVE  /\ Types /\ LoopTypeOK /\ Searching(c)
         /\ Control(c) /\ Holding(c) /\ Claimed(c) /\ Reported(c)
         /\ cpc[c] \in Opened \cup {"scan", "done"} => wpc[c] = "open"
         /\ cpc[c] \in {"release", "attach", "closed"} =>
               wpc[c] \in {"gone", "exit"}
  <1>1. /\ Types /\ LoopTypeOK
        /\ Control(c) /\ Holding(c) /\ Claimed(c) /\ Reported(c)
    BY TypesAre DEF WatchInv, WatcherInv
  <1>2. Searching(c)
    BY <1>1 DEF Searching, Holding, Claimed, Opened
  <1> QED BY <1>1, <1>2 DEF Control, LoopTypeOK, Opened

\* A step of the walk.
LEMMA WatchWalkStep ==
  ASSUME NEW c \in Clients, WatchInv, WatchWalk(c) PROVE StepOk(c)
  <1>1. WalkOk(c) /\ UNCHANGED <<wpc, running, last_state, was_live>>
    BY WatchFacts, WalkIsOk DEF WatchWalk
  <1>2. original' \in [Printers -> Drivers \cup {"unseen"}]
    BY WatchFacts DEF WatchWalk, Types, BusTypeOK, LoopTypeOK
  <1>3. LoopTypeOK' /\ OthersSame(c)
    BY <1>1, <1>2, WatchFacts DEF LoopTypeOK, WalkOk, OthersSame
  <1>4. wpc[c] = "open"
    BY <1>1, WatchFacts DEF WalkOk
  <1>5. ASSUME GoesOn(c) PROVE WatcherInv(c)'
    <2>1. Control(c)' /\ Reported(c)'
      BY <1>1, <1>4, <1>5, WatchFacts DEF GoesOn, Control, Reported, Opened
    <2>2. Holding(c)'
      BY <1>1, <1>4, <1>5, WatchFacts DEF GoesOn, WalkOk, Holding,
         Searching, Opened, Printer
    <2>3. Claimed(c)'
      BY <1>1, <1>4, <1>5, WatchFacts DEF GoesOn, WalkOk, Claimed, Searching,
         Opened, Printer, Live
    <2> QED BY <2>1, <2>2, <2>3 DEF WatcherInv
  <1>6. ASSUME Ends(c) PROVE WatcherInv(c)'
    <2>1. Control(c)' /\ Reported(c)'
      BY <1>1, <1>4, <1>6, WatchFacts DEF Ends, Control, Reported, Opened
    <2>2. Holding(c)'
      BY <1>1, <1>4, <1>6, WatchFacts DEF Ends, Holding, Searching,
         Opened, Printer
    <2>3. Claimed(c)'
      BY <1>1, <1>4, <1>6, WatchFacts DEF Ends, WalkOk, Claimed, Searching,
         Opened, Printer, Live
    <2> QED BY <2>1, <2>2, <2>3 DEF WatcherInv
  <1>7. ASSUME Claims(c) PROVE WatcherInv(c)'
    <2>1. Control(c)' /\ Reported(c)'
      BY <1>1, <1>4, <1>7, WatchFacts DEF Claims, Control, Reported, Opened
    <2>2. Holding(c)'
      BY <1>1, <1>4, <1>7, WatchFacts DEF Claims, Holding, Searching,
         Opened, Printer
    <2>3. Claimed(c)'
      BY <1>1, <1>4, <1>7, WatchFacts DEF Claims, WalkOk, Claimed, Searching,
         Opened, Printer, Live
    <2> QED BY <2>1, <2>2, <2>3 DEF WatcherInv
  <1> QED BY <1>1, <1>3, <1>5, <1>6, <1>7 DEF StepOk, WalkOk

\* A step of the close.
LEMMA CloseStepStep ==
  ASSUME NEW c \in Clients, WatchInv, CloseStep(c) PROVE StepOk(c)
  <1>1. UNCHANGED watchVars
    BY DEF CloseStep
  <1>2. CloseOk(c)
    <2>1. CASE Release(c, wpc[c] = "exit")
      BY <2>1, WatchFacts, ReleaseOk DEF Claimed
    <2>2. CASE AttachBack(c)
      <3>1. cpc[c] = "attach"
        BY <2>2 DEF AttachBack, Goto
      <3> QED BY <2>2, <3>1, WatchFacts, AttachBackOk DEF Claimed
    <2> QED BY <2>1, <2>2 DEF CloseStep
  <1>3. LoopTypeOK' /\ OthersSame(c)
    BY <1>1, <1>2, WatchFacts DEF watchVars, LoopTypeOK, CloseOk, OthersSame
  <1>4. WatcherInv(c)'
    BY <1>1, <1>2, WatchFacts DEF watchVars, CloseOk, WatcherInv, Control,
       Holding, Claimed, Reported, Opened, Printer
  <1> QED BY <1>2, <1>3, <1>4 DEF StepOk, CloseOk

\* The loop begins a walk (open_first_supported).
LEMMA OpenFirstStep ==
  ASSUME NEW c \in Clients, WatchInv, OpenFirst(c) PROVE StepOk(c)
  <1>1. /\ ~sess[c].held /\ Turn(c, "loop", "open")
        /\ StartWalk(c, "idle", NoPrinter, Supported)
        /\ UNCHANGED <<sess, running, last_state, was_live, original>>
    BY DEF OpenFirst
  <1>2. \A q \in plugged : [dev |-> q, live |-> TRUE] \in Device
    BY WatchFacts DEF Types, BusTypeOK, Device
  <1>3. {[dev |-> q, live |-> TRUE] : q \in plugged \cap Supported}
           \in SUBSET Device
    BY <1>2
  <1>4. /\ list' \in [Clients -> SUBSET Device]
        /\ UNCHANGED <<plugged, driver, owner, handle, try>>
    BY <1>1, <1>3, WatchFacts DEF StartWalk, Types, BusTypeOK
  <1>5. /\ want' \in [Clients -> Serials] /\ result' \in [Clients -> Codes]
        /\ result'[c] # "SUCCESS"
        /\ \A d \in Clients \ {c} : result'[d] = result[d]
    BY <1>1, CodesAre, WatchFacts DEF StartWalk, Types, ClaimTypeOK, Serials
  <1>6. /\ cpc' \in [Clients -> ClaimPcs] /\ cpc[c] = "idle"
        /\ cpc'[c] \in {"scan", "done"}
        /\ \A d \in Clients \ {c} : cpc'[d] = cpc[d]
    BY <1>1, WatchFacts DEF StartWalk, Goto, Types, ClaimTypeOK, ClaimPcs
  <1>7. /\ wpc' \in [Clients -> {"loop", "open", "look", "gone", "exit",
                                 "stopped"}]
        /\ wpc[c] = "loop" /\ wpc'[c] = "open"
        /\ \A d \in Clients \ {c} : wpc'[d] = wpc[d]
    BY <1>1, WatchFacts DEF Turn, LoopTypeOK
  <1>8. Types' /\ LoopTypeOK' /\ OthersSame(c)
    BY <1>1, <1>4, <1>5, <1>6, <1>7, WatchFacts DEF Types, BusTypeOK,
       ClaimTypeOK, LoopTypeOK, OthersSame, WalksSame
  <1>9. WatcherInv(c)'
    BY <1>1, <1>4, <1>5, <1>6, <1>7, WatchFacts DEF WatcherInv, Control,
       Holding, Claimed, Reported, Opened, Printer
  <1> QED BY <1>8, <1>9 DEF StepOk

\* A step between two libusb calls: the loop and the call move on together.
Turns(c) ==
    /\ UNCHANGED <<busVars, want, try, result, sess>>
    /\ cpc' \in [Clients -> ClaimPcs]
    /\ \A d \in Clients \ {c} : cpc'[d] = cpc[d]
    /\ wpc' \in [Clients -> {"loop", "open", "look", "gone", "exit",
                             "stopped"}]
    /\ \A d \in Clients \ {c} : wpc'[d] = wpc[d]
    /\ last_state' \in [Clients -> {-1, 0, 1}]
    /\ \A d \in Clients \ {c} : last_state'[d] = last_state[d]
    /\ running' \in [Clients -> BOOLEAN] /\ UNCHANGED <<was_live, original>>

\* The steps of the loop change no more than the place in it.
LEMMA TurnsOk ==
  ASSUME NEW c \in Clients, WatchInv, Turns(c) PROVE
         Types' /\ LoopTypeOK' /\ OthersSame(c)
  BY WatchFacts DEF Turns, busVars, Types, BusTypeOK, ClaimTypeOK, LoopTypeOK,
     OthersSame, WalksSame

\* And keep what the watch knows.
LEMMA TurnsStep ==
  ASSUME NEW c \in Clients, WatchInv,
         \/ OpenFirstDone(c) \/ NotPresent(c) \/ LetGo(c) \/ Signal(c)
         \/ Exit(c) \/ Stop(c)
  PROVE  StepOk(c)
  <1>1. Turns(c)
    <2>1. Types /\ LoopTypeOK
      BY WatchFacts
    <2>2. /\ UNCHANGED <<busVars, want, try, result, sess, was_live, original>>
          /\ cpc' \in [Clients -> ClaimPcs]
          /\ \A d \in Clients \ {c} : cpc'[d] = cpc[d]
      BY <2>1 DEF OpenFirstDone, NotPresent, LetGo, Signal, Exit, Stop, Goto,
         Types, ClaimTypeOK, ClaimPcs, claimVars
    <2>3. /\ wpc' \in [Clients -> {"loop", "open", "look", "gone", "exit",
                                   "stopped"}]
          /\ \A d \in Clients \ {c} : wpc'[d] = wpc[d]
      BY <2>1 DEF OpenFirstDone, NotPresent, LetGo, Signal, Exit, Stop, Turn,
         LoopTypeOK
    <2>4. /\ last_state' \in [Clients -> {-1, 0, 1}]
          /\ \A d \in Clients \ {c} : last_state'[d] = last_state[d]
          /\ running' \in [Clients -> BOOLEAN]
      BY <2>1 DEF OpenFirstDone, NotPresent, LetGo, Signal, Exit, Stop,
         LoopTypeOK
    <2> QED BY <2>2, <2>3, <2>4 DEF Turns
  <1>2. /\ handle' = handle /\ owner' = owner /\ sess' = sess
        /\ result' = result
    BY <1>1 DEF Turns, busVars
  <1>3. ASSUME OpenFirstDone(c) PROVE WatcherInv(c)'
    <2>1. Control(c)' /\ Reported(c)'
      BY <1>2, <1>3, WatchFacts
         DEF OpenFirstDone, Turn, Goto, claimVars, Types,
         ClaimTypeOK, LoopTypeOK, Control, Holding, Reported, Opened
    <2>2. Holding(c)' /\ Claimed(c)'
      BY <1>2, <1>3, WatchFacts
         DEF OpenFirstDone, Turn, Goto, claimVars, Types,
         ClaimTypeOK, LoopTypeOK, Control, Holding, Reported, Claimed,
         Opened, Printer, Live
    <2> QED BY <2>1, <2>2 DEF WatcherInv
  <1>4. ASSUME NotPresent(c) PROVE WatcherInv(c)'
    <2>1. Control(c)' /\ Reported(c)'
      BY <1>2, <1>4, WatchFacts DEF NotPresent, Turn, Goto, claimVars, Types,
         ClaimTypeOK, LoopTypeOK, Control, Holding, Reported, Opened
    <2>2. Holding(c)' /\ Claimed(c)'
      BY <1>2, <1>4, WatchFacts DEF NotPresent, Turn, Goto, claimVars, Types,
         ClaimTypeOK, LoopTypeOK, Control, Holding, Reported, Claimed,
         Opened, Printer, Live
    <2> QED BY <2>1, <2>2 DEF WatcherInv
  <1>5. ASSUME LetGo(c) PROVE WatcherInv(c)'
    <2>1. Control(c)' /\ Reported(c)'
      BY <1>2, <1>5, WatchFacts DEF LetGo, Turn, Goto, claimVars, Types,
         ClaimTypeOK, LoopTypeOK, Control, Holding, Reported, Opened
    <2>2. Holding(c)' /\ Claimed(c)'
      BY <1>2, <1>5, WatchFacts DEF LetGo, Turn, Goto, claimVars, Types,
         ClaimTypeOK, LoopTypeOK, Control, Holding, Reported, Claimed,
         Opened, Printer, Live
    <2> QED BY <2>1, <2>2 DEF WatcherInv
  <1>6. ASSUME Signal(c) PROVE WatcherInv(c)'
    <2>1. Control(c)' /\ Reported(c)'
      BY <1>2, <1>6, WatchFacts DEF Signal, Turn, Goto, claimVars, Types,
         ClaimTypeOK, LoopTypeOK, Control, Holding, Reported, Opened
    <2>2. Holding(c)' /\ Claimed(c)'
      BY <1>2, <1>6, WatchFacts DEF Signal, Turn, Goto, claimVars, Types,
         ClaimTypeOK, LoopTypeOK, Control, Holding, Reported, Claimed,
         Opened, Printer, Live
    <2> QED BY <2>1, <2>2 DEF WatcherInv
  <1>7. ASSUME Exit(c) PROVE WatcherInv(c)'
    <2>1. Control(c)' /\ Reported(c)'
      BY <1>2, <1>7, WatchFacts DEF Exit, Turn, Goto, claimVars, Types,
         ClaimTypeOK, LoopTypeOK, Control, Holding, Reported, Opened
    <2>2. Holding(c)' /\ Claimed(c)'
      BY <1>2, <1>7, WatchFacts DEF Exit, Turn, Goto, claimVars, Types,
         ClaimTypeOK, LoopTypeOK, Control, Holding, Reported, Claimed,
         Opened, Printer, Live
    <2> QED BY <2>1, <2>2 DEF WatcherInv
  <1>8. ASSUME Stop(c) PROVE WatcherInv(c)'
    <2>1. Control(c)' /\ Reported(c)'
      BY <1>2, <1>8, WatchFacts DEF Stop, Turn, Goto, claimVars, Types,
         ClaimTypeOK, LoopTypeOK, Control, Holding, Reported, Opened
    <2>2. Holding(c)' /\ Claimed(c)'
      BY <1>2, <1>8, WatchFacts DEF Stop, Turn, Goto, claimVars, Types,
         ClaimTypeOK, LoopTypeOK, Control, Holding, Reported, Claimed,
         Opened, Printer, Live
    <2> QED BY <2>1, <2>2 DEF WatcherInv
  <1> QED BY <1>1, <1>3, <1>4, <1>5, <1>6, <1>7, <1>8, TurnsOk DEF StepOk

\* A poll gets a list, or none.
LEMMA ListDevicesStep ==
  ASSUME NEW c \in Clients, WatchInv, ListDevices(c) PROVE StepOk(c)
  <1>1. /\ sess[c].held /\ wpc[c] = "loop" /\ cpc[c] = "idle"
        /\ UNCHANGED <<plugged, driver, owner, handle, want, try, result, sess,
                       running, original>>
    BY WatchFacts DEF ListDevices, Turn, Control
  <1>2. CASE /\ Turn(c, "loop", "look")
             /\ list' = [list EXCEPT ![c] =
                   {[dev |-> p, live |-> TRUE] :
                       p \in {q \in plugged : ProductOf[q] =
                                              ProductOf[Printer(c)]}}]
             /\ was_live' = [was_live EXCEPT ![c] = Live(c)]
             /\ UNCHANGED <<cpc, last_state>>
    <2>1. \A q \in plugged : [dev |-> q, live |-> TRUE] \in Device
      BY WatchFacts DEF Types, BusTypeOK, Device
    <2>2. {[dev |-> p, live |-> TRUE] :
              p \in {q \in plugged : ProductOf[q] = ProductOf[Printer(c)]}}
             \in SUBSET Device
      BY <2>1
    <2>3. list' \in [Clients -> SUBSET Device]
      BY <1>2, <2>2, WatchFacts DEF Types, BusTypeOK
    <2>4. Live(c) \in BOOLEAN
      <3>1. handle[c] \in Device \/ handle[c] = NoRef
        BY WatchFacts DEF Types, BusTypeOK
      <3>2. CASE handle[c] \in Device
        BY <3>2 DEF Live, Device
      <3>3. CASE handle[c] = NoRef
        BY <3>3 DEF Live, NoRef
      <3> QED BY <3>1, <3>2, <3>3
    <2>5. Types' /\ LoopTypeOK' /\ OthersSame(c) /\ wpc'[c] = "look"
      <3>1. was_live' \in [Clients -> BOOLEAN]
        BY <1>2, <2>4, WatchFacts DEF LoopTypeOK
      <3> QED BY <1>1, <1>2, <2>3, <3>1, WatchFacts DEF Turn, Types, BusTypeOK,
              ClaimTypeOK, LoopTypeOK, OthersSame, WalksSame
    <2>6. WatcherInv(c)'
      BY <1>1, <1>2, <2>5, WatchFacts DEF WatcherInv, Control, Holding,
         Claimed, Reported, Opened, Printer, Live
    <2> QED BY <2>5, <2>6 DEF StepOk
  <1>3. CASE /\ Turn(c, "loop", "gone")
             /\ Goto(c, "idle", "release")
             /\ last_state' = [last_state EXCEPT ![c] = 0]
             /\ UNCHANGED <<list, was_live>>
    <2>1. /\ Types' /\ LoopTypeOK' /\ OthersSame(c)
          /\ wpc'[c] = "gone" /\ cpc'[c] = "release" /\ last_state'[c] = 0
      BY <1>1, <1>3, WatchFacts DEF Turn, Goto, Types, BusTypeOK, ClaimTypeOK,
         ClaimPcs, LoopTypeOK, OthersSame, WalksSame
    <2>2. WatcherInv(c)'
      BY <1>1, <1>3, <2>1, WatchFacts DEF WatcherInv, Control, Holding,
         Claimed, Reported, Opened, Printer, Live
    <2> QED BY <2>1, <2>2 DEF StepOk
  <1> QED BY <1>2, <1>3 DEF ListDevices

\* session_still_present looks at one device of it.
LEMMA LookStep ==
  ASSUME NEW c \in Clients, WatchInv, Look(c) PROVE StepOk(c)
  <1>1. /\ wpc[c] = "look"
        /\ UNCHANGED <<plugged, driver, owner, handle, claimVars, running,
                       last_state, was_live, original>>
    BY DEF Look, Turn
  <1>2. PICK to \in {"look", "loop"}, left \in SUBSET list[c] :
          wpc' = [wpc EXCEPT ![c] = to] /\ list' = [list EXCEPT ![c] = left]
    BY DEF Look, Turn
  <1>3. left \in SUBSET Device
    BY <1>2, WatchFacts DEF Types, BusTypeOK
  <1>4. /\ list' \in [Clients -> SUBSET Device]
        /\ LoopTypeOK' /\ wpc'[c] = to
        /\ \A d \in Clients \ {c} : wpc'[d] = wpc[d]
    BY <1>1, <1>2, <1>3, WatchFacts DEF Types, BusTypeOK, LoopTypeOK
  <1>5. Types' /\ OthersSame(c)
    BY <1>1, <1>4, WatchFacts DEF claimVars, Types, BusTypeOK, ClaimTypeOK,
       OthersSame, WalksSame
  <1>6. WatcherInv(c)'
    BY <1>1, <1>4, WatchFacts DEF claimVars, WatcherInv, Control, Holding,
       Claimed, Reported, Opened, Printer, Live
  <1> QED BY <1>4, <1>5, <1>6 DEF StepOk

\* Every step of a watch.
LEMMA WatchStep ==
  ASSUME NEW c \in Clients, WatchInv, Watch(c) \/ Signal(c)
  PROVE  StepOk(c)
  BY OpenFirstStep, WatchWalkStep, TurnsStep, ListDevicesStep, LookStep,
     CloseStepStep DEF Watch

-----------------------------------------------------------------------------
(* Printers come and go. *)

\* What an unplug does to the references.
LEMMA BusMoves ==
  ASSUME NEW p \in Printers, BusTypeOK, Unplug(p) PROVE
         /\ BusTypeOK'
         /\ \A c \in Clients :
               /\ handle'[c].dev = handle[c].dev
               /\ handle[c] = NoRef => handle'[c] = NoRef
               /\ handle'[c].live <=> handle[c].live /\ handle[c].dev # p
  <1>1. \A r \in Device :
          /\ Stale(r, p) \in Device /\ Stale(r, p).dev = r.dev
          /\ Stale(r, p).live <=> r.live /\ r.dev # p
    BY DEF Stale, Device
  <1>2. Stale(NoRef, p) = NoRef /\ NoRef.live = FALSE
    BY BusAssumption DEF Stale, NoRef
  <1>3. \A c \in Clients : {Stale(r, p) : r \in list[c]} \in SUBSET Device
    BY <1>1 DEF BusTypeOK
  <1>4. list' \in [Clients -> SUBSET Device]
    BY <1>3 DEF Unplug
  <1>5. handle' \in [Clients -> Device \cup {NoRef}]
    BY <1>1, <1>2 DEF Unplug, BusTypeOK
  <1>6. BusTypeOK'
    BY <1>4, <1>5 DEF Unplug, BusTypeOK, Drivers
  <1>7. \A c \in Clients : /\ handle'[c] = Stale(handle[c], p)
                           /\ handle[c] \in Device \/ handle[c] = NoRef
    BY DEF Unplug, BusTypeOK
  <1> QED BY <1>1, <1>2, <1>6, <1>7

\* A printer that leaves takes its claim and its handles with it.
LEMMA LeavesStep ==
  ASSUME NEW p \in Printers, WatchInv, Leaves(p) PROVE WatchInv'
  <1>1. /\ Types /\ LoopTypeOK
        /\ Unplug(p) /\ owner' = [owner EXCEPT ![p] = NoClient]
        /\ UNCHANGED <<claimVars, wpc, running, last_state, was_live>>
        /\ original' = [original EXCEPT ![p] = "unseen"]
    BY TypesAre DEF WatchInv, Leaves, Unplug
  <1>2. Types' /\ LoopTypeOK'
    BY <1>1, BusMoves DEF Types, ClaimTypeOK, LoopTypeOK, claimVars
  <1>3. ASSUME NEW c \in Clients PROVE WatcherInv(c)'
    <2>1. /\ handle'[c].dev = handle[c].dev
          /\ handle[c] = NoRef => handle'[c] = NoRef
          /\ handle'[c].live <=> handle[c].live /\ handle[c].dev # p
      BY <1>1, BusMoves DEF Types
    <2>2. Control(c)' /\ Reported(c)' /\ Holding(c)'
      BY <1>1, <2>1, WatchFacts DEF claimVars, Control, Reported, Holding,
         Printer
    <2>3. Claimed(c)'
      BY <1>1, <2>1, WatchFacts, BusAssumption DEF claimVars, Claimed, Printer,
         Live, Types, BusTypeOK
    <2> QED BY <2>2, <2>3 DEF WatcherInv
  <1> QED BY <1>2, <1>3 DEF WatchInv, WatchTypeOK, Types, LoopTypeOK

\* A plug, and a step of none, leave the watches alone.
LEMMA Unbothered ==
  ASSUME WatchInv, UNCHANGED <<owner, handle, list, claimVars, watchVars>>,
         plugged' \subseteq Printers, driver' \in [Printers -> Drivers]
  PROVE  WatchInv'
  <1>1. WatchTypeOK'
    BY DEF WatchInv, WatchTypeOK, BusTypeOK, ClaimTypeOK, claimVars, watchVars
  <1>2. ASSUME NEW c \in Clients PROVE WatcherInv(c)'
    BY WatchFacts DEF WatcherInv, Control, Holding, Claimed, Reported,
       claimVars, watchVars, Printer, Live
  <1> QED BY <1>1, <1>2 DEF WatchInv

\* A printer that arrives is new to every watch.
LEMMA ArrivesStep ==
  ASSUME NEW p \in Printers, WatchInv, Arrives(p) PROVE WatchInv'
  <1>1. /\ UNCHANGED <<owner, handle, list, claimVars, watchVars>>
        /\ plugged' \subseteq Printers /\ driver' \in [Printers -> Drivers]
    BY DEF Arrives, Plug, WatchInv, WatchTypeOK, BusTypeOK, Drivers
  <1> QED BY <1>1, Unbothered

-----------------------------------------------------------------------------
(* The invariant. *)

\* At the start nothing is open.
LEMMA InitInv == Init => WatchInv
  <1> SUFFICES ASSUME Init PROVE WatchInv
    OBVIOUS
  <1>1. BusTypeOK
    BY DEF Init, BusInit, BusTypeOK, Drivers, Device, NoRef
  <1>2. ClaimTypeOK
    BY CodesAre DEF Init, ClaimInit, ClaimTypeOK, ClaimPcs, Serials, TryRec,
       SessRec, ClosedSession
  <1>3. WatchTypeOK
    BY <1>1, <1>2 DEF Init, WatchTypeOK
  <1>4. ASSUME NEW c \in Clients PROVE WatcherInv(c)
    BY <1>4, BusAssumption DEF Init, BusInit, ClaimInit, WatcherInv, Control,
       Holding, Claimed, Reported, Opened, ClosedSession
  <1> QED BY <1>3, <1>4 DEF WatchInv

\* The invariant is inductive.
LEMMA NextInv == WatchInv /\ [Next]_vars => WatchInv'
  <1> SUFFICES ASSUME WatchInv, [Next]_vars PROVE WatchInv'
    OBVIOUS
  <1>1. ASSUME NEW c \in Clients, Watch(c) \/ Signal(c) PROVE WatchInv'
    <2>1. StepOk(c)
      BY <1>1, WatchStep
    <2> QED BY <2>1, OthersKept
            DEF StepOk, WatchInv, WatchTypeOK, Types, LoopTypeOK
  <1>2. CASE UNCHANGED vars
    <2>1. /\ UNCHANGED <<owner, handle, list, claimVars, watchVars>>
          /\ plugged' \subseteq Printers /\ driver' \in [Printers -> Drivers]
      BY <1>2 DEF vars, busVars, WatchInv, WatchTypeOK, BusTypeOK
    <2> QED BY <2>1, Unbothered
  <1> QED BY <1>1, <1>2, LeavesStep, ArrivesStep DEF Next

\* Any number of watches, whatever unplugs, failing libusb calls and signals
\* come between their steps: where a watch is in its loop, the libusb call it
\* makes, its session record, its claim and what it has printed agree.
THEOREM WatchInvariant == Spec => []WatchInv
  BY InitInv, NextInv, PTL DEF Spec

\* Every variable keeps its type; last_state is never a result code
\* (lines 624-648).
THEOREM WatchTypesCorrect == Spec => []WatchTypeOK
  <1>1. WatchInv => WatchTypeOK
    BY DEF WatchInv
  <1> QED BY <1>1, WatchInvariant, PTL

\* At every turn of its loop a watch has last printed READY exactly if it holds
\* a claimed printer (lines 627-650).
THEOREM StateLineIsTrue == Spec => []ReportsWhatItHolds
  <1>1. WatchInv => ReportsWhatItHolds
    <2> SUFFICES ASSUME WatchInv, NEW c \in Clients, wpc[c] = "loop"
                 PROVE  (last_state[c] = 1) = sess[c].held
      BY DEF ReportsWhatItHolds
    <2>1. sess[c].held \in BOOLEAN
      BY WatchFacts DEF Types, ClaimTypeOK, SessRec
    <2> QED BY <2>1, WatchFacts DEF Reported
  <1> QED BY <1>1, WatchInvariant, PTL

\* A watch that has stopped holds neither a handle nor a claim, wherever in its
\* loop the signal came (lines 655-665).
THEOREM StopLeavesNothing == Spec => []StopsClean
  <1>1. WatchInv => StopsClean
    <2> SUFFICES ASSUME WatchInv, NEW c \in Clients, wpc[c] = "stopped"
                 PROVE  handle[c] = NoRef /\ \A p \in Printers : owner[p] # c
      BY DEF StopsClean
    <2>1. ~sess[c].held /\ cpc[c] = "idle"
      BY WatchFacts DEF Control, Reported
    <2> QED BY <2>1, WatchFacts DEF Holding, Claimed, Opened
  <1> QED BY <1>1, WatchInvariant, PTL

-----------------------------------------------------------------------------
(* What a watch may hand back to usblp.                                    *)

\* A watch has seen every enumeration it has open, and owes usblp only what it
\* has taken from it.
Owes(c) ==
    /\ cpc[c] \in {"active", "detach"} => ~try[c].detached
    /\ cpc[c] = "undo" => try[c].detached
    /\ cpc[c] = "attach" => sess[c].detached
    /\ Live(c) =>
          /\ original[Printer(c)] # "unseen"
          /\ cpc[c] \in {"claim", "undo"} /\ try[c].detached =>
                original[Printer(c)] = "usblp"
          /\ sess[c].held /\ sess[c].detached =>
                original[Printer(c)] = "usblp"

\* What is listed as alive, and what a watch has opened, is on the bus.
Seen ==
    /\ \A p \in Printers : original[p] # "unseen" => p \in plugged
    /\ \A c \in Clients : \A r \in list[c] : r.live => r.dev \in plugged

RestoreInv == LeavesUnboundAlone /\ Seen /\ \A c \in Clients : Owes(c)

\* A step of c remembers what it has seen of an enumeration.
Remembers ==
    \A p \in Printers :
        /\ original[p] # "unseen" => original'[p] = original[p]
        /\ original[p] = "unseen" =>
              original'[p] = "unseen" \/ original'[p] = driver[p]

\* What a step of c does to the drivers: it takes usblp off, or puts it back
\* where a watch found it.
Restores ==
    \A p \in Printers : \/ driver'[p] = driver[p]
                         \/ driver'[p] = "none"
                         \/ original[p] = "usblp"

\* What the other watches owe stays the same.
LEMMA OwesKept ==
  ASSUME NEW c \in Clients, NEW d \in Clients \ {c}, WatchInv, RestoreInv,
         WalksSame(c), Remembers
  PROVE  Owes(d)'
  <1>1. Owes(d) /\ (Live(d) => Printer(d) \in Printers)
    <2>1. handle[d] \in Device \/ handle[d] = NoRef
      BY WatchFacts DEF Types, BusTypeOK
    <2> QED BY <2>1 DEF RestoreInv, Live, Printer, Device, NoRef
  <1>2. /\ cpc'[d] = cpc[d] /\ try'[d] = try[d] /\ sess'[d] = sess[d]
        /\ handle'[d] = handle[d]
    BY DEF WalksSame
  <1>3. Live(d) => original'[Printer(d)] = original[Printer(d)]
    BY <1>1 DEF Remembers, Owes
  <1> QED BY <1>1, <1>2, <1>3 DEF Owes, Live, Printer

\* A walk: an enumeration is seen when it is opened, usblp is taken from a
\* printer that has it, and put back only after that.
LEMMA WalkRemembers ==
  ASSUME NEW c \in Clients, WatchInv, RestoreInv, WatchWalk(c)
  PROVE  /\ Remembers
         /\ \A p \in Printers : handle'[c] = [dev |-> p, live |-> TRUE] =>
               original'[p] # "unseen"
  <1>1. original \in [Printers -> Drivers \cup {"unseen"}]
        /\ driver \in [Printers -> Drivers]
    BY WatchFacts DEF LoopTypeOK, Types, BusTypeOK
  <1>2. \A p \in Printers :
          original'[p] = IF /\ original[p] = "unseen"
                            /\ handle'[c] = [dev |-> p, live |-> TRUE]
                         THEN driver[p] ELSE original[p]
    BY DEF WatchWalk
  <1>3. \A p \in Printers : driver[p] # "unseen"
    BY <1>1 DEF Drivers
  <1> QED BY <1>2, <1>3 DEF Remembers

\* A handle that a walk has left is no concern.
LEMMA NothingOwed ==
  ASSUME NEW c \in Clients, handle'[c] = NoRef,
         cpc'[c] \notin {"active", "detach", "undo", "attach"}
  PROVE  Owes(c)'
  BY DEF Owes, Live, NoRef

\* A walk owes an attach for its own detach only.
LEMMA WalkOwes ==
  ASSUME NEW c \in Clients, WatchInv, RestoreInv, WatchWalk(c)
  PROVE  Owes(c)' /\ Restores
  <1>1. /\ Types /\ LoopTypeOK /\ Searching(c) /\ Holding(c) /\ Owes(c)
        /\ LeavesUnboundAlone /\ Remembers
    BY WatchFacts, WalkRemembers DEF RestoreInv
  <1>2. /\ Live(c) => Printer(c) \in Printers
        /\ \A p \in Printers : original[p] \in Drivers \cup {"unseen"}
    <2>1. handle[c] \in Device \/ handle[c] = NoRef
      BY <1>1 DEF Types, BusTypeOK
    <2> QED BY <1>1, <2>1 DEF LoopTypeOK, Live, Printer, Device, NoRef
  <1>3. Live(c) => original'[Printer(c)] = original[Printer(c)]
    BY <1>1, <1>2 DEF Owes, Remembers
  <1>4. CASE ScanOpen(c)
    <2>1. PICK r \in list[c] :
            \/ r.live /\ cpc'[c] = "serial" /\ handle'[c] = r
            \/ cpc'[c] = "scan" /\ handle' = handle /\ cpc[c] = "scan"
      BY <1>1, <1>4 DEF ScanOpen, Goto, Types, BusTypeOK, ClaimTypeOK
    <2>2. driver' = driver /\ sess' = sess /\ cpc[c] = "scan"
      BY <1>4 DEF ScanOpen, Goto
    <2>3. CASE r.live /\ cpc'[c] = "serial" /\ handle'[c] = r
      <3>1. r.dev \in Printers /\ r = [dev |-> r.dev, live |-> TRUE]
        BY <1>1, <2>3 DEF Types, BusTypeOK, Device
      <3>2. original'[r.dev] # "unseen" /\ ~sess[c].held
        BY <1>1, <2>2, <2>3, <3>1, WalkRemembers DEF Holding
      <3> QED BY <2>2, <2>3, <3>2 DEF Owes, Restores, Printer, Live
    <2>4. CASE cpc'[c] = "scan" /\ handle' = handle /\ cpc[c] = "scan"
      <3>1. handle'[c] = NoRef
        BY <1>1, <2>4 DEF Searching
      <3> QED BY <2>2, <2>4, <3>1, NothingOwed DEF Restores
    <2> QED BY <2>1, <2>3, <2>4
  <1>5. CASE ScanEnd(c)
    <2>1. handle'[c] = NoRef /\ cpc'[c] = "done" /\ driver' = driver
      BY <1>1, <1>5 DEF ScanEnd, Goto, Searching, busVars, Types, ClaimTypeOK
    <2> QED BY <2>1, NothingOwed DEF Restores
  <1>6. ASSUME NEW from, NEW code, GiveUp(c, from, code), driver' = driver
        PROVE  Owes(c)' /\ Restores
    <2>1. handle'[c] = NoRef /\ cpc'[c] = "scan"
      BY <1>1, <1>6 DEF GiveUp, Goto, CloseHandle, Types, BusTypeOK,
         ClaimTypeOK
    <2> QED BY <1>6, <2>1, NothingOwed DEF Restores
  <1>7. ASSUME NEW s, SerialIs(c, s) PROVE Owes(c)' /\ Restores
    <2>1. /\ cpc[c] = "serial" /\ cpc'[c] = "active" /\ ~try'[c].detached
          /\ UNCHANGED <<driver, handle, sess>>
      BY <1>1, <1>7 DEF SerialIs, Goto, busVars, Types, ClaimTypeOK
    <2> QED BY <1>1, <1>3, <2>1 DEF Owes, Restores, Printer, Live
  <1>8. CASE DriverActive(c)
    <2>1. CASE UNCHANGED <<busVars, want, try, result, sess>> /\
               \E to \in {"detach", "claim"} : Goto(c, "active", to)
      <3>1. /\ cpc[c] = "active" /\ cpc'[c] \in {"detach", "claim"}
            /\ UNCHANGED <<driver, handle, try, sess>>
        BY <1>1, <2>1 DEF Goto, busVars, Types, ClaimTypeOK
      <3> QED BY <1>1, <1>3, <3>1 DEF Owes, Restores, Printer, Live
    <2> QED BY <1>6, <1>8, <2>1 DEF DriverActive
  <1>9. CASE Detach(c)
    <2>1. CASE /\ Goto(c, "detach", "claim") /\ DetachDriver(c)
               /\ UNCHANGED <<handle, sess>>
      <3>1. /\ cpc[c] = "detach" /\ cpc'[c] = "claim" /\ Live(c)
            /\ driver[Printer(c)] = "usblp"
            /\ driver' = [driver EXCEPT ![Printer(c)] = "none"]
        BY <1>1, <2>1 DEF Goto, DetachDriver, Types, ClaimTypeOK
      <3>2. original[Printer(c)] = "usblp"
        BY <1>1, <1>2, <3>1 DEF Owes, LeavesUnboundAlone, Drivers
      <3>3. Restores
        BY <1>1, <3>1 DEF Restores, Types, BusTypeOK
      <3>4. ~sess[c].held
        BY <1>1, <3>1 DEF Holding, Opened
      <3> QED BY <1>3, <2>1, <3>1, <3>2, <3>3, <3>4 DEF Owes, Printer, Live
    <2> QED BY <1>6, <1>9, <2>1 DEF Detach
  <1>10. CASE Claim(c)
    <2>1. CASE /\ try[c].detached /\ Goto(c, "claim", "undo")
               /\ UNCHANGED <<busVars, want, try, sess>>
      <3>1. /\ cpc[c] = "claim" /\ cpc'[c] = "undo"
            /\ UNCHANGED <<driver, handle, try, sess>>
        BY <1>1, <2>1 DEF Goto, busVars, Types, ClaimTypeOK
      <3> QED BY <1>1, <1>3, <2>1, <3>1 DEF Owes, Restores, Printer, Live
    <2>2. CASE Goto(c, "claim", "done") /\ FillSession(c)
      <3>1. /\ cpc[c] = "claim" /\ cpc'[c] = "done"
            /\ sess'[c].detached = try[c].detached
            /\ UNCHANGED <<driver, handle, try>>
        BY <1>1, <2>2 DEF Goto, FillSession, Types, ClaimTypeOK
      <3> QED BY <1>1, <1>3, <3>1 DEF Owes, Restores, Printer, Live
    <2> QED BY <1>6, <1>10, <2>1, <2>2 DEF Claim
  <1>11. CASE Undo(c)
    <2>1. /\ cpc[c] = "undo" /\ cpc'[c] = "scan" /\ handle'[c] = NoRef
          /\ AttachDriver(c)
      BY <1>1, <1>11 DEF Undo, Goto, CloseHandle, Types, BusTypeOK, ClaimTypeOK
    <2>2. Live(c) => original[Printer(c)] = "usblp"
      BY <1>1, <2>1 DEF Owes
    <2>3. Restores
      BY <1>1, <2>1, <2>2 DEF Restores, AttachDriver, Types, BusTypeOK
    <2> QED BY <2>1, <2>3, NothingOwed
  <1>12. CASE ReadSerial(c)
    BY <1>6, <1>7, <1>12 DEF ReadSerial
  <1> QED BY <1>4, <1>5, <1>8, <1>9, <1>10, <1>11, <1>12 DEF WatchWalk, Walk

\* A close owes one for what the walk found.
LEMMA CloseOwes ==
  ASSUME NEW c \in Clients, WatchInv, RestoreInv, CloseStep(c)
  PROVE  Owes(c)' /\ Restores
  <1>1. /\ Types /\ Holding(c) /\ Owes(c)
        /\ UNCHANGED <<original>>
    BY WatchFacts DEF RestoreInv, CloseStep, watchVars
  <1>2. CASE Release(c, wpc[c] = "exit")
    <2>1. CloseOk(c) /\ driver' = driver
      BY <1>2, WatchFacts, ReleaseOk DEF Claimed, Release
    <2>2. cpc[c] = "release"
      BY <1>2 DEF Release, Goto
    <2> QED BY <1>1, <2>1, <2>2, NothingOwed
            DEF CloseOk, Owes, Restores, Live, Printer
  <1>3. CASE AttachBack(c)
    <2>1. cpc[c] = "attach" /\ AttachDriver(c)
      BY <1>3 DEF AttachBack, Goto
    <2>2. Live(c) => original[Printer(c)] = "usblp"
      BY <1>1, <2>1 DEF Owes, Holding
    <2>3. Restores
      BY <1>1, <2>1, <2>2 DEF Restores, AttachDriver, Types, BusTypeOK
    <2>4. CloseOk(c)
      BY <1>3, <2>1, WatchFacts, AttachBackOk DEF Claimed
    <2> QED BY <2>1, <2>3, <2>4, NothingOwed DEF CloseOk
  <1> QED BY <1>2, <1>3 DEF CloseStep

\* The steps between two libusb calls and the device lists.
LEMMA OtherOwes ==
  ASSUME NEW c \in Clients, WatchInv, RestoreInv,
         \/ OpenFirst(c) \/ OpenFirstDone(c) \/ ListDevices(c) \/ Look(c)
         \/ NotPresent(c) \/ LetGo(c) \/ Exit(c) \/ Stop(c) \/ Signal(c)
  PROVE  Owes(c)' /\ Restores /\ Remembers
  <1>1. Owes(c) /\ Types
    BY WatchFacts DEF RestoreInv
  <1>2. UNCHANGED <<driver, handle, try, sess, original>>
    BY DEF OpenFirst, StartWalk, OpenFirstDone, ListDevices, Look, NotPresent,
       LetGo, Exit, Stop, Signal, busVars, claimVars
  <1>3. \/ cpc'[c] \in {"scan", "done", "idle", "release", "closed"}
        \/ cpc' = cpc
    BY <1>1 DEF OpenFirst, StartWalk, OpenFirstDone, ListDevices, Look,
       NotPresent, LetGo, Exit, Stop, Signal, Goto, claimVars, Types,
       ClaimTypeOK
  <1>4. Owes(c)'
    BY <1>1, <1>2, <1>3 DEF Owes, Live, Printer
  <1> QED BY <1>2, <1>4 DEF Restores, Remembers

\* What a step of c does to its device list: take entries off, or list anew
\* what is on the bus; it opens only what is listed.
Lists(c) ==
    /\ plugged' = plugged
    /\ \A d \in Clients \ {c} : list'[d] = list[d]
    /\ \A r \in list'[c] : r \in list[c] \/ r.dev \in plugged

\* A walk opens what is on its list.
LEMMA WalkLists ==
  ASSUME NEW c \in Clients, WatchInv, WatchWalk(c)
  PROVE  /\ Lists(c)
         /\ \/ handle'[c] \in list[c] \/ handle'[c] = handle[c]
            \/ handle'[c] = NoRef
  <1>1. Types
    BY WatchFacts
  <1>2. CASE ScanOpen(c)
    BY <1>1, <1>2 DEF ScanOpen, Lists, Types, BusTypeOK
  <1>3. CASE ScanEnd(c)
    BY <1>1, <1>3 DEF ScanEnd, busVars, Lists
  <1>4. ASSUME NEW from, NEW code, GiveUp(c, from, code)
        PROVE  Lists(c) /\ handle'[c] = NoRef
    BY <1>1, <1>4 DEF GiveUp, CloseHandle, Lists, Types, BusTypeOK
  <1>5. CASE ReadSerial(c)
    BY <1>1, <1>4, <1>5 DEF ReadSerial, SerialIs, busVars, Lists
  <1>6. CASE DriverActive(c)
    BY <1>1, <1>4, <1>6 DEF DriverActive, busVars, Lists
  <1>7. CASE Detach(c)
    BY <1>1, <1>4, <1>7 DEF Detach, Lists
  <1>8. CASE Claim(c)
    <2>1. CASE FillSession(c)
      BY <1>1, <2>1 DEF FillSession, Lists, Types, BusTypeOK
    <2> QED BY <1>4, <1>8, <2>1 DEF Claim, busVars, Lists
  <1>9. CASE Undo(c)
    BY <1>1, <1>9 DEF Undo, CloseHandle, Lists, Types, BusTypeOK
  <1> QED BY <1>2, <1>3, <1>5, <1>6, <1>7, <1>8, <1>9 DEF WatchWalk, Walk

\* So what it has seen is on the bus.
LEMMA WalkSeen ==
  ASSUME NEW c \in Clients, WatchInv, RestoreInv, WatchWalk(c)
  PROVE  /\ Lists(c)
         /\ \A p \in Printers : original'[p] # "unseen" => p \in plugged
  <1>1. Lists(c) /\ Types /\ LoopTypeOK /\ Owes(c) /\ Seen
    BY WalkLists, WatchFacts DEF RestoreInv
  <1>2. ASSUME NEW p \in Printers, original'[p] # "unseen"
        PROVE  p \in plugged
    <2>1. CASE original[p] # "unseen"
      BY <1>1, <2>1 DEF Seen
    <2>2. CASE original[p] = "unseen"
      <3>1. handle'[c] = [dev |-> p, live |-> TRUE]
        BY <1>1, <1>2, <2>2 DEF WatchWalk, LoopTypeOK
      <3>2. handle'[c].dev = p /\ handle'[c].live /\ handle'[c] # NoRef
        BY <3>1 DEF NoRef
      <3>3. handle'[c] # handle[c]
        BY <1>1, <2>2, <3>2 DEF Owes, Live, Printer
      <3>4. handle'[c] \in list[c]
        BY <3>2, <3>3, WalkLists
      <3> QED BY <1>1, <3>2, <3>4 DEF Seen
    <2> QED BY <2>1, <2>2
  <1> QED BY <1>1, <1>2

\* The rest of the loop opens nothing but what it lists.
LEMMA OthersList ==
  ASSUME NEW c \in Clients, WatchInv, RestoreInv,
         (Watch(c) /\ ~WatchWalk(c)) \/ Signal(c)
  PROVE  Lists(c)
  <1>1. Types
    BY WatchFacts
  <1>2. CASE OpenFirst(c)
    BY <1>1, <1>2 DEF OpenFirst, StartWalk, Lists, Types, BusTypeOK
  <1>3. CASE ListDevices(c)
    <2>1. CASE list' = [list EXCEPT ![c] =
                {[dev |-> p, live |-> TRUE] :
                    p \in {q \in plugged : ProductOf[q] =
                                           ProductOf[Printer(c)]}}]
      BY <1>1, <1>3, <2>1 DEF ListDevices, Lists, Types, BusTypeOK
    <2>2. CASE UNCHANGED list
      BY <1>3, <2>2 DEF ListDevices, Lists
    <2> QED BY <1>3, <2>1, <2>2 DEF ListDevices
  <1>4. CASE Look(c)
    BY <1>1, <1>4 DEF Look, Lists, Types, BusTypeOK
  <1>5. CASE \/ OpenFirstDone(c) \/ NotPresent(c) \/ LetGo(c) \/ Exit(c)
             \/ Stop(c) \/ Signal(c)
    BY <1>5 DEF OpenFirstDone, NotPresent, LetGo, Exit, Stop, Signal, busVars,
       Lists
  <1>6. CASE CloseStep(c)
    BY <1>6 DEF CloseStep, Release, AttachBack, Lists
  <1> QED BY <1>2, <1>3, <1>4, <1>5, <1>6 DEF Watch

\* Every step of a watch keeps the account of the drivers.
LEMMA WatchRestores ==
  ASSUME NEW c \in Clients, WatchInv, RestoreInv, Watch(c) \/ Signal(c)
  PROVE  RestoreInv'
  <1>1. Owes(c)' /\ Restores /\ Remembers
    <2>1. CASE CloseStep(c)
      BY <2>1, CloseOwes DEF CloseStep, watchVars, Remembers
    <2> QED BY <2>1, WalkOwes, WalkRemembers, OtherOwes DEF Watch
  <1>2. WalksSame(c)
    BY WatchStep DEF StepOk, OthersSame
  <1>3. \A d \in Clients : Owes(d)'
    BY <1>1, <1>2, OwesKept
  <1>4. Seen'
    <2>1. /\ Lists(c)
          /\ \A p \in Printers : original'[p] # "unseen" => p \in plugged
      <3>1. CASE WatchWalk(c)
        BY <3>1, WalkSeen
      <3>2. CASE ~WatchWalk(c)
        <4>1. original' = original
          BY <3>2 DEF Watch, OpenFirst, OpenFirstDone, ListDevices, Look,
             NotPresent, LetGo, Exit, Stop, Signal, CloseStep, watchVars
        <4> QED BY <3>2, <4>1, OthersList DEF RestoreInv, Seen
      <3> QED BY <3>1, <3>2
    <2>2. \A d \in Clients : \A r \in list'[d] : r.live => r.dev \in plugged'
      BY <2>1 DEF RestoreInv, Seen, Lists
    <2> QED BY <2>1, <2>2 DEF Seen, Lists
  <1>5. LeavesUnboundAlone'
    <2> SUFFICES ASSUME NEW p \in Printers, original'[p] = "none"
                 PROVE  driver'[p] = "none"
      BY DEF LeavesUnboundAlone
    <2>1. \/ original[p] = "none"
          \/ original[p] = "unseen" /\ driver[p] = "none"
      BY <1>1 DEF Remembers
    <2>2. driver[p] = "none" /\ original[p] # "usblp"
      BY <2>1 DEF RestoreInv, LeavesUnboundAlone
    <2> QED BY <1>1, <2>2 DEF Restores
  <1> QED BY <1>3, <1>4, <1>5 DEF RestoreInv

\* A printer that leaves is forgotten with its driver.
LEMMA LeavesRestores ==
  ASSUME NEW p \in Printers, WatchInv, RestoreInv, Leaves(p)
  PROVE  RestoreInv'
  <1>1. /\ Types /\ LoopTypeOK /\ LeavesUnboundAlone /\ Seen
        /\ Unplug(p) /\ original' = [original EXCEPT ![p] = "unseen"]
        /\ plugged' = plugged \ {p} /\ driver' = [driver EXCEPT ![p] = "none"]
        /\ UNCHANGED claimVars
    BY TypesAre DEF WatchInv, RestoreInv, Leaves, Unplug
  <1>2. LeavesUnboundAlone'
    BY <1>1 DEF LeavesUnboundAlone, Types, BusTypeOK, LoopTypeOK
  <1>3. Seen'
    <2>1. \A q \in Printers : original'[q] # "unseen" => q \in plugged'
      BY <1>1 DEF Seen, LoopTypeOK
    <2>2. ASSUME NEW c \in Clients, NEW r \in list'[c], r.live
          PROVE  r.dev \in plugged'
      <3>1. PICK s \in list[c] : r = Stale(s, p)
        BY <1>1, <2>2 DEF Unplug
      <3>2. s \in Device
        BY <1>1 DEF Types, BusTypeOK
      <3>3. s.dev # p /\ r = s
        BY <2>2, <3>1, <3>2 DEF Stale, Device
      <3> QED BY <1>1, <2>2, <3>3 DEF Seen
    <2> QED BY <2>1, <2>2 DEF Seen
  <1>4. ASSUME NEW c \in Clients PROVE Owes(c)'
    <2>1. /\ handle'[c].dev = handle[c].dev
          /\ handle'[c].live <=> handle[c].live /\ handle[c].dev # p
          /\ Owes(c)
      BY <1>1, BusMoves DEF Types, RestoreInv
    <2>2. Live(c) => Printer(c) \in Printers
      <3>1. handle[c] \in Device \/ handle[c] = NoRef
        BY <1>1 DEF Types, BusTypeOK
      <3> QED BY <3>1 DEF Live, Printer, Device, NoRef
    <2>3. Live(c)' => Live(c) /\ original'[Printer(c)] = original[Printer(c)]
      BY <1>1, <2>1, <2>2 DEF Live, Printer, LoopTypeOK
    <2> QED BY <1>1, <2>1, <2>3 DEF Owes, claimVars, Live, Printer
  <1> QED BY <1>2, <1>3, <1>4 DEF RestoreInv

\* A printer that arrives has not been seen, whatever the kernel binds to it.
LEMMA ArrivesRestores ==
  ASSUME NEW p \in Printers, WatchInv, RestoreInv, Arrives(p)
  PROVE  RestoreInv'
  <1>1. /\ original[p] # "none"
        /\ \A q \in Printers \ {p} : driver'[q] = driver[q]
        /\ UNCHANGED <<owner, handle, list, claimVars, watchVars>>
        /\ plugged' = plugged \cup {p}
    BY WatchFacts DEF Arrives, Plug, RestoreInv, Seen, WatchInv, WatchTypeOK,
       BusTypeOK
  <1> QED BY <1>1 DEF RestoreInv, LeavesUnboundAlone, Seen, Owes, claimVars,
             watchVars, Live, Printer

\* At the start no driver was seen.
LEMMA InitRestores == Init => RestoreInv
  BY BusAssumption DEF Init, BusInit, ClaimInit, RestoreInv,
     LeavesUnboundAlone, Seen, Owes, Live, NoRef

\* The account is inductive, given WatchInv.
LEMMA NextRestores ==
  WatchInv /\ RestoreInv /\ [Next]_vars => RestoreInv'
  <1> SUFFICES ASSUME WatchInv, RestoreInv, [Next]_vars PROVE RestoreInv'
    OBVIOUS
  <1>1. CASE UNCHANGED vars
    BY <1>1 DEF vars, busVars, claimVars, watchVars, RestoreInv,
       LeavesUnboundAlone, Seen, Owes, Live, Printer
  <1> QED BY <1>1, WatchRestores, LeavesRestores, ArrivesRestores DEF Next

\* Whatever the watches, the signals and the printers do, no watch binds usblp
\* to a printer that had no driver when it was first opened: the undo of a
\* failed claim and the way out attach only after this walk's own detach
\* (usb_transport.c lines 164-168 and 222-227), and a stale handle attaches
\* nothing to the printer that has come back.
THEOREM UnboundStaysUnbound == Spec => []LeavesUnboundAlone
  <1>1. Init => WatchInv /\ RestoreInv
    BY InitInv, InitRestores
  <1>2. WatchInv /\ RestoreInv /\ [Next]_vars => (WatchInv /\ RestoreInv)'
    BY NextInv, NextRestores
  <1>3. RestoreInv => LeavesUnboundAlone
    BY DEF RestoreInv
  <1> QED BY <1>1, <1>2, <1>3, PTL DEF Spec
=============================================================================
