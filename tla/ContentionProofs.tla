-------------------------- MODULE ContentionProofs --------------------------
(***************************************************************************)
(* Proofs about Contention, for any number of sessions, claim checks and   *)
(* print tests side by side on any number of printers.                     *)
(*                                                                         *)
(* No program knows of the others.  Polite says what a step of any of the  *)
(* three may do to the bus; that it keeps the claims of the others, and    *)
(* the rules of the bus (BusRules), needs no more.  Who may bind usblp     *)
(* again is TakerInv: at the call that may do it, each program knows that  *)
(* it took usblp off itself (Owes), and a polite step of another program   *)
(* does not touch what it knows.                                           *)
(***************************************************************************)
EXTENDS Contention, UsbSessionProofs

USE ContentionAssumption

\* A live handle or reference is to a printer on the bus, and a printer that
\* is claimed is on the bus and has no kernel driver.
BusRules ==
    /\ \A c \in Clients : Live(c) => Printer(c) \in plugged
    /\ \A c \in Clients : \A r \in list[c] : r.live => r.dev \in plugged
    /\ \A p \in Printers :
          owner[p] # NoClient => p \in plugged /\ driver[p] = "none"

TestPcs == {"off", "scan", "active", "detach", "claim", "undo", "open",
            "read", "send", "release"}

\* From its claim to its release.
Sending == {"open", "read", "send", "release"}

\* A print test that sends on a live handle has the claim.
TestClaims(c) == tpc[c] \in Sending /\ Live(c) => owner[Printer(c)] = c

WriterInv ==
    /\ TypeOK /\ tpc \in [Clients -> TestPcs]
    /\ BusRules
    /\ \A c \in Clients : program[c] = "session" => ClientInv(c)
    /\ \A c \in Clients : program[c] = "test" => TestClaims(c)

-----------------------------------------------------------------------------
(* What a step of any program may do to the bus.                           *)

Polite(e) ==
    /\ plugged' = plugged
    /\ \A d \in Clients \ {e} : handle'[d] = handle[d]
    /\ \A d \in Clients :
          \/ list'[d] \subseteq list[d]
          \/ \A r \in list'[d] : r.dev \in plugged
    /\ \A d \in Clients : handle'[d] \in list[d] \cup {handle[d], NoRef}
    /\ \A p \in Printers :
          \/ owner'[p] = owner[p]
          \/ owner[p] = e /\ owner'[p] = NoClient
          \/ /\ owner[p] = NoClient /\ owner'[p] = e
             /\ driver[p] = "none" /\ driver' = driver
             /\ Live(e) /\ Printer(e) = p
    /\ \A p \in Printers :
          \/ driver'[p] \in {driver[p], "none"}
          \/ owner[p] = NoClient /\ owner'[p] = NoClient

\* The rules of the bus hold whoever plays by them.
LEMMA PoliteKeepsRules ==
  ASSUME NEW e \in Clients, BusRules, Polite(e) PROVE BusRules'
  <1>1. ASSUME NEW d \in Clients PROVE Live(d)' => Printer(d)' \in plugged'
    BY DEF BusRules, Polite, Live, Printer, NoRef
  <1>2. ASSUME NEW d \in Clients, NEW r \in list'[d]
        PROVE  r.live => r.dev \in plugged'
    BY DEF BusRules, Polite
  <1>3. ASSUME NEW p \in Printers, owner'[p] # NoClient
        PROVE  p \in plugged' /\ driver'[p] = "none"
    BY <1>3 DEF BusRules, Polite
  <1> QED BY <1>1, <1>2, <1>3 DEF BusRules

\* A client keeps its handle and its claim through the steps of the others.
LEMMA PoliteToOthers ==
  ASSUME NEW e \in Clients, NEW d \in Clients \ {e}, Polite(e)
  PROVE  /\ handle'[d] = handle[d]
         /\ \A p \in Printers : owner'[p] = d <=> owner[p] = d
  BY BusAssumption DEF Polite

\* The sessions are polite.
LEMMA SessionPolite ==
  ASSUME NEW c \in Clients, OwnInv(c), Caller(c) \/ Session(c)
  PROVE  Polite(c)
  <1>1. TypeOK /\ OthersSame(c)
    BY ClientStep DEF OwnInv, StepOk
  <1>2. ASSUME NEW p \in Printers
        PROVE  /\ \/ owner'[p] = owner[p]
                  \/ owner[p] = c /\ owner'[p] = NoClient
                  \/ /\ owner[p] = NoClient /\ owner'[p] = c
                     /\ driver[p] = "none" /\ driver' = driver
                     /\ Live(c) /\ Printer(c) = p
               /\ \/ driver'[p] \in {driver[p], "none"}
                  \/ owner[p] = NoClient /\ owner'[p] = NoClient
    <2>1. owner[p] \in Clients \cup {NoClient}
      BY <1>1 DEF TypeOK, BusTypeOK
    <2>2. owner[p] \in Clients \ {c} => owner'[p] = owner[p]
      BY <1>1 DEF OthersSame
    <2> QED BY <1>1, <2>1, <2>2, ClaimsAndDrivers
  <1>3. \A d \in Clients \ {c} : handle'[d] = handle[d]
    BY <1>1 DEF OthersSame
  <1> QED BY <1>1, <1>2, <1>3, ReferencesFrom DEF Polite

\* So are the claim checks.
LEMMA CheckPolite ==
  ASSUME NEW c \in Clients, BusTypeOK, K!CheckStart(c) \/ K!Check(c)
  PROVE  BusTypeOK' /\ Polite(c)
  <1> USE DEF BusTypeOK, Polite
  <1>1. CASE K!CheckStart(c)
    <2>1. \A p \in K!Listed :
             p \in plugged /\ [dev |-> p, live |-> TRUE] \in Device
      BY DEF K!Listed, Device
    <2>2. \A r \in {[dev |-> p, live |-> TRUE] : p \in K!Listed} :
             r \in Device /\ r.dev \in plugged
      BY <2>1
    <2> QED BY <1>1, <2>2 DEF K!CheckStart
  <1>2. CASE K!CheckEnd(c)
    BY <1>2 DEF K!CheckEnd, K!busVars
  <1>3. CASE K!CheckOpen(c)
    BY <1>3 DEF K!CheckOpen, K!CheckFails, K!CloseHandle, K!NoRef, NoRef
  <1>4. CASE K!CheckDriver(c)
    BY <1>4 DEF K!CheckDriver, K!CheckFails, K!CloseHandle, K!NoRef, NoRef
  <1>5. CASE K!CheckDetach(c)
    BY <1>5 DEF K!CheckDetach, K!DetachDriver, K!CheckFails, K!CloseHandle,
       K!NoRef, NoRef, Drivers
  <1>6. CASE K!CheckClaim(c)
    BY <1>6 DEF K!CheckClaim, K!ClaimInterface, K!CheckFails, K!CloseHandle,
       K!NoRef, NoRef, K!Live, K!Printer, Live, Printer
  <1>7. CASE K!CheckRelease(c)
    BY <1>7 DEF K!CheckRelease, K!ReleaseInterface, K!CloseHandle, K!NoRef,
       NoRef
  <1>8. CASE K!CheckAttach(c)
    BY <1>8 DEF K!CheckAttach, K!AttachDriver, K!CloseHandle, K!NoRef, NoRef,
       Drivers
  <1> QED BY <1>1, <1>2, <1>3, <1>4, <1>5, <1>6, <1>7, <1>8 DEF K!Check

\* And the print tests: those of their calls that go on the bus, and the rest.
TestOnBus(c) ==
    \/ T!TestList(c) \/ T!TestOpen(c) \/ T!TestNoPrinter(c) \/ T!TestDriver(c)
    \/ T!TestDetach(c) \/ T!TestClaim(c) \/ T!TestUndo(c) \/ T!TestRelease(c)

TestOffBus(c) ==
    \/ T!TestStart(c) \/ T!TestRender(c) \/ T!TestGivesUp(c) \/ T!OpenZjs(c)
    \/ T!ReadZjs(c) \/ T!EndOfZjs(c) \/ T!TestByte(c) \/ T!SendOk(c)
    \/ T!SendError(c)

\* A call of a test is one or the other.
LEMMA TestSplit ==
  ASSUME NEW c, T!TestStart(c) \/ T!TestStep(c)
  PROVE  TestOnBus(c) \/ TestOffBus(c)
  BY DEF T!TestStep, TestOnBus, TestOffBus

\* The rest of the calls leave the bus alone.
LEMMA TestOffBusLeavesBus ==
  ASSUME NEW c, TestOffBus(c) PROVE UNCHANGED busVars
  BY DEF TestOffBus, T!TestStart, T!TestRender, T!TestGivesUp, T!OpenZjs,
     T!ReadZjs, T!EndOfZjs, T!TestByte, T!SendOk, T!SendError, T!Offset,
     T!busVars, busVars

\* Every call of a test is polite.
LEMMA TestPolite ==
  ASSUME NEW c \in Clients, BusTypeOK, T!TestStart(c) \/ T!TestStep(c)
  PROVE  BusTypeOK' /\ Polite(c)
  <1> USE DEF BusTypeOK, Polite
  <1>1. CASE TestOffBus(c)
    BY <1>1, TestOffBusLeavesBus DEF busVars
  <1>2. CASE T!TestList(c)
    <2> DEFINE S == {q \in plugged : ProductOf[q] = "002a"}
    <2>1. \A p \in S : p \in plugged /\ [dev |-> p, live |-> TRUE] \in Device
      BY DEF Device
    <2>2. \A r \in {[dev |-> p, live |-> TRUE] : p \in S} :
             r \in Device /\ r.dev \in plugged
      BY <2>1
    <2> QED BY <1>2, <2>2 DEF T!TestList
  <1>3. CASE T!TestOpen(c)
    BY <1>3 DEF T!TestOpen, T!TestSkips, T!CloseHandle, T!NoRef, NoRef
  <1>4. CASE T!TestNoPrinter(c)
    BY <1>4 DEF T!TestNoPrinter, T!busVars
  <1>5. CASE T!TestDriver(c)
    BY <1>5 DEF T!TestDriver, T!TestSkips, T!CloseHandle, T!NoRef, NoRef
  <1>6. CASE T!TestDetach(c)
    BY <1>6 DEF T!TestDetach, T!DetachDriver, T!TestSkips, T!CloseHandle,
       T!NoRef, NoRef, Drivers
  <1>7. CASE T!TestClaim(c)
    BY <1>7 DEF T!TestClaim, T!ClaimInterface, T!TestSkips, T!CloseHandle,
       T!NoRef, NoRef, T!Live, T!Printer, Live, Printer
  <1>8. CASE T!TestUndo(c)
    BY <1>8 DEF T!TestUndo, T!AttachDriver, T!TestSkips, T!CloseHandle,
       T!NoRef, NoRef, Drivers
  <1>9. CASE T!TestRelease(c)
    BY <1>9 DEF T!TestRelease, T!ReleaseInterface, T!CloseHandle, T!NoRef,
       NoRef
  <1> QED BY <1>1, <1>2, <1>3, <1>4, <1>5, <1>6, <1>7, <1>8, <1>9, TestSplit
          DEF TestOnBus

-----------------------------------------------------------------------------
(* A print test has its claim until it releases it.                        *)

\* Only a claim that succeeds brings a test to its sending.
LEMMA TestPcKept ==
  ASSUME NEW c \in Clients, tpc \in [Clients -> TestPcs],
         T!TestStart(c) \/ T!TestStep(c)
  PROVE  /\ tpc' \in [Clients -> TestPcs]
         /\ \A d \in Clients \ {c} : tpc'[d] = tpc[d]
         /\ tpc'[c] \in Sending =>
               \/ tpc[c] \in Sending /\ UNCHANGED <<owner, handle>>
               \/ T!TestClaim(c) /\ tpc'[c] = "open"
  <1> USE DEF TestPcs, Sending, T!Test, T!TestSkips, T!SendFails, T!Offset,
              T!busVars
  <1>1. CASE T!TestStart(c) \/ T!TestRender(c) \/ T!TestGivesUp(c)
    BY <1>1 DEF T!TestStart, T!TestRender, T!TestGivesUp, T!sendVars
  <1>2. CASE T!OpenZjs(c) \/ T!ReadZjs(c) \/ T!EndOfZjs(c) \/ T!TestByte(c)
    BY <1>2 DEF T!OpenZjs, T!ReadZjs, T!EndOfZjs, T!TestByte
  <1>3. CASE T!SendOk(c) \/ T!SendError(c)
    BY <1>3 DEF T!SendOk, T!SendError
  <1>4. CASE T!TestList(c) \/ T!TestOpen(c) \/ T!TestNoPrinter(c)
    BY <1>4 DEF T!TestList, T!TestOpen, T!TestNoPrinter
  <1>5. CASE T!TestDriver(c) \/ T!TestDetach(c)
    BY <1>5 DEF T!TestDriver, T!TestDetach
  <1>6. CASE T!TestClaim(c)
    BY <1>6 DEF T!TestClaim
  <1>7. CASE T!TestUndo(c) \/ T!TestRelease(c)
    BY <1>7 DEF T!TestUndo, T!TestRelease
  <1> QED BY <1>1, <1>2, <1>3, <1>4, <1>5, <1>6, <1>7, TestSplit
          DEF TestOnBus, TestOffBus

\* Its own steps keep TestClaims.
LEMMA TestKeepsClaim ==
  ASSUME NEW c \in Clients, BusTypeOK, tpc \in [Clients -> TestPcs],
         TestClaims(c), T!TestStart(c) \/ T!TestStep(c)
  PROVE  TestClaims(c)'
  <1> SUFFICES ASSUME tpc'[c] \in Sending, Live(c)'
               PROVE  owner'[Printer(c)'] = c
    BY DEF TestClaims, Printer
  <1>1. CASE tpc[c] \in Sending /\ UNCHANGED <<owner, handle>>
    BY <1>1 DEF TestClaims, Live, Printer
  <1>2. CASE T!TestClaim(c) /\ tpc'[c] = "open"
    <2>1. T!ClaimInterface(c) /\ handle' = handle
      BY <1>2 DEF TestPcs, T!TestClaim, T!TestSkips, T!Test
    <2>2. Printer(c) \in Printers
      BY <2>1 DEF BusTypeOK, T!ClaimInterface, T!Live, T!Printer, Printer,
         Device, NoRef
    <2> QED BY <2>1, <2>2 DEF BusTypeOK, T!ClaimInterface, T!Printer, Printer
  <1> QED BY <1>1, <1>2, TestPcKept

\* So does a step that is polite to the test.
LEMMA TestUndisturbed ==
  ASSUME NEW e \in Clients, NEW d \in Clients \ {e}, BusTypeOK, Polite(e),
         tpc'[d] = tpc[d], TestClaims(d)
  PROVE  TestClaims(d)'
  <1>1. Live(d) => Printer(d) \in Printers
    BY DEF BusTypeOK, Live, Printer, Device, NoRef
  <1> QED BY <1>1, PoliteToOthers DEF TestClaims, Live, Printer

\* And one that is polite to a session keeps the session's invariant.
LEMMA SessionUndisturbed ==
  ASSUME NEW e \in Clients, NEW d \in Clients \ {e}, Polite(e), ClientInv(d),
         UNCHANGED <<claimVars, callVars, job>>
  PROVE  ClientInv(d)'
  <1>1. BytesInv(d)'
    BY PoliteToOthers, BytesKept
       DEF claimVars, callVars, BytesSame, BytesInv, ClientInv, Live
  <1>2. Control(d)' /\ Holding(d)' /\ Target(d)'
    BY PoliteToOthers
       DEF claimVars, callVars, ClientInv, Control, Holding, Target, Printer
  <1>3. Claimed(d)'
    BY PoliteToOthers
       DEF claimVars, callVars, ClientInv, Claimed, Holding, Target, Printer,
           Live
  <1> QED BY <1>1, <1>2, <1>3 DEF BytesInv, ClientInv

\* A page adds to the printers that have taken a byte.
LEMMA TestPrints ==
  ASSUME NEW c \in Clients, BusTypeOK, printed \subseteq Printers,
         T!TestStart(c) \/ T!TestStep(c)
  PROVE  printed' \subseteq Printers
  <1>1. CASE T!TestByte(c)
    BY <1>1 DEF BusTypeOK, Device, NoRef, T!TestByte, T!Live, T!Printer
  <1>2. CASE ~T!TestByte(c)
    BY <1>2 DEF T!TestStep, T!TestStart, T!TestRender, T!TestGivesUp,
       T!TestList, T!TestOpen, T!TestNoPrinter, T!TestDriver, T!TestDetach,
       T!TestClaim, T!TestUndo, T!OpenZjs, T!ReadZjs, T!EndOfZjs, T!SendOk,
       T!SendError, T!Offset, T!TestRelease
  <1> QED BY <1>1, <1>2

-----------------------------------------------------------------------------
(* The invariant: one step lemma for each kind of program, and the bus.    *)

\* A call of a session.
LEMMA SessionKeeps ==
  ASSUME NEW c \in Clients, WriterInv, program[c] = "session",
         Caller(c) \/ Session(c), UNCHANGED <<testVars, program>>
  PROVE  WriterInv'
  <1>1. OwnInv(c) /\ TypeOK /\ BusRules /\ tpc \in [Clients -> TestPcs]
    BY DEF WriterInv, OwnInv
  <1>2. StepOk(c) /\ Polite(c) /\ tpc' = tpc
    BY <1>1, ClientStep, SessionPolite DEF testVars
  <1>3. TypeOK' /\ BusRules'
    BY <1>1, <1>2, PoliteKeepsRules DEF StepOk
  <1>4. ASSUME NEW d \in Clients, program'[d] = "session"
        PROVE  ClientInv(d)'
    BY <1>2, <1>4, OthersKept DEF StepOk, WriterInv
  <1>5. ASSUME NEW d \in Clients, program'[d] = "test"
        PROVE  TestClaims(d)'
    BY <1>1, <1>2, <1>5, TestUndisturbed DEF WriterInv, TypeOK
  <1> QED BY <1>1, <1>2, <1>3, <1>4, <1>5 DEF WriterInv

\* A call of a claim check.
LEMMA CheckKeeps ==
  ASSUME NEW c \in Clients, WriterInv, program[c] = "check",
         K!CheckStart(c) \/ K!Check(c),
         UNCHANGED <<sessionVars, history, testVars, program>>
  PROVE  WriterInv'
  <1>1. BusTypeOK /\ TypeOK /\ BusRules /\ tpc \in [Clients -> TestPcs]
    BY DEF WriterInv, TypeOK
  <1>2. BusTypeOK' /\ Polite(c) /\ tpc' = tpc
    BY <1>1, CheckPolite DEF testVars
  <1>3. TypeOK' /\ BusRules'
    BY <1>1, <1>2, PoliteKeepsRules DEF TypeOK, ClaimTypeOK, SessionTypeOK,
       sessionVars, claimVars, callVars, history
  <1>4. ASSUME NEW d \in Clients, program'[d] = "session"
        PROVE  ClientInv(d)'
    BY <1>2, <1>4, SessionUndisturbed DEF sessionVars, history, WriterInv
  <1>5. ASSUME NEW d \in Clients, program'[d] = "test"
        PROVE  TestClaims(d)'
    BY <1>1, <1>2, <1>5, TestUndisturbed DEF WriterInv
  <1> QED BY <1>1, <1>2, <1>3, <1>4, <1>5 DEF WriterInv

\* A call of a print test.
LEMMA TestKeeps ==
  ASSUME NEW c \in Clients, WriterInv, program[c] = "test",
         T!TestStart(c) \/ T!TestStep(c),
         UNCHANGED <<sessionVars, job, program>>
  PROVE  WriterInv'
  <1>1. BusTypeOK /\ TypeOK /\ BusRules /\ tpc \in [Clients -> TestPcs]
    BY DEF WriterInv, TypeOK
  <1>2. BusTypeOK' /\ Polite(c) /\ printed' \subseteq Printers
    BY <1>1, TestPolite, TestPrints DEF TypeOK, SessionTypeOK
  <1>3. TypeOK' /\ BusRules'
    BY <1>1, <1>2, PoliteKeepsRules DEF TypeOK, ClaimTypeOK, SessionTypeOK,
       sessionVars, claimVars, callVars
  <1>4. ASSUME NEW d \in Clients, program'[d] = "session"
        PROVE  ClientInv(d)'
    BY <1>2, <1>4, SessionUndisturbed DEF sessionVars, WriterInv
  <1>5. ASSUME NEW d \in Clients, program'[d] = "test"
        PROVE  TestClaims(d)'
    <2>1. CASE d = c
      BY <1>1, <2>1, TestKeepsClaim DEF WriterInv
    <2>2. CASE d # c
      BY <1>1, <1>2, <1>5, <2>2, TestPcKept, TestUndisturbed DEF WriterInv
    <2> QED BY <2>1, <2>2
  <1> QED BY <1>1, <1>3, <1>4, <1>5, TestPcKept DEF WriterInv

\* An unplug takes the claim together with every live handle.
LEMMA GoesKeeps ==
  ASSUME NEW p \in Printers, WriterInv, PrinterGoes(p), UNCHANGED program
  PROVE  WriterInv'
  <1>1. BusTypeOK /\ TypeOK /\ BusRules
    BY DEF WriterInv, TypeOK
  <1>2. PrinterLeaves(p) /\ Unplug(p) /\ tpc' = tpc
    BY DEF PrinterGoes, PrinterLeaves
  <1>3. TypeOK' /\ \A c \in Clients : ClientInv(c) => ClientInv(c)'
    BY <1>1, <1>2, PrinterLeavesStep
  <1>4. BusRules'
    BY <1>1, <1>2, UnplugKills DEF BusRules
  <1>5. ASSUME NEW c \in Clients, TestClaims(c) PROVE TestClaims(c)'
    <2> SUFFICES ASSUME tpc[c] \in Sending, Live(c)'
                 PROVE  owner'[Printer(c)'] = c
      BY <1>2 DEF TestClaims, Printer
    <2>1. Live(c) /\ Printer(c) # p /\ Printer(c)' = Printer(c)
      BY <1>1, <1>2, UnplugKills
    <2>2. Printer(c) \in Printers
      BY <1>1, <2>1 DEF BusTypeOK, Live, Printer, Device, NoRef
    <2>3. owner' = [owner EXCEPT ![p] = NoClient] /\ owner[Printer(c)] = c
      BY <1>2, <1>5, <2>1 DEF Unplug, TestClaims
    <2> QED BY <1>1, <2>1, <2>2, <2>3 DEF BusTypeOK
  <1> QED BY <1>2, <1>3, <1>4, <1>5 DEF WriterInv

\* A plug makes an enumeration that nobody has claimed.
LEMMA ComesKeeps ==
  ASSUME NEW p \in Printers, WriterInv, PrinterComes(p), UNCHANGED program
  PROVE  WriterInv'
  <1>1. BusTypeOK /\ TypeOK /\ BusRules
    BY DEF WriterInv, TypeOK
  <1>2. PrinterArrives(p) /\ Plug(p) /\ tpc' = tpc
    BY DEF PrinterComes, PrinterArrives, testVars
  <1>3. TypeOK' /\ \A c \in Clients : ClientInv(c) => ClientInv(c)'
    BY <1>1, <1>2, PrinterArrivesStep
  <1>4. BusRules'
    BY <1>1, <1>2 DEF BusRules, BusTypeOK, Plug, Live, Printer
  <1> QED BY <1>2, <1>3, <1>4 DEF WriterInv, TestClaims, Plug, Live, Printer

\* Every step keeps the invariant, and so does a step of none.
LEMMA AllNextKeeps ==
  ASSUME WriterInv, [AllNext]_allVars PROVE WriterInv'
  <1>1. CASE UNCHANGED allVars
    <2>1. UNCHANGED <<plugged, driver, owner, handle, list, claimVars,
                      callVars, history, tpc, program>>
      BY <1>1 DEF allVars, vars, busVars, testVars
    <2>2. \A c \in Clients : ClientInv(c) => ClientInv(c)'
      BY <2>1, Unbothered
    <2> QED BY <2>1, <2>2 DEF WriterInv, TypeOK, BusTypeOK, ClaimTypeOK,
            SessionTypeOK, claimVars, callVars, history, BusRules, TestClaims,
            Live, Printer
  <1> QED BY <1>1, SessionKeeps, CheckKeeps, TestKeeps, GoesKeeps, ComesKeeps
          DEF AllNext, Acts

\* At the start nothing is open and nothing is claimed.
LEMMA AllInitHolds == AllInit => WriterInv
  <1> SUFFICES ASSUME AllInit PROVE WriterInv
    OBVIOUS
  <1>1. TypeOK /\ \A c \in Clients : ClientInv(c)
    BY InitInv DEF AllInit, SessionInv
  <1>2. /\ tpc = [c \in Clients |-> "off"]
        /\ handle = [c \in Clients |-> NoRef]
        /\ list = [c \in Clients |-> {}]
        /\ owner = [p \in Printers |-> NoClient]
    BY DEF AllInit, Init, BusInit, T!TestInit
  <1> QED BY <1>1, <1>2 DEF WriterInv, TestPcs, BusRules, TestClaims, Sending,
          Live, NoRef

\* What any number of programs keep together, in every reachable state.
THEOREM ProgramsInvariant == AllSpec => []WriterInv
  <1>1. WriterInv /\ [AllNext]_allVars => WriterInv'
    BY AllNextKeeps
  <1> QED BY <1>1, AllInitHolds, PTL DEF AllSpec

\* However many sessions, claim checks and print tests run side by side, a
\* printer in the middle of a job has one writer, which holds its interface
\* through usbfs, and usblp is not bound under it (usb_transport.c 222-230,
\* print_test.c 62-96, usb_claim.c 55-92; ARCHITECTURE.md, "Never allow
\* concurrent writers to one physical printer").
THEOREM OneWriterEach == AllSpec => []OneWriter
  <1>1. WriterInv => OneWriter
    <2> SUFFICES ASSUME WriterInv, NEW c \in Clients, MidJob(c)
                 PROVE  /\ owner[Printer(c)] = c
                        /\ driver[Printer(c)] = "none"
                        /\ \A d \in Clients \ {c} :
                              MidJob(d) => Printer(d) # Printer(c)
      BY DEF OneWriter
    <2>1. ASSUME NEW d \in Clients, MidJob(d)
          PROVE  owner[Printer(d)] = d /\ Printer(d) \in Printers
      <3>1. Live(d) /\ Printer(d) \in Printers
        BY <2>1 DEF WriterInv, TypeOK, BusTypeOK, MidJob, Live, Printer,
           Device, NoRef
      <3>2. CASE program[d] = "session"
        <4>1. pc[d] \in {"ready", "transfer"} /\ sess[d].held
          BY <2>1, <3>2 DEF MidJob
        <4>2. Control(d) /\ Claimed(d)
          BY <3>2 DEF WriterInv, ClientInv
        <4>3. owner[Printer(d)] = d
          BY <3>1, <4>1, <4>2 DEF Control, Claimed
        <4> QED BY <3>1, <4>3
      <3>3. CASE program[d] = "test"
        <4>1. tpc[d] \in Sending
          BY <2>1, <3>3 DEF MidJob, Sending
        <4>2. TestClaims(d)
          BY <3>3 DEF WriterInv
        <4> QED BY <3>1, <4>1, <4>2 DEF TestClaims
      <3> QED BY <2>1, <3>2, <3>3 DEF MidJob
    <2> QED BY <2>1, BusAssumption DEF WriterInv, BusRules
  <1> QED BY <1>1, ProgramsInvariant, PTL

-----------------------------------------------------------------------------
(* Who hands a printer back to usblp.                                      *)

\* What a program knows at the call that may attach usblp: a close has looked
\* the quirk up, and whoever undoes a detach has made it.
Owes(c) ==
    /\ program[c] = "session" =>
          /\ cpc[c] = "attach" => ~Quirk(Printer(c))
          /\ cpc[c] = "undo" => try[c].detached
    /\ program[c] = "check" => (kpc[c] = "attach" => detached[c])
    /\ program[c] = "test" => (tpc[c] = "undo" => undo[c])

\* Besides: what has printed is on the bus, and the locals are flags.
TakerInv ==
    /\ WriterInv
    /\ printed \subseteq plugged
    /\ kpc \in [Clients -> {"idle", "scan", "active", "detach", "claim",
                            "release", "attach"}]
    /\ detached \in [Clients -> BOOLEAN]
    /\ undo \in [Clients -> BOOLEAN]
    /\ \A c \in Clients : Owes(c)

\* Is bound again although it has printed and must not be.
Rebound(p) ==
    /\ p \in printed /\ p \in printed' /\ Quirk(p)
    /\ driver[p] # "usblp" /\ driver'[p] = "usblp"

\* What a step must show: the invariant, and who it was.
TakerOk ==
    /\ TakerInv'
    /\ \A p \in Printers :
          Rebound(p) => \E c \in Clients : Printer(c) = p /\ HandsBack(c)

\* A printer takes its bytes on the bus.
LEMMA PrintsPlugged ==
  ASSUME NEW c \in Clients, TypeOK, BusRules, Caller(c) \/ Session(c)
  PROVE  \/ printed' = printed
         \/ printed' = printed \cup {Printer(c)} /\ Printer(c) \in plugged
  <1>1. CASE TakeByte(c)
    BY <1>1 DEF TakeByte, BusRules
  <1>2. CASE OffBus(c)
    BY <1>1, <1>2, OffBusLeavesBus
  <1>3. CASE OnBus(c)
    BY <1>3 DEF OnBus, Open, ReopenWalk, CloseHandleStep, history
  <1> QED BY <1>2, <1>3, BusSplit

\* A session attaches in the undo of a walk, or where there is no quirk.
LEMMA SessionTakes ==
  ASSUME NEW c \in Clients, TakerInv, program[c] = "session",
         Caller(c) \/ Session(c), UNCHANGED <<checkVars, testVars, program>>
  PROVE  TakerOk
  <1>1. TypeOK /\ BusRules /\ ClientInv(c) /\ OwnInv(c) /\ Owes(c)
    BY DEF TakerInv, WriterInv, OwnInv
  <1>2. WriterInv' /\ OthersSame(c) /\ plugged' = plugged
    BY <1>1, SessionKeeps, ClientStep, ReferencesFrom DEF TakerInv, StepOk
  <1>3. printed' \subseteq plugged'
    BY <1>1, <1>2, PrintsPlugged DEF TakerInv
  <1>4. Owes(c)'
    <2>1. ASSUME cpc'[c] = "attach" PROVE ~Quirk(Printer(c)')
      BY <1>1, <2>1, AttachHasNoQuirk DEF Owes, Printer
    <2>2. ASSUME cpc'[c] = "undo" PROVE try'[c].detached
      BY <1>1, <2>2, UndoesOwnDetach DEF Owes
    <2> QED BY <2>1, <2>2 DEF Owes, Quirk, Printer
  <1>5. ASSUME NEW d \in Clients \ {c} PROVE Owes(d)'
    BY <1>2 DEF TakerInv, Owes, Quirk, OthersSame, Printer, checkVars,
       testVars
  <1>6. ASSUME NEW p \in Printers, Rebound(p)
        PROVE  Printer(c) = p /\ HandsBack(c)
    <2>1. Printer(c) = p /\ (Undo(c) \/ AttachBack(c))
      BY <1>1, <1>6, ClaimsAndDrivers DEF Rebound
    <2>2. Undo(c) /\ cpc[c] = "undo"
      BY <1>1, <1>6, <2>1 DEF Owes, Rebound, AttachBack, Undo, Goto
    <2> QED BY <1>1, <2>1, <2>2, UndoPrintedNothing DEF Owes, HandsBack
  <1> QED BY <1>2, <1>3, <1>4, <1>5, <1>6
          DEF TakerOk, TakerInv, checkVars, testVars

\* A claim check attaches after it has detached.
LEMMA CheckTakes ==
  ASSUME NEW c \in Clients, TakerInv, program[c] = "check",
         K!CheckStart(c) \/ K!Check(c),
         UNCHANGED <<sessionVars, history, testVars, program>>
  PROVE  TakerOk
  <1>1. BusTypeOK /\ Owes(c) /\ kpc \in [Clients -> {"idle", "scan", "active",
                                "detach", "claim", "release", "attach"}]
        /\ detached \in [Clients -> BOOLEAN]
    BY DEF TakerInv, WriterInv, TypeOK
  <1>2. WriterInv' /\ Polite(c)
    BY <1>1, CheckKeeps, CheckPolite DEF TakerInv
  <1> DEFINE Step == /\ kpc' \in [Clients -> {"idle", "scan", "active",
                           "detach", "claim", "release", "attach"}]
                     /\ detached' \in [Clients -> BOOLEAN]
                     /\ \A d \in Clients \ {c} :
                           kpc'[d] = kpc[d] /\ detached'[d] = detached[d]
                     /\ kpc'[c] = "attach" => detached'[c]
                     /\ \A p \in Printers :
                           \/ driver'[p] \in {driver[p], "none"}
                           \/ Printer(c) = p /\ K!CheckAttach(c)
  <1>3. Step
    <2> USE <1>1 DEF K!At, K!busVars
    <2>1. CASE K!CheckStart(c)
      BY <2>1 DEF K!CheckStart
    <2>2. CASE K!CheckEnd(c)
      BY <2>2 DEF K!CheckEnd
    <2>3. CASE K!CheckOpen(c)
      BY <2>3 DEF K!CheckOpen, K!CheckFails
    <2>4. CASE K!CheckDriver(c)
      BY <2>4 DEF K!CheckDriver, K!CheckFails
    <2>5. CASE K!CheckDetach(c)
      BY <2>5 DEF K!CheckDetach, K!CheckFails, K!DetachDriver, BusTypeOK
    <2>6. CASE K!CheckClaim(c)
      BY <2>6 DEF K!CheckClaim, K!CheckFails
    <2>7. CASE K!CheckRelease(c)
      BY <2>7 DEF K!CheckRelease
    <2>8. CASE K!CheckAttach(c)
      BY <2>8 DEF K!CheckAttach, K!AttachDriver, K!Printer, Printer, BusTypeOK
    <2> QED BY <2>1, <2>2, <2>3, <2>4, <2>5, <2>6, <2>7, <2>8 DEF K!Check
  <1>4. ASSUME NEW d \in Clients PROVE Owes(d)'
    <2>1. /\ UNCHANGED <<cpc, try, tpc, undo, program>>
          /\ program[d] = "session" => d # c
      BY DEF sessionVars, claimVars, testVars
    <2> QED BY <1>2, <1>3, <2>1 DEF TakerInv, Owes, Quirk, Polite, Printer
  <1>5. ASSUME NEW p \in Printers, Rebound(p)
        PROVE  Printer(c) = p /\ HandsBack(c)
    BY <1>1, <1>3, <1>5 DEF Rebound, HandsBack, Owes, K!CheckAttach, K!At
  <1>6. printed' \subseteq plugged'
    BY <1>2 DEF TakerInv, Polite, history
  <1> QED BY <1>2, <1>3, <1>4, <1>5, <1>6
          DEF TakerOk, TakerInv, testVars

\* So does a print test, in the undo of its walk.
LEMMA TestTakes ==
  ASSUME NEW c \in Clients, TakerInv, program[c] = "test",
         T!TestStart(c) \/ T!TestStep(c),
         UNCHANGED <<sessionVars, job, checkVars, program>>
  PROVE  TakerOk
  <1>1. /\ BusTypeOK /\ BusRules /\ Owes(c) /\ tpc \in [Clients -> TestPcs]
        /\ undo \in [Clients -> BOOLEAN]
    BY DEF TakerInv, WriterInv, TypeOK
  <1>2. WriterInv' /\ Polite(c)
    BY <1>1, TestKeeps, TestPolite DEF TakerInv
  <1> DEFINE Step == /\ undo' \in [Clients -> BOOLEAN]
                     /\ \A d \in Clients \ {c} :
                           tpc'[d] = tpc[d] /\ undo'[d] = undo[d]
                     /\ tpc'[c] = "undo" => undo'[c]
                     /\ \A p \in Printers :
                           \/ driver'[p] \in {driver[p], "none"}
                           \/ Printer(c) = p /\ T!TestUndo(c)
                     /\ \/ printed' = printed
                        \/ /\ printed' = printed \cup {Printer(c)}
                           /\ Live(c)
  <1>3. Step
    <2> USE <1>1 DEF T!Test, T!TestSkips, T!busVars
    <2>1. CASE T!TestStart(c) \/ T!TestRender(c) \/ T!TestGivesUp(c)
      BY <2>1 DEF T!TestStart, T!TestRender, T!TestGivesUp, T!sendVars,
         Owes
    <2>2. CASE T!TestList(c) \/ T!TestOpen(c) \/ T!TestNoPrinter(c)
      BY <2>2 DEF T!TestList, T!TestOpen, T!TestNoPrinter
    <2>3. CASE T!TestDriver(c)
      BY <2>3 DEF T!TestDriver
    <2>4. CASE T!TestDetach(c)
      BY <2>4 DEF T!TestDetach, T!DetachDriver, BusTypeOK
    <2>5. CASE T!TestClaim(c)
      BY <2>5 DEF T!TestClaim
    <2>6. CASE T!TestUndo(c)
      BY <2>6 DEF T!TestUndo, T!AttachDriver, T!Printer, Printer, BusTypeOK
    <2>7. CASE T!OpenZjs(c) \/ T!ReadZjs(c) \/ T!EndOfZjs(c)
      BY <2>7 DEF T!OpenZjs, T!ReadZjs, T!EndOfZjs, T!SendFails
    <2>8. CASE T!TestByte(c)
      BY <2>8 DEF T!TestByte, T!Live, T!Printer, Live, Printer
    <2>9. CASE T!SendOk(c) \/ T!SendError(c)
      BY <2>9 DEF T!SendOk, T!SendError, T!SendFails, T!Offset
    <2>10. CASE T!TestRelease(c)
      BY <2>10 DEF T!TestRelease
    <2> QED BY <2>1, <2>2, <2>3, <2>4, <2>5, <2>6, <2>7, <2>8, <2>9, <2>10
            DEF T!TestStep
  <1>4. ASSUME NEW d \in Clients PROVE Owes(d)'
    <2>1. /\ UNCHANGED <<cpc, try, kpc, detached, program>>
          /\ program[d] = "session" => d # c
      BY DEF sessionVars, claimVars, checkVars
    <2> QED BY <1>2, <1>3, <2>1 DEF TakerInv, Owes, Quirk, Polite, Printer
  <1>5. ASSUME NEW p \in Printers, Rebound(p)
        PROVE  Printer(c) = p /\ HandsBack(c)
    BY <1>1, <1>3, <1>5 DEF Rebound, HandsBack, Owes, T!TestUndo,
       T!TestSkips, T!Test
  <1>6. printed' \subseteq plugged'
    BY <1>1, <1>2, <1>3 DEF TakerInv, Polite, BusRules
  <1> QED BY <1>2, <1>3, <1>4, <1>5, <1>6
          DEF TakerOk, TakerInv, checkVars

\* The bus hands nothing back: what leaves has no driver any more, and what
\* comes has not printed.
LEMMA BusTakes ==
  ASSUME NEW p \in Printers, TakerInv, PrinterGoes(p) \/ PrinterComes(p),
         UNCHANGED program
  PROVE  TakerOk
  <1>1. BusTypeOK /\ WriterInv'
    BY GoesKeeps, ComesKeeps DEF TakerInv, WriterInv, TypeOK
  <1>2. UNCHANGED <<cpc, try, kpc, detached, tpc, undo>>
    BY DEF PrinterGoes, PrinterComes, PrinterLeaves, PrinterArrives, claimVars,
       K!CheckUnplugged, checkVars, testVars
  <1>3. /\ printed' \subseteq plugged'
        /\ \A d \in Clients : Printer(d)' = Printer(d)
        /\ \A q \in Printers : ~Rebound(q)
    <2>1. CASE PrinterGoes(p)
      <3>1. Unplug(p) /\ printed' = printed \ {p}
        BY <2>1 DEF PrinterGoes, PrinterLeaves
      <3>2. ASSUME NEW q \in Printers PROVE driver'[q] \in {driver[q], "none"}
        BY <1>1, <3>1 DEF Unplug, BusTypeOK
      <3>3. \A d \in Clients : Printer(d)' = Printer(d)
        BY <1>1, <3>1, UnplugKills
      <3>4. printed' \subseteq plugged'
        BY <3>1 DEF TakerInv, Unplug
      <3> QED BY <3>2, <3>3, <3>4 DEF Rebound
    <2>2. CASE PrinterComes(p)
      <3>1. Plug(p) /\ printed' = printed
        BY <2>2 DEF PrinterComes, PrinterArrives, history
      <3> QED BY <1>1, <3>1 DEF TakerInv, Rebound, Plug, BusTypeOK, Printer
    <2> QED BY <2>1, <2>2
  <1> QED BY <1>1, <1>2, <1>3 DEF TakerOk, TakerInv, Owes, Quirk

\* Every step keeps the invariant, and is no binding it does not allow.
LEMMA EveryStepTakes ==
  ASSUME TakerInv, [AllNext]_allVars PROVE TakerInv' /\ [TakerOk]_allVars
  <1>1. CASE AllNext
    BY <1>1, SessionTakes, CheckTakes, TestTakes, BusTakes
       DEF AllNext, Acts, TakerOk
  <1>2. CASE UNCHANGED allVars
    <2>1. /\ WriterInv'
          /\ UNCHANGED <<printed, plugged, handle, program, cpc, try, kpc,
                         detached, tpc, undo>>
      BY <1>2, AllNextKeeps DEF TakerInv, allVars, vars, busVars, claimVars,
         history, checkVars, testVars
    <2> QED BY <1>2, <2>1 DEF TakerInv, Owes, Quirk, Printer
  <1> QED BY <1>1, <1>2

\* At the start nothing has printed and nobody attaches.
LEMMA NobodyTakesYet == AllInit => TakerInv
  <1> SUFFICES ASSUME AllInit PROVE TakerInv
    OBVIOUS
  <1>1. /\ WriterInv /\ printed = {}
        /\ cpc = [c \in Clients |-> "idle"]
        /\ kpc = [c \in Clients |-> "idle"]
        /\ detached = [c \in Clients |-> FALSE]
        /\ tpc = [c \in Clients |-> "off"]
        /\ undo = [c \in Clients |-> FALSE]
    BY AllInitHolds DEF AllInit, Init, ClaimInit, K!CheckInit, T!TestInit
  <1> QED BY <1>1 DEF TakerInv, Owes

\* Whatever mix of sessions, claim checks and print tests: while a printer with
\* the no-reattach quirk that has printed stays plugged, usblp comes back to it
\* only through a program that had taken it off, in the undo of a claim that
\* failed or at the end of a check; never in the close of a session, nor by a
\* session that has had a byte taken (usb_transport.c 222-227, 552-555;
\* usb_claim.c 77-92; print_test.c 72-76).
THEOREM OnlyTakersHandBack == AllSpec => OnlyTakerHandsBack
  <1> DEFINE Ok == \A p \in printed :
               /\ p \in printed'
               /\ hplp_model_lookup(ProductOf[p]).no_reattach
               /\ driver[p] # "usblp" /\ driver'[p] = "usblp"
               => \E c \in Clients : Printer(c) = p /\ HandsBack(c)
  <1>1. TakerInv /\ [AllNext]_allVars => TakerInv' /\ [Ok]_allVars
    <2> SUFFICES ASSUME TakerInv, [AllNext]_allVars
                 PROVE  TakerInv' /\ [Ok]_allVars
      OBVIOUS
    <2>1. printed \subseteq Printers
      BY DEF TakerInv, WriterInv, TypeOK, SessionTypeOK
    <2>2. TakerOk => Ok
      BY <2>1 DEF TakerOk, Rebound, Quirk
    <2> QED BY <2>2, EveryStepTakes
  <1> QED BY <1>1, NobodyTakesYet, PTL DEF AllSpec, OnlyTakerHandsBack

-----------------------------------------------------------------------------
(* The jobs, for each kind of program.  What a print test knows of itself  *)
(* is what PrintTestProofs shows of it when tests are all there is.        *)

TP == INSTANCE PrintTestProofs WITH Processes <- Clients

\* The constants are those of a print test.
LEMMA TestConstants ==
  TP!RenderAssumption /\ TP!BusAssumption /\ TP!PrintAssumption
  BY ContentionAssumption, BusAssumption
     DEF TP!RenderAssumption, TP!BusAssumption, TP!PrintAssumption

\* The actions of a test are the same through either instance.
LEMMA SameActs ==
  ASSUME NEW c, T!TestStart(c) \/ T!TestStep(c) PROVE TP!Acts(c)
  <1> USE DEF T!Sys, TP!Sys, T!Files, TP!Files, T!Fds, TP!Fds, T!Return,
              TP!Return, T!RenderFails, TP!RenderFails, T!Test, TP!Test,
              T!Smaller, TP!Smaller, T!TestSkips, TP!TestSkips, T!SendFails,
              TP!SendFails, T!Offset, TP!Offset, T!CloseHandle,
              TP!CloseHandle, T!NoRef, TP!NoRef, T!Live, TP!Live, T!Printer,
              TP!Printer, T!busVars, TP!busVars, T!renderVars, TP!renderVars,
              T!sendVars, TP!sendVars
  <1>1. T!MakePs(c) <=> TP!MakePs(c)
    BY DEF T!MakePs, TP!MakePs
  <1>2. T!UnlinkPage(c) <=> TP!UnlinkPage(c)
    BY DEF T!UnlinkPage, TP!UnlinkPage
  <1>3. T!Wrapper(c) <=> TP!Wrapper(c)
    BY DEF T!Wrapper, TP!Wrapper
  <1>4. T!Render(c) <=> TP!Render(c)
    BY DEF T!Render, TP!Render, T!WriteSome, TP!WriteSome, T!ClosePs,
       TP!ClosePs, T!MakeZjs, TP!MakeZjs, T!Fork, TP!Fork, T!Wait, TP!Wait,
       T!Stat, TP!Stat
  <1>5. T!TestList(c) <=> TP!TestList(c)
    BY DEF T!TestList, TP!TestList
  <1>6. T!TestOpen(c) <=> TP!TestOpen(c)
    BY DEF T!TestOpen, TP!TestOpen
  <1>7. T!TestDriver(c) <=> TP!TestDriver(c)
    BY DEF T!TestDriver, TP!TestDriver
  <1>8. T!TestDetach(c) <=> TP!TestDetach(c)
    BY DEF T!TestDetach, TP!TestDetach, T!DetachDriver, TP!DetachDriver
  <1>9. T!TestClaim(c) <=> TP!TestClaim(c)
    BY DEF T!TestClaim, TP!TestClaim, T!ClaimInterface, TP!ClaimInterface,
       T!Blank, TP!Blank
  <1>10. T!TestUndo(c) <=> TP!TestUndo(c)
    BY DEF T!TestUndo, TP!TestUndo, T!AttachDriver, TP!AttachDriver
  <1>11. T!OpenZjs(c) <=> TP!OpenZjs(c)
    BY DEF T!OpenZjs, TP!OpenZjs
  <1>12. T!ReadZjs(c) <=> TP!ReadZjs(c)
    BY DEF T!ReadZjs, TP!ReadZjs
  <1>13. T!EndOfZjs(c) <=> TP!EndOfZjs(c)
    BY DEF T!EndOfZjs, TP!EndOfZjs
  <1>14. T!TestByte(c) <=> TP!TestByte(c)
    BY DEF T!TestByte, TP!TestByte
  <1>15. T!SendOk(c) <=> TP!SendOk(c)
    BY DEF T!SendOk, TP!SendOk
  <1>16. T!SendError(c) <=> TP!SendError(c)
    BY DEF T!SendError, TP!SendError
  <1> QED BY <1>1, <1>2, <1>3, <1>4, <1>5, <1>6, <1>7, <1>8, <1>9, <1>10,
             <1>11, <1>12, <1>13, <1>14, <1>15, <1>16
          DEF TP!Acts, T!TestStart, TP!TestStart, T!TestRender,
              TP!TestRender, T!TestGivesUp, TP!TestGivesUp, T!TestNoPrinter,
              TP!TestNoPrinter, T!TestRelease, TP!TestRelease,
              T!ReleaseInterface, TP!ReleaseInterface, T!TestStep,
              TP!TestStep

\* So is its stream.
LEMMA SameStream ==
  ASSUME NEW c PROVE T!StreamStep(c) <=> TP!StreamStep(c)
  BY DEF T!Phase, TP!Phase, T!StreamStep, TP!StreamStep, T!Stream!streamVars,
     TP!Stream!streamVars, T!Stream!SNext, TP!Stream!SNext, T!Stream!SOpen,
     TP!Stream!SOpen, T!Stream!Fresh, TP!Stream!Fresh, T!Stream!SWrite,
     TP!Stream!SWrite, T!Stream!STake, TP!Stream!STake, T!Stream!SDone,
     TP!Stream!SDone, T!Stream!SFail, TP!Stream!SFail, T!Stream!SWriteOn,
     TP!Stream!SWriteOn, T!Stream!STakeBehind, TP!Stream!STakeBehind,
     T!Stream!STear, TP!Stream!STear, T!Stream!SClose, TP!Stream!SClose

\* Besides WriterInv: each test knows what it would know alone.
StreamsInv ==
    /\ WriterInv /\ TP!Types
    /\ \A c \in Clients : program[c] = "test" => TP!ClientInv(c)

\* What each step is to every job.
AllStreams ==
    \A c \in Clients : /\ program[c] = "session" => StreamStep(c)
                       /\ program[c] = "test" => T!StreamStep(c)

\* A test knows the same after a polite step of another program.
LEMMA TestStays ==
  ASSUME NEW e \in Clients, Polite(e), BusTypeOK', TP!Types,
         UNCHANGED testVars
  PROVE  /\ TP!Types'
         /\ \A d \in Clients \ {e} :
               TP!ClientInv(d) => TP!ClientInv(d)' /\ T!StreamStep(d)
  <1>1. TP!TestTypeOK' /\ TP!RenderInv'
    BY DEF testVars, TP!Types, TP!TestTypeOK, TP!RenderTypeOK, TP!RenderInv,
       TP!Shape, TP!PageRec
  <1>2. TP!Types'
    BY <1>1 DEF TP!Types, TP!BusTypeOK, TP!Device, TP!Drivers, TP!NoRef,
       BusTypeOK, Device, Drivers, NoRef
  <1>3. TP!OthersSame(e)
    BY PoliteToOthers DEF testVars, TP!OthersSame
  <1>4. ASSUME NEW d \in Clients \ {e}, TP!ClientInv(d)
        PROVE  TP!ClientInv(d)' /\ T!StreamStep(d)
    BY <1>3, <1>4, TestConstants, SameStream, TP!OthersKept, TP!Unseen
       DEF testVars
  <1> QED BY <1>2, <1>4

\* A session writes.
LEMMA SessionStreams ==
  ASSUME NEW c \in Clients, StreamsInv, program[c] = "session",
         Caller(c) \/ Session(c), UNCHANGED <<testVars, program>>
  PROVE  StreamsInv' /\ AllStreams
  <1>1. OwnInv(c) /\ WriterInv'
    BY SessionKeeps DEF StreamsInv, WriterInv, OwnInv
  <1>2. Polite(c) /\ StepOk(c) /\ BusTypeOK'
    BY <1>1, ClientStep, SessionPolite DEF WriterInv, TypeOK
  <1>3. ASSUME NEW d \in Clients, program[d] = "session" PROVE StreamStep(d)
    <2>1. CASE d = c
      BY <1>1, <2>1, OpenStream, WriteStream, TakeStream, TransferStream,
         ReopenStream, CloseStream DEF Caller, Session
    <2>2. CASE d # c
      BY <1>2, <2>2, Unseen DEF StepOk, OthersSame, BytesSame
    <2> QED BY <2>1, <2>2
  <1> QED BY <1>1, <1>2, <1>3, TestStays DEF StreamsInv, AllStreams

\* A claim check is part of no job.
LEMMA CheckStreams ==
  ASSUME NEW c \in Clients, StreamsInv, program[c] = "check",
         K!CheckStart(c) \/ K!Check(c),
         UNCHANGED <<sessionVars, history, testVars, program>>
  PROVE  StreamsInv' /\ AllStreams
  <1>1. WriterInv' /\ Polite(c) /\ BusTypeOK'
    BY CheckKeeps, CheckPolite DEF StreamsInv, WriterInv, TypeOK
  <1>2. ASSUME NEW d \in Clients PROVE StreamStep(d)
    BY Unseen DEF sessionVars, callVars, history
  <1> QED BY <1>1, <1>2, TestStays DEF StreamsInv, AllStreams

\* A print test sends.
LEMMA TestStreams ==
  ASSUME NEW c \in Clients, StreamsInv, program[c] = "test",
         T!TestStart(c) \/ T!TestStep(c),
         UNCHANGED <<sessionVars, job, program>>
  PROVE  StreamsInv' /\ AllStreams
  <1>1. TP!OwnInv(c) /\ TP!Acts(c) /\ WriterInv'
    BY SameActs, TestKeeps DEF StreamsInv, TP!OwnInv
  <1>2. TP!Types' /\ TP!ClientInv(c)' /\ TP!OthersSame(c)
    BY <1>1, TestConstants, TP!StepKept
  <1>3. ASSUME NEW d \in Clients, program[d] = "test"
        PROVE  TP!ClientInv(d)' /\ T!StreamStep(d)
    <2>1. CASE d = c
      BY <1>1, <1>2, <2>1, TestConstants, SameStream, TP!ActsStream
    <2>2. CASE d # c
      BY <1>2, <1>3, <2>2, TestConstants, SameStream, TP!OthersKept,
         TP!Unseen DEF StreamsInv, TP!OthersSame
    <2> QED BY <2>1, <2>2
  <1>4. ASSUME NEW d \in Clients PROVE StreamStep(d)
    BY Unseen DEF sessionVars, callVars
  <1> QED BY <1>1, <1>2, <1>3, <1>4 DEF StreamsInv, AllStreams

\* A printer leaves, and tears the jobs it was taking.
LEMMA GoesStreams ==
  ASSUME NEW p \in Printers, StreamsInv, PrinterGoes(p), UNCHANGED program
  PROVE  StreamsInv' /\ AllStreams
  <1>1. WriterInv' /\ PrinterLeaves(p)
    BY GoesKeeps DEF StreamsInv, PrinterGoes
  <1>2. TP!Leaves(p)
    BY DEF PrinterGoes, PrinterLeaves, Unplug, Stale, T!PageTears,
       TP!Leaves, TP!Unplug, TP!Stale, TP!PageTears, TP!NoRef, TP!renderVars,
       TP!sendVars
  <1>3. TP!Types' /\ \A c \in Clients : TP!ClientInv(c) => TP!ClientInv(c)'
    BY <1>2, TestConstants, TP!LeavesKept DEF StreamsInv
  <1>4. ASSUME NEW c \in Clients, program[c] = "session" PROVE StreamStep(c)
    BY <1>1, <1>4, LeaveStream DEF StreamsInv, WriterInv, OwnInv
  <1>5. ASSUME NEW c \in Clients, program[c] = "test" PROVE T!StreamStep(c)
    BY <1>2, <1>5, TestConstants, SameStream, TP!LeavesStream
       DEF StreamsInv, TP!OwnInv
  <1> QED BY <1>1, <1>3, <1>4, <1>5 DEF StreamsInv, AllStreams

\* A printer comes, and nothing is open to it yet.
LEMMA ComesStreams ==
  ASSUME NEW p \in Printers, StreamsInv, PrinterComes(p), UNCHANGED program
  PROVE  StreamsInv' /\ AllStreams
  <1>1. WriterInv' /\ UNCHANGED <<pc, job, testVars>>
    BY ComesKeeps DEF StreamsInv, PrinterComes, PrinterArrives, callVars,
       history
  <1>2. TP!Arrives(p)
    BY DEF PrinterComes, PrinterArrives, history, testVars, Plug, Drivers,
       TP!Arrives, TP!Plug, TP!Drivers, TP!testVars, TP!renderVars,
       TP!sendVars
  <1>3. TP!Types' /\ \A c \in Clients : TP!ClientInv(c) => TP!ClientInv(c)'
    BY <1>2, TestConstants, TP!ArrivesKept DEF StreamsInv
  <1>4. ASSUME NEW c \in Clients PROVE StreamStep(c) /\ T!StreamStep(c)
    BY <1>1, TestConstants, SameStream, Unseen, TP!Unseen DEF testVars
  <1> QED BY <1>1, <1>3, <1>4 DEF StreamsInv, AllStreams

\* Every step keeps StreamsInv and is a step, or none, of every job.
LEMMA StreamsKept ==
  ASSUME StreamsInv, [AllNext]_allVars
  PROVE  StreamsInv' /\ [AllStreams]_allVars
  <1>1. CASE AllNext
    BY <1>1, SessionStreams, CheckStreams, TestStreams, GoesStreams,
       ComesStreams DEF AllNext, Acts
  <1>2. CASE UNCHANGED allVars
    <2>1. UNCHANGED <<TP!busVars, TP!testVars>> /\ program' = program
      BY <1>2 DEF allVars, vars, busVars, testVars, TP!busVars, TP!testVars,
         TP!renderVars, TP!sendVars
    <2>2. TP!Types' /\ \A c \in Clients : TP!ClientInv(c) => TP!ClientInv(c)'
      BY <2>1, TestConstants, TP!StaysKept DEF StreamsInv
    <2> QED BY <1>2, <2>1, <2>2, AllNextKeeps DEF StreamsInv
  <1> QED BY <1>1, <1>2

\* At the start no job has a byte.
LEMMA StreamsStart == AllInit => StreamsInv
  <1> SUFFICES ASSUME AllInit PROVE StreamsInv
    OBVIOUS
  <1>1. TP!BusInit /\ TP!TestInit
    BY DEF AllInit, Init, BusInit, NoRef, Drivers, TP!BusInit, TP!Drivers,
       TP!NoRef, T!TestInit, TP!TestInit, T!RenderInit, TP!RenderInit,
       T!Blank, TP!Blank
  <1>2. TP!Types /\ \A c \in Clients : TP!ClientInv(c)
    BY <1>1, TestConstants, TP!InitTypes
  <1> QED BY <1>2, AllInitHolds DEF StreamsInv

\* However many programs contend for however many printers: each session, and
\* each page of a print test, stays a job stream, with every byte once and in
\* order, all of them when it counts as sent and none on a torn job
\* (usb_transport.c 396-556, print_test.c 98-170).
THEOREM EveryJobStreams == AllSpec => EveryJobAStream
  <1>1. StreamsInv /\ [AllNext]_allVars => StreamsInv' /\ [AllStreams]_allVars
    BY StreamsKept
  <1> QED BY <1>1, StreamsStart, PTL
          DEF AllSpec, EveryJobAStream, AllStreams
=============================================================================
