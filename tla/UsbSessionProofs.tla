-------------------------- MODULE UsbSessionProofs --------------------------
(***************************************************************************)
(* Proofs about UsbSession, for any sets of printers and of clients, any   *)
(* model table, chunk size, number of reconnect attempts and caller.       *)
(*                                                                         *)
(* The inductive invariant is SessionInv (UsbSessionInv).  A step of one   *)
(* client shows StepOk: its own part of the invariant afterwards, and that *)
(* the other clients see nothing of it (OthersSame); OthersKept carries    *)
(* the rest over.  The two steps of the environment touch everybody.       *)
(* The refinement of JobStream, at the end, rests on the same invariant.   *)
(***************************************************************************)
EXTENDS UsbSessionInv, TLAPS

USE BusAssumption, SessionAssumption

-----------------------------------------------------------------------------
(* Types.  The string sets stay folded: the provers are quicker with these *)
(* facts about them.                                                       *)

\* The result codes, as facts that do not need the set unfolded.
LEMMA CodeFacts ==
    "SUCCESS" \in Codes /\ "ERROR" \in Codes /\ "NO_DEVICE" \in Codes
  BY DEF Codes

\* A libusb call that failed reports a code, and never success.
LEMMA ErrorOfCode ==
  ASSUME NEW r PROVE ErrorOf(r) \in Codes /\ ErrorOf(r) # "SUCCESS"
  BY DEF ErrorOf, Codes

\* A failed or finished transfer updates two fields of the session record.
LEMMA SessUpdate ==
  ASSUME NEW f \in [Clients -> SessRec], NEW c \in Clients, NEW n \in Nat,
         NEW e \in Codes
  PROVE  [f EXCEPT ![c].accepted = n, ![c].last_error = e]
            \in [Clients -> SessRec]
  BY DEF SessRec

\* So does a write that begins, with the history record.
LEMMA JobUpdate ==
  ASSUME NEW f \in [Clients -> JobRec], NEW c \in Clients, NEW n \in Nat,
         NEW b \in BOOLEAN
  PROVE  [f EXCEPT ![c].sent = n, ![c].failed = b] \in [Clients -> JobRec]
  BY DEF JobRec

\* What the counters of a client are.
LEMMA CounterTypes ==
  ASSUME TypeOK, NEW c \in Clients
  PROVE  /\ job[c].sent \in Nat /\ job[c].got \in Seq(Nat)
         /\ job[c].failed \in BOOLEAN /\ job[c].torn \in BOOLEAN
         /\ begun[c] \in BOOLEAN
         /\ sess[c].accepted \in Nat /\ left[c] \in Nat /\ wire[c] \in Nat
         /\ \A i \in 1..Len(job[c].got) : job[c].got[i] \in Nat
  <1>1. job[c] \in JobRec /\ sess[c] \in SessRec
    BY DEF TypeOK, SessionTypeOK, ClaimTypeOK
  <1> QED BY <1>1 DEF TypeOK, SessionTypeOK, JobRec, SessRec

\* Every variable has its type before anything happens.
LEMMA InitTypeOK == Init => TypeOK
  BY DEF Init, BusInit, ClaimInit, TypeOK, BusTypeOK, ClaimTypeOK,
         SessionTypeOK, Drivers, Device, NoRef, Codes, Serials, ClosedSession,
         NewJob, ClaimPcs, TryRec, SessRec, Pcs, JobRec

-----------------------------------------------------------------------------
(* What a step of one client leaves alone.                                 *)

\* The bytes of c's job, and the counters of its write call.
BytesSame(c) ==
    /\ pc'[c] = pc[c] /\ job'[c] = job[c]
    /\ wire'[c] = wire[c] /\ left'[c] = left[c] /\ begun'[c] = begun[c]
    /\ sess'[c].accepted = sess[c].accepted

BytesInv(c) == Counters(c) /\ Increasing(c) /\ TornIsDead(c) /\ Complete(c)

\* A step that leaves the bytes and counters of c alone keeps what they say,
\* unless it revives a dead handle between the calls of c.
LEMMA BytesKept ==
  ASSUME NEW c \in Clients, BytesInv(c), BytesSame(c),
         pc[c] \in {"ready", "transfer"} => (Live(c)' => Live(c))
  PROVE  BytesInv(c)'
  BY DEF BytesInv, BytesSame, Counters, Increasing, TornIsDead, Complete

\* Everything a client other than c reads of itself.
OthersSame(c) ==
    \A d \in Clients \ {c} :
        /\ BytesSame(d)
        /\ cpc'[d] = cpc[d] /\ want'[d] = want[d] /\ try'[d] = try[d]
        /\ result'[d] = result[d] /\ sess'[d] = sess[d]
        /\ handle'[d] = handle[d]
        /\ \A p \in Printers : owner'[p] = d <=> owner[p] = d

\* What a step of c leaves alone keeps the invariant of every other client.
LEMMA OthersKept ==
  ASSUME NEW c \in Clients, NEW d \in Clients \ {c}, ClientInv(d),
         OthersSame(c)
  PROVE  ClientInv(d)'
  <1>1. ClientInv(d) /\ BytesInv(d)
    BY DEF ClientInv, BytesInv
  <1>2. BytesInv(d)'
    BY <1>1, BytesKept DEF OthersSame, Live
  <1>3. Control(d)' /\ Holding(d)'
    BY <1>1 DEF OthersSame, BytesSame, ClientInv, Control, Holding, Printer
  <1>4. Target(d)'
    BY <1>1 DEF OthersSame, BytesSame, ClientInv, Target, Printer
  <1>5. Claimed(d)'
    BY <1>1 DEF OthersSame, BytesSame, ClientInv, Claimed, Holding, Target,
                Printer, Live
  <1> QED BY <1>2, <1>3, <1>4, <1>5 DEF ClientInv, BytesInv

-----------------------------------------------------------------------------
(* The steps of one client, one lemma per action: types, its own part of   *)
(* the invariant, and nothing of the others.                               *)

\* What the steps of a session rely on: nothing of the invariants of others,
\* so that these may be sessions or other programs.
OwnInv(c) == TypeOK /\ ClientInv(c)

StepOk(c) == TypeOK' /\ ClientInv(c)' /\ OthersSame(c)

\* Starting a walk over the device list (lines 252-309, 413-447).
LEMMA StartWalkTypes ==
  ASSUME NEW c \in Clients, NEW from, NEW expected \in Serials, NEW among,
         TypeOK, StartWalk(c, from, expected, among)
  PROVE  /\ BusTypeOK'
         /\ cpc' \in [Clients -> ClaimPcs] /\ want' \in [Clients -> Serials]
         /\ try' \in [Clients -> TryRec] /\ result' \in [Clients -> Codes]
  <1>1. \A q \in plugged : [dev |-> q, live |-> TRUE] \in Device
    BY DEF TypeOK, BusTypeOK, Device
  <1>2. {[dev |-> q, live |-> TRUE] : q \in plugged \cap among}
           \in SUBSET Device
    BY <1>1
  <1>3. list' \in [Clients -> SUBSET Device]
    BY <1>2 DEF TypeOK, BusTypeOK, StartWalk
  <1>4. UNCHANGED <<plugged, driver, owner, handle, try>>
    BY DEF StartWalk
  <1>5. BusTypeOK'
    BY <1>3, <1>4 DEF TypeOK, BusTypeOK
  <1>6. cpc' \in [Clients -> ClaimPcs]
    BY DEF TypeOK, ClaimTypeOK, StartWalk, Goto, ClaimPcs
  <1>7. want' \in [Clients -> Serials] /\ result' \in [Clients -> Codes]
    BY CodeFacts DEF TypeOK, ClaimTypeOK, StartWalk
  <1> QED BY <1>4, <1>5, <1>6, <1>7 DEF TypeOK, ClaimTypeOK

\* hplp_usb_session_open begins (lines 396-447).
LEMMA OpenStep ==
  ASSUME NEW c \in Clients, NEW p \in Printers, OwnInv(c), Open(c, p)
  PROVE  StepOk(c)
  <1>1. TypeOK /\ ClientInv(c)
    BY DEF OwnInv
  <1>2. BusTypeOK'
    BY <1>1, StartWalkTypes DEF Open, Serials
  <1>3. ClaimTypeOK'
    <2>1. sess' \in [Clients -> SessRec]
      BY <1>1, CodeFacts DEF TypeOK, ClaimTypeOK, Open, SessRec,
         ClosedSession, Serials
    <2> QED BY <1>1, <2>1, StartWalkTypes DEF Open, Serials, ClaimTypeOK
  <1>4. SessionTypeOK'
    BY <1>1 DEF TypeOK, SessionTypeOK, Open, Call, Pcs, JobRec, NewJob, Serials
  <1>5. OthersSame(c)
    BY <1>1 DEF TypeOK, BusTypeOK, ClaimTypeOK, SessionTypeOK, OthersSame,
       BytesSame, Open, StartWalk, Goto, Call
  <1>6. /\ pc'[c] = "opening" /\ cpc'[c] \in {"scan", "done"}
        /\ result'[c] # "SUCCESS"
        /\ pc[c] = "none" /\ cpc[c] = "idle"
        /\ want'[c] = p /\ sess'[c] = ClosedSession /\ job'[c] = NewJob(p)
        /\ wire'[c] = wire[c] /\ handle' = handle /\ owner' = owner
    BY <1>1 DEF TypeOK, BusTypeOK, ClaimTypeOK, SessionTypeOK, Open,
       StartWalk, Goto, Call
  <1>7. handle[c] = NoRef /\ wire[c] = 0 /\ \A q \in Printers : owner[q] # c
    BY <1>1, <1>6 DEF ClientInv, Holding, Claimed, Counters, Opened
  <1>8. Control(c)' /\ Holding(c)' /\ Target(c)' /\ Claimed(c)'
    BY <1>6, <1>7 DEF Control, Holding, Target, Claimed, Walking, Opened,
       ClosedSession, NewJob, Live, NoRef
  <1>9. Counters(c)' /\ Increasing(c)' /\ TornIsDead(c)' /\ Complete(c)'
    BY <1>6, <1>7 DEF Counters, Increasing, TornIsDead, Complete,
       ClosedSession, NewJob
  <1> QED BY <1>2, <1>3, <1>4, <1>5, <1>8, <1>9 DEF StepOk, TypeOK, ClientInv

\* hplp_usb_session_open returns with a session or without one.
LEMMA OpenDoneStep ==
  ASSUME NEW c \in Clients, OwnInv(c), OpenDone(c)
  PROVE  StepOk(c)
  <1>1. TypeOK /\ ClientInv(c)
    BY DEF OwnInv
  <1>2. TypeOK'
    BY <1>1 DEF TypeOK, BusTypeOK, ClaimTypeOK, SessionTypeOK, OpenDone,
       busVars, history, Call, Goto, Pcs, ClaimPcs
  <1>3. OthersSame(c)
    BY <1>1 DEF TypeOK, ClaimTypeOK, SessionTypeOK, OthersSame, BytesSame,
       OpenDone, busVars, history, Goto, Call
  <1>4. /\ pc[c] = "opening" /\ cpc[c] = "done" /\ cpc'[c] = "idle"
        /\ pc'[c] = IF result[c] = "SUCCESS" THEN "ready" ELSE "none"
        /\ UNCHANGED <<busVars, want, try, result, sess, left, begun, wire,
                       attempt, history>>
    BY <1>1 DEF TypeOK, ClaimTypeOK, SessionTypeOK, OpenDone, Goto, Call
  <1>5. /\ job' = job /\ sess' = sess /\ handle' = handle /\ owner' = owner
        /\ pc'[c] \in {"ready", "none"}
        /\ pc'[c] = "ready" => sess[c].held
        /\ pc'[c] = "none" => ~sess[c].held
    BY <1>1, <1>4 DEF busVars, history, ClientInv, Holding
  <1>6. Control(c)'
    BY <1>4, <1>5 DEF Control
  <1>7. Holding(c)'
    BY <1>1, <1>4, <1>5 DEF ClientInv, Holding, Opened
  <1>8. Target(c)'
    BY <1>1, <1>4, <1>5 DEF ClientInv, Target, Opened, Walking, Printer
  <1>9. Claimed(c)'
    BY <1>1, <1>4, <1>5 DEF ClientInv, Claimed, Live, Printer
  <1>10. job[c].sent = 0 /\ sess[c].accepted = 0 /\ ~job[c].torn
    BY <1>1, <1>4 DEF ClientInv, Counters
  <1>11. Counters(c)' /\ TornIsDead(c)'
    BY <1>1, <1>4, <1>5, <1>10 DEF ClientInv, Counters, TornIsDead
  <1>12. Increasing(c)' /\ Complete(c)'
    BY <1>1, <1>4, <1>5, <1>10 DEF ClientInv, Increasing, Complete
  <1> QED BY <1>2, <1>3, <1>6, <1>7, <1>8, <1>9, <1>11, <1>12
          DEF StepOk, ClientInv

\* hplp_usb_session_write begins, with a handle or without (lines 459-488).
LEMMA WriteStep ==
  ASSUME NEW c \in Clients, NEW n \in 1..MaxWrite, OwnInv(c), Write(c, n)
  PROVE  StepOk(c)
  <1>1. TypeOK /\ ClientInv(c)
    BY DEF OwnInv
  <1>2. UNCHANGED <<busVars, cpc, want, try, result, wire, printed>>
    BY DEF Write
  <1>3. BusTypeOK'
    BY <1>1, <1>2 DEF TypeOK, BusTypeOK, busVars
  <1>4. ClaimTypeOK'
    <2>1. sess' \in [Clients -> SessRec]
      <3>1. PICK e \in Codes : sess' = [sess EXCEPT ![c].last_error = e]
        BY CodeFacts DEF Write
      <3> QED BY <1>1, <3>1 DEF TypeOK, ClaimTypeOK, SessRec
    <2> QED BY <1>1, <1>2, <2>1 DEF TypeOK, ClaimTypeOK
  <1>5. SessionTypeOK'
    <2>1. job' \in [Clients -> JobRec]
      <3>1. PICK b \in BOOLEAN :
              job' = [job EXCEPT ![c].sent = job[c].sent + n,
                                 ![c].failed = b]
        <4>1. CASE sess[c].held
          <5>1. job' = [job EXCEPT ![c].sent = @ + n]
            BY <4>1 DEF Write
          <5>2. job' = [job EXCEPT ![c].sent = job[c].sent + n,
                                   ![c].failed = job[c].failed]
            BY <1>1, <5>1 DEF TypeOK, SessionTypeOK, JobRec
          <5> QED BY <1>1, <5>2, CounterTypes
        <4>2. CASE ~sess[c].held
          BY <4>2, <1>1, CounterTypes DEF Write, ReplaySafe
        <4> QED BY <4>1, <4>2
      <3>2. job[c].sent + n \in Nat
        BY <1>1, CounterTypes
      <3> QED BY <1>1, <3>1, <3>2, JobUpdate DEF TypeOK, SessionTypeOK
    <2>2. pc' \in [Clients -> Pcs]
      BY <1>1 DEF TypeOK, SessionTypeOK, Write, Call, Pcs
    <2> QED BY <1>1, <1>2, <2>1, <2>2 DEF TypeOK, SessionTypeOK, Write
  <1>6. OthersSame(c)
    BY <1>1, <1>2 DEF TypeOK, BusTypeOK, ClaimTypeOK, SessionTypeOK, busVars,
       OthersSame, BytesSame, Write, Call
  <1>7. /\ pc[c] = "ready" /\ left'[c] = n /\ begun'[c] = FALSE
        /\ pc'[c] = IF sess[c].held THEN "transfer"
                    ELSE IF ReplaySafe(c) THEN "reconnect" ELSE "ready"
        /\ job'[c].sent = job[c].sent + n
        /\ job'[c].got = job[c].got /\ job'[c].torn = job[c].torn
        /\ job'[c].to = job[c].to
        /\ job'[c].failed = (job[c].failed
                               \/ (~sess[c].held /\ ~ReplaySafe(c)))
        /\ sess'[c].held = sess[c].held
        /\ sess'[c].serial = sess[c].serial
        /\ sess'[c].accepted = sess[c].accepted
    BY <1>1 DEF TypeOK, ClaimTypeOK, SessionTypeOK, Write, Call, JobRec,
       SessRec
  <1>8. /\ cpc'[c] = cpc[c] /\ want'[c] = want[c] /\ try'[c] = try[c]
        /\ handle'[c] = handle[c] /\ owner' = owner /\ wire'[c] = wire[c]
        /\ cpc[c] = "idle" /\ result' = result
    BY <1>1, <1>2, <1>7 DEF busVars, ClientInv, Control
  <1>9. Control(c)' /\ Holding(c)'
    BY <1>1, <1>7, <1>8 DEF ClientInv, Control, Holding, Opened, Printer
  <1>10. Target(c)' /\ Claimed(c)'
    BY <1>1, <1>7, <1>8 DEF ClientInv, Target, Claimed, Opened, Walking,
       Printer, Live
  <1>11. Counters(c)'
    BY <1>1, <1>7, <1>8 DEF ClientInv, Counters, ReplaySafe, TypeOK,
       SessionTypeOK, ClaimTypeOK, JobRec, SessRec
  <1>12. Increasing(c)'
    <2>1. /\ wire[c] = 0
          /\ \A i \in 1..Len(job[c].got) :
                job[c].got[i] \in Nat /\ job[c].got[i] <= job[c].sent
      BY <1>1, <1>7, CounterTypes DEF ClientInv, Increasing, Counters
    <2>2. /\ job[c].sent \in Nat
          /\ job[c].sent <= job'[c].sent
          /\ job[c].sent = job'[c].sent - left'[c] + wire'[c]
      BY <1>1, <1>7, <1>8, <2>1, CounterTypes
    <2> QED BY <1>1, <1>7, <2>1, <2>2 DEF ClientInv, Increasing
  <1>13. TornIsDead(c)'
    BY <1>1, <1>7, <1>8 DEF ClientInv, TornIsDead, Live
  <1>14. Complete(c)'
    <2>1. job[c].sent = job'[c].sent - left'[c]
      BY <1>1, <1>7, CounterTypes
    <2> QED BY <1>1, <1>7, <2>1 DEF ClientInv, Complete, Holding
  <1> QED BY <1>3, <1>4, <1>5, <1>6, <1>9, <1>10, <1>11, <1>12, <1>13, <1>14
          DEF StepOk, TypeOK, ClientInv

\* The printer takes a byte: the only step that adds to a job.
LEMMA TakeByteStep ==
  ASSUME NEW c \in Clients, OwnInv(c), TakeByte(c)
  PROVE  StepOk(c)
  <1>1. TypeOK /\ ClientInv(c)
    BY DEF OwnInv
  <1> DEFINE b == job[c].sent - left[c] + wire[c] + 1
  <1>2. /\ UNCHANGED <<busVars, claimVars, pc, left, begun, attempt>>
        /\ pc[c] = "transfer" /\ Live(c) /\ wire[c] < left[c]
        /\ wire' = [wire EXCEPT ![c] = @ + 1]
        /\ job' = [job EXCEPT ![c].got = Append(@, b)]
    BY DEF TakeByte
  <1>3. b \in Nat /\ b > 0
    <2>1. job[c].sent \in Nat /\ left[c] \in Nat /\ wire[c] \in Nat
      BY <1>1, CounterTypes
    <2>2. left[c] <= job[c].sent
      BY <1>1, <1>2 DEF ClientInv, Counters
    <2> QED BY <2>1, <2>2
  <1>4. job' \in [Clients -> JobRec]
    <2>1. Append(job[c].got, b) \in Seq(Nat)
      BY <1>1, <1>3, CounterTypes
    <2> HIDE DEF b
    <2> QED BY <1>1, <1>2, <2>1 DEF TypeOK, SessionTypeOK, JobRec
  <1>5. Printer(c) \in Printers
    BY <1>1, <1>2 DEF ClientInv, Target, Holding
  <1>6. TypeOK'
    BY <1>1, <1>2, <1>4, <1>5 DEF TypeOK, BusTypeOK, ClaimTypeOK,
       SessionTypeOK, busVars, claimVars, TakeByte
  <1>7. OthersSame(c)
    BY <1>1, <1>2 DEF TypeOK, SessionTypeOK, busVars, claimVars, OthersSame,
       BytesSame
  <1>8. /\ pc'[c] = pc[c] /\ left'[c] = left[c] /\ wire'[c] = wire[c] + 1
        /\ job'[c].got = Append(job[c].got, b)
        /\ job'[c].to = job[c].to /\ job'[c].sent = job[c].sent
        /\ job'[c].failed = job[c].failed /\ job'[c].torn = job[c].torn
    <2>1. job \in [Clients -> JobRec] /\ wire \in [Clients -> Nat]
      BY <1>1 DEF TypeOK, SessionTypeOK
    <2> HIDE DEF b
    <2> QED BY <1>2, <2>1 DEF JobRec
  <1>9. Control(c)' /\ Holding(c)' /\ Target(c)' /\ Claimed(c)'
    BY <1>1, <1>2, <1>8 DEF busVars, claimVars, ClientInv, Control, Holding,
       Target, Claimed, Printer, Live
  <1> DEFINE got == job[c].got
             n   == Len(job[c].got)
  <1>10. /\ got \in Seq(Nat) /\ n \in Nat /\ Len(job'[c].got) = n + 1
         /\ job'[c].got[n + 1] = b
         /\ \A i \in 1..n : job'[c].got[i] = got[i] /\ got[i] \in Nat
    BY <1>1, <1>3, <1>8, CounterTypes
  <1>11. /\ job[c].sent \in Nat /\ left[c] \in Nat /\ wire[c] \in Nat
         /\ sess[c].accepted \in Nat /\ wire[c] < left[c]
         /\ left'[c] = left[c] /\ wire'[c] = wire[c] + 1
         /\ job'[c].sent = job[c].sent
    BY <1>1, <1>2, <1>8, CounterTypes
  <1>12. Counters(c)'
    <2>1. n = sess[c].accepted + wire[c] /\ left[c] <= job[c].sent
      <3> HIDE DEF b
      <3>1. Counters(c) /\ pc[c] = "transfer"
        BY <1>1, <1>2 DEF ClientInv
      <3> QED BY <3>1 DEF Counters
    <2>2. n + 1 = sess[c].accepted + wire'[c] /\ wire'[c] <= left'[c]
      <3>1. n \in Nat
        BY <1>10
      <3> HIDE DEF b, got, n
      <3> QED BY <1>11, <2>1, <3>1
    <2> HIDE DEF b, got, n
    <2>3. pc'[c] = "transfer" /\ sess' = sess
      BY <1>2, <1>8 DEF claimVars
    <2>4. job'[c].sent = job[c].sent /\ left'[c] = left[c]
      BY <1>8
    <2> QED BY <1>10, <2>1, <2>2, <2>3, <2>4 DEF Counters
  <1>13. \A i \in 1..n : got[i] < b
    <2>1. \A i \in 1..n : got[i] <= b - 1
      <3>1. \A i \in 1..n : got[i] <= job[c].sent - left[c] + wire[c]
        BY <1>1, <1>2 DEF ClientInv, Increasing
      <3>2. b - 1 = job[c].sent - left[c] + wire[c]
        BY <1>11
      <3> QED BY <3>1, <3>2
    <2> HIDE DEF b, got, n
    <2> QED BY <1>3, <1>10, <2>1
  <1>14. \A i \in 1..(n + 1) : i \in 1..n \/ i = n + 1
    BY <1>10
  <1>15. Increasing(c)'
    <2>1. job'[c].sent - left'[c] + wire'[c] = b
      BY <1>11
    <2>2. ASSUME NEW i \in 1..(n + 1) PROVE job'[c].got[i] <= b
      <3> HIDE DEF b, got, n
      <3>1. CASE i \in 1..n
        <4>1. job'[c].got[i] = got[i] /\ got[i] \in Nat
          BY <3>1, <1>10
        <4>2. got[i] < b
          BY <3>1, <1>13
        <4> QED BY <4>1, <4>2, <1>3
      <3>2. CASE i = n + 1
        BY <3>2, <1>3, <1>10
      <3> QED BY <3>1, <3>2, <1>14
    <2>3. ASSUME NEW i \in 1..(n + 1), NEW j \in 1..(n + 1), i < j
          PROVE  job'[c].got[i] < job'[c].got[j]
      <3>1. \A k, m \in 1..n : k < m => got[k] < got[m]
        BY <1>1 DEF ClientInv, Increasing
      <3> HIDE DEF b, got, n
      <3>2. i \in 1..n
        BY <2>3, <1>10
      <3>3. CASE j \in 1..n
        BY <2>3, <3>1, <3>2, <3>3, <1>10
      <3>4. CASE j = n + 1
        BY <3>2, <3>4, <1>10, <1>13
      <3> QED BY <3>3, <3>4, <1>14
    <2> HIDE DEF b, n
    <2> QED BY <1>2, <1>8, <1>10, <2>1, <2>2, <2>3 DEF Increasing
  <1>16. TornIsDead(c)'
    BY <1>1, <1>2, <1>8 DEF ClientInv, TornIsDead
  <1>17. Complete(c)'
    <2> SUFFICES ASSUME ~job[c].failed
                 PROVE  Complete(c)'
      BY <1>8 DEF Complete
    <2>1. /\ \A i \in 1..n : got[i] = i
          /\ job[c].sent - left[c] = sess[c].accepted
      BY <1>1, <1>2 DEF ClientInv, Complete
    <2>2. b = n + 1
      <3>1. n = sess[c].accepted + wire[c]
        BY <1>1 DEF ClientInv, Counters
      <3> QED BY <2>1, <3>1, <1>11
    <2>3. \A i \in 1..(n + 1) : job'[c].got[i] = i
      <3> HIDE DEF b, got, n
      <3> QED BY <1>10, <1>14, <2>1, <2>2
    <2> HIDE DEF b, n
    <2> QED BY <1>2, <1>8, <1>10, <2>1, <2>3 DEF claimVars, Complete
  <1> QED BY <1>6, <1>7, <1>9, <1>12, <1>15, <1>16, <1>17
          DEF StepOk, ClientInv

\* Advance, and the session record and job of the three ways a transfer ends.
LEMMA TransferTypes ==
  ASSUME NEW c \in Clients, OwnInv(c), pc[c] = "transfer", Advance(c),
         NEW e \in Codes, NEW b \in BOOLEAN, NEW to \in Pcs,
         sess' = [sess EXCEPT ![c].accepted = @ + wire[c],
                              ![c].last_error = e],
         job' = [job EXCEPT ![c].failed = b],
         pc' = [pc EXCEPT ![c] = to],
         attempt' \in [Clients -> Nat]
  PROVE  /\ TypeOK' /\ OthersSame(c)
         /\ sess'[c].accepted = sess[c].accepted + wire[c]
         /\ sess'[c].held = sess[c].held /\ sess'[c].serial = sess[c].serial
         /\ job'[c].got = job[c].got /\ job'[c].sent = job[c].sent
         /\ job'[c].to = job[c].to /\ job'[c].torn = job[c].torn
         /\ job'[c].failed = b
         /\ left'[c] = left[c] - wire[c] /\ wire'[c] = 0
         /\ begun'[c] = (begun[c] \/ wire[c] > 0)
         /\ pc'[c] = to
         /\ UNCHANGED <<busVars, cpc, want, try, result>>
  <1>1. TypeOK /\ ClientInv(c)
    BY DEF OwnInv
  <1>2. left[c] - wire[c] \in Nat /\ sess[c].accepted + wire[c] \in Nat
    <2>1. left[c] \in Nat /\ wire[c] \in Nat /\ sess[c].accepted \in Nat
      BY <1>1, CounterTypes
    <2>2. wire[c] <= left[c]
      <3>1. Counters(c)
        BY <1>1 DEF ClientInv
      <3> QED BY <3>1 DEF Counters
    <2> QED BY <2>1, <2>2
  <1>3. sess' \in [Clients -> SessRec]
    BY <1>1, <1>2, SessUpdate DEF TypeOK, ClaimTypeOK
  <1>4. job' \in [Clients -> JobRec]
    <2>1. job \in [Clients -> JobRec]
      BY <1>1 DEF TypeOK, SessionTypeOK
    <2> QED BY <2>1 DEF JobRec
  <1>5. UNCHANGED <<busVars, cpc, want, try, result, printed>>
    BY DEF Advance
  <1>6. BusTypeOK' /\ ClaimTypeOK'
    BY <1>1, <1>3, <1>5 DEF TypeOK, BusTypeOK, ClaimTypeOK, busVars
  <1>7. /\ left' \in [Clients -> Nat] /\ wire' \in [Clients -> Nat]
        /\ begun' \in [Clients -> BOOLEAN] /\ pc' \in [Clients -> Pcs]
    BY <1>1, <1>2 DEF TypeOK, SessionTypeOK, Advance
  <1>8. OthersSame(c)
    BY <1>1, <1>5 DEF TypeOK, ClaimTypeOK, SessionTypeOK, busVars, OthersSame,
       BytesSame, Advance
  <1>9. /\ sess'[c].accepted = sess[c].accepted + wire[c]
        /\ sess'[c].held = sess[c].held /\ sess'[c].serial = sess[c].serial
    BY <1>1 DEF TypeOK, ClaimTypeOK, SessRec
  <1>10. /\ job'[c].got = job[c].got /\ job'[c].sent = job[c].sent
         /\ job'[c].to = job[c].to /\ job'[c].torn = job[c].torn
         /\ job'[c].failed = b
    BY <1>1 DEF TypeOK, SessionTypeOK, JobRec
  <1>11. /\ left'[c] = left[c] - wire[c] /\ wire'[c] = 0 /\ pc'[c] = to
         /\ begun'[c] = (begun[c] \/ wire[c] > 0)
    BY <1>1 DEF TypeOK, SessionTypeOK, Advance
  <1> QED BY <1>1, <1>4, <1>5, <1>6, <1>7, <1>8, <1>9, <1>10, <1>11
          DEF TypeOK, SessionTypeOK

\* A transfer that ends keeps what was taken below the next byte to send.
LEMMA TransferBytes ==
  ASSUME NEW c \in Clients, TypeOK, ClientInv(c), pc[c] = "transfer",
         pc'[c] \in {"ready", "transfer", "reconnect"},
         sess'[c].accepted = sess[c].accepted + wire[c],
         job'[c].got = job[c].got, job'[c].sent = job[c].sent,
         left'[c] = left[c] - wire[c], wire'[c] = 0
  PROVE  Increasing(c)' /\ Len(job'[c].got) = sess'[c].accepted
  <1>1. job[c].sent - left[c] + wire[c] = job'[c].sent - left'[c] + wire'[c]
    BY CounterTypes
  <1>2. job[c].sent - left[c] + wire[c] <= job[c].sent
    BY CounterTypes DEF ClientInv, Counters
  <1>3. \A i \in 1..Len(job[c].got) :
          /\ job[c].got[i] \in Nat
          /\ job[c].got[i] <= job[c].sent - left[c] + wire[c]
    BY CounterTypes DEF ClientInv, Increasing
  <1>4. \A i \in 1..Len(job[c].got) : job[c].got[i] <= job[c].sent
    <2>1. job[c].sent - left[c] + wire[c] \in Int /\ job[c].sent \in Int
      BY CounterTypes
    <2> QED BY <1>2, <1>3, <2>1
  <1>5. Increasing(c)'
    BY <1>1, <1>3, <1>4 DEF ClientInv, Increasing
  <1> QED BY <1>5, CounterTypes DEF ClientInv, Counters

\* The bulk transfer returns success (lines 505-516).
LEMMA TransferOkStep ==
  ASSUME NEW c \in Clients, OwnInv(c), TransferOk(c)
  PROVE  StepOk(c)
  <1>1. TypeOK /\ ClientInv(c)
    BY DEF OwnInv
  <1> DEFINE to == IF left[c] = wire[c] THEN "ready" ELSE "transfer"
  <1>2. /\ pc[c] = "transfer" /\ wire[c] > 0 /\ Advance(c)
        /\ to \in Pcs /\ pc' = [pc EXCEPT ![c] = to]
        /\ sess' = [sess EXCEPT ![c].accepted = @ + wire[c]]
        /\ UNCHANGED <<job, attempt>>
    BY DEF TransferOk, Call, Pcs
  <1>3. PICK e \in Codes, b \in BOOLEAN :
          /\ e = sess[c].last_error /\ b = job[c].failed
    BY <1>1, CounterTypes DEF TypeOK, ClaimTypeOK, SessRec
  <1>4. /\ sess' = [sess EXCEPT ![c].accepted = @ + wire[c],
                                ![c].last_error = e]
        /\ job' = [job EXCEPT ![c].failed = b]
    <2>1. sess' = [sess EXCEPT ![c].accepted = @ + wire[c],
                               ![c].last_error = e]
      BY <1>1, <1>2, <1>3 DEF TypeOK, ClaimTypeOK, SessRec
    <2>2. job' = [job EXCEPT ![c].failed = b]
      BY <1>1, <1>2, <1>3 DEF TypeOK, SessionTypeOK, JobRec
    <2> QED BY <2>1, <2>2
  <1>5. attempt' \in [Clients -> Nat]
    BY <1>1, <1>2 DEF TypeOK, SessionTypeOK
  <1>6. /\ TypeOK' /\ OthersSame(c)
        /\ sess'[c].accepted = sess[c].accepted + wire[c]
        /\ sess'[c].held = sess[c].held /\ sess'[c].serial = sess[c].serial
        /\ job' = job /\ left'[c] = left[c] - wire[c] /\ wire'[c] = 0
        /\ pc'[c] = to
        /\ UNCHANGED <<busVars, cpc, want, try, result>>
    <2>1. /\ pc[c] = "transfer" /\ Advance(c) /\ to \in Pcs
          /\ pc' = [pc EXCEPT ![c] = to] /\ job' = job
      BY <1>2
    <2> HIDE DEF to
    <2> QED BY <2>1, <1>4, <1>5, TransferTypes
  <1>7. Control(c)' /\ Holding(c)'
    BY <1>1, <1>2, <1>6 DEF busVars, ClientInv, Control, Holding, Opened,
       Printer
  <1>8. Target(c)' /\ Claimed(c)'
    BY <1>1, <1>2, <1>6 DEF busVars, ClientInv, Control, Holding, Opened,
       Target, Claimed, Printer, Live
  <1>9. Increasing(c)' /\ Len(job'[c].got) = sess'[c].accepted
    BY <1>1, <1>2, <1>6, TransferBytes
  <1>10. Counters(c)'
    BY <1>1, <1>2, <1>6, <1>9, CounterTypes DEF ClientInv, Counters
  <1>11. TornIsDead(c)'
    BY <1>1, <1>2, <1>6 DEF busVars, ClientInv, TornIsDead, Live
  <1>12. Complete(c)'
    BY <1>1, <1>2, <1>6, CounterTypes DEF ClientInv, Complete
  <1> QED BY <1>6, <1>7, <1>8, <1>9, <1>10, <1>11, <1>12
          DEF StepOk, ClientInv

\* The bulk transfer fails with the printer on the bus, and the write returns.
LEMMA TransferErrorStep ==
  ASSUME NEW c \in Clients, OwnInv(c), TransferError(c)
  PROVE  StepOk(c)
  <1>1. TypeOK /\ ClientInv(c)
    BY DEF OwnInv
  <1>2. /\ pc[c] = "transfer" /\ Advance(c)
        /\ pc' = [pc EXCEPT ![c] = "ready"]
        /\ sess' = [sess EXCEPT ![c].accepted = @ + wire[c],
                                ![c].last_error = "ERROR"]
        /\ job' = [job EXCEPT ![c].failed = TRUE]
        /\ UNCHANGED attempt
    BY DEF TransferError, Call
  <1>3. attempt' \in [Clients -> Nat] /\ "ready" \in Pcs
    BY <1>1, <1>2 DEF TypeOK, SessionTypeOK, Pcs
  <1>4. /\ TypeOK' /\ OthersSame(c)
        /\ sess'[c].accepted = sess[c].accepted + wire[c]
        /\ sess'[c].held = sess[c].held /\ sess'[c].serial = sess[c].serial
        /\ job'[c].got = job[c].got /\ job'[c].sent = job[c].sent
        /\ job'[c].to = job[c].to /\ job'[c].torn = job[c].torn
        /\ job'[c].failed
        /\ left'[c] = left[c] - wire[c] /\ wire'[c] = 0 /\ pc'[c] = "ready"
        /\ UNCHANGED <<busVars, cpc, want, try, result>>
    BY <1>2, <1>3, TransferTypes, CodeFacts
  <1>5. Control(c)' /\ Holding(c)'
    BY <1>1, <1>2, <1>4 DEF busVars, ClientInv, Control, Holding, Opened,
       Printer
  <1>6. Target(c)' /\ Claimed(c)'
    BY <1>1, <1>2, <1>4 DEF busVars, ClientInv, Control, Holding, Opened,
       Target, Claimed, Printer, Live
  <1>7. Increasing(c)' /\ Len(job'[c].got) = sess'[c].accepted
    BY <1>1, <1>2, <1>4, TransferBytes
  <1>8. Counters(c)'
    BY <1>1, <1>2, <1>4, <1>7, CounterTypes DEF ClientInv, Counters
  <1>9. TornIsDead(c)'
    BY <1>1, <1>2, <1>4 DEF busVars, ClientInv, TornIsDead, Live
  <1>10. Complete(c)'
    BY <1>1, <1>2, <1>4 DEF ClientInv, Complete
  <1> QED BY <1>4, <1>5, <1>6, <1>7, <1>8, <1>9, <1>10 DEF StepOk, ClientInv

\* The bulk transfer says NO_DEVICE: reconnect or return (lines 518-537).
LEMMA TransferGoneStep ==
  ASSUME NEW c \in Clients, OwnInv(c), TransferGone(c)
  PROVE  StepOk(c)
  <1>1. TypeOK /\ ClientInv(c)
    BY DEF OwnInv
  <1> DEFINE again == ReplaySafe(c) /\ ~begun[c] /\ wire[c] = 0
             to == IF again THEN "reconnect" ELSE "ready"
             e == IF again THEN sess[c].last_error ELSE "NO_DEVICE"
             b == job[c].failed \/ ~again
  <1>2. /\ pc[c] = "transfer" /\ Advance(c) /\ ~Live(c)
        /\ pc' = [pc EXCEPT ![c] = to]
        /\ sess' = [sess EXCEPT ![c].accepted = @ + wire[c],
                                ![c].last_error = e]
        /\ job' = [job EXCEPT ![c].failed = b]
        /\ attempt' = [attempt EXCEPT ![c] = 0]
    BY DEF TransferGone, Call
  <1>3. attempt' \in [Clients -> Nat] /\ to \in Pcs /\ b \in BOOLEAN
    BY <1>1, <1>2 DEF TypeOK, SessionTypeOK, Pcs
  <1>4. e \in Codes
    BY <1>1, CodeFacts DEF TypeOK, ClaimTypeOK, SessRec
  <1>5. /\ TypeOK' /\ OthersSame(c)
        /\ sess'[c].accepted = sess[c].accepted + wire[c]
        /\ sess'[c].held = sess[c].held /\ sess'[c].serial = sess[c].serial
        /\ job'[c].got = job[c].got /\ job'[c].sent = job[c].sent
        /\ job'[c].to = job[c].to /\ job'[c].torn = job[c].torn
        /\ job'[c].failed = b
        /\ left'[c] = left[c] - wire[c] /\ wire'[c] = 0 /\ pc'[c] = to
        /\ begun'[c] = (begun[c] \/ wire[c] > 0)
        /\ UNCHANGED <<busVars, cpc, want, try, result>>
    <2> HIDE DEF to, e, b
    <2>1. /\ pc[c] = "transfer" /\ Advance(c)
          /\ pc' = [pc EXCEPT ![c] = to]
          /\ sess' = [sess EXCEPT ![c].accepted = @ + wire[c],
                                  ![c].last_error = e]
          /\ job' = [job EXCEPT ![c].failed = b]
      BY <1>2
    <2>2. attempt' \in [Clients -> Nat] /\ to \in Pcs /\ b \in BOOLEAN
      BY <1>3
    <2> QED BY ONLY <2>1, <2>2, <1>4, TransferTypes, OwnInv(c),
                    c \in Clients, Zenon
  <1>6. /\ pc'[c] = "reconnect" =>
              sess[c].accepted = 0 /\ wire[c] = 0 /\ ~begun'[c]
        /\ pc'[c] \in {"reconnect", "ready"}
        /\ pc'[c] = "ready" => job'[c].failed
        /\ pc'[c] = "reconnect" =>
              job'[c].failed = job[c].failed /\ left'[c] = left[c]
    <2>1. CASE again
      BY <2>1, <1>1, <1>5, CounterTypes DEF ReplaySafe
    <2>2. CASE ~again
      BY <2>2, <1>1, <1>5, CounterTypes
    <2> QED BY <2>1, <2>2
  <1> HIDE DEF again, to, e, b
  <1>7. Control(c)' /\ Holding(c)'
    BY <1>1, <1>2, <1>5, <1>6 DEF busVars, ClientInv, Control, Holding,
       Opened, Printer
  <1>8. Target(c)' /\ Claimed(c)'
    BY <1>1, <1>2, <1>5, <1>6 DEF busVars, ClientInv, Control, Holding,
       Opened, Walking, Target, Claimed, Printer, Live
  <1>9. Increasing(c)' /\ Len(job'[c].got) = sess'[c].accepted
    BY <1>1, <1>2, <1>5, <1>6, TransferBytes
  <1>10. Counters(c)'
    <2>1. left[c] <= job[c].sent /\ left[c] >= 0
      BY <1>1, <1>2, CounterTypes DEF ClientInv, Counters
    <2> QED BY <1>1, <1>5, <1>6, <1>9, <2>1, CounterTypes DEF Counters
  <1>11. TornIsDead(c)'
    BY <1>1, <1>2, <1>5, <1>6 DEF busVars, ClientInv, TornIsDead, Live
  <1>12. Complete(c)'
    BY <1>1, <1>2, <1>5, <1>6 DEF ClientInv, Complete
  <1> QED BY <1>5, <1>7, <1>8, <1>9, <1>10, <1>11, <1>12
          DEF StepOk, ClientInv

\* The reconnect lets go of the old handle.
LEMMA ReopenStep ==
  ASSUME NEW c \in Clients, OwnInv(c), Reopen(c)
  PROVE  StepOk(c)
  <1>1. TypeOK /\ ClientInv(c)
    BY DEF OwnInv
  <1>2. /\ pc[c] = "reconnect" /\ cpc[c] = "idle"
        /\ cpc' = [cpc EXCEPT ![c] = IF sess[c].held THEN "release"
                                                     ELSE "closed"]
        /\ UNCHANGED <<busVars, want, try, result, sess, callVars, history>>
    BY DEF Reopen, Goto
  <1>3. TypeOK' /\ OthersSame(c)
    BY <1>1, <1>2 DEF TypeOK, BusTypeOK, ClaimTypeOK, ClaimPcs, SessionTypeOK,
       OthersSame, BytesSame, busVars, callVars, history
  <1>4. cpc'[c] = IF sess[c].held THEN "release" ELSE "closed"
    BY <1>1, <1>2 DEF TypeOK, ClaimTypeOK
  <1>5. Control(c)' /\ Holding(c)'
    BY <1>1, <1>2, <1>4 DEF busVars, callVars, history, ClientInv, Control,
       Holding, Opened, Printer
  <1>6. Target(c)' /\ Claimed(c)'
    BY <1>1, <1>2, <1>4 DEF busVars, callVars, history, ClientInv, Opened,
       Walking, Target, Claimed, Printer, Live
  <1>7. BytesInv(c)'
    BY <1>1, <1>2, BytesKept DEF busVars, callVars, history, ClientInv,
       BytesInv, BytesSame
  <1> QED BY <1>3, <1>5, <1>6, <1>7 DEF StepOk, ClientInv, BytesInv

\* The reconnect looks for the same serial number (lines 252-309).
LEMMA ReopenWalkStep ==
  ASSUME NEW c \in Clients, OwnInv(c), ReopenWalk(c)
  PROVE  StepOk(c)
  <1>1. TypeOK /\ ClientInv(c)
    BY DEF OwnInv
  <1>2. /\ pc[c] = "reconnect" /\ cpc[c] = "closed"
        /\ StartWalk(c, "closed", sess[c].serial, SameProduct(sess[c].serial))
        /\ UNCHANGED <<sess, callVars, history>>
    BY DEF ReopenWalk, StartWalk, Goto
  <1>3. sess[c].serial \in Serials
    BY <1>1 DEF TypeOK, ClaimTypeOK, SessRec
  <1>4. TypeOK'
    BY <1>1, <1>2, <1>3, StartWalkTypes DEF TypeOK, ClaimTypeOK,
       SessionTypeOK, callVars, history
  <1>5. OthersSame(c)
    BY <1>1, <1>2 DEF TypeOK, ClaimTypeOK, OthersSame, BytesSame, callVars,
       history, StartWalk, Goto
  <1>6. /\ cpc'[c] \in {"scan", "done"}
        /\ result'[c] # "SUCCESS"
        /\ want'[c] = sess[c].serial
        /\ UNCHANGED <<plugged, driver, owner, handle, try>>
    BY <1>1, <1>2 DEF TypeOK, ClaimTypeOK, StartWalk, Goto
  <1>7. Control(c)' /\ Holding(c)'
    BY <1>1, <1>2, <1>6 DEF callVars, history, ClientInv, Control, Walking,
       Holding, Opened, Printer
  <1>8. Target(c)' /\ Claimed(c)'
    BY <1>1, <1>2, <1>6 DEF callVars, history, ClientInv, Target, Holding,
       Claimed, Opened, Printer, Live
  <1>9. BytesInv(c)'
    BY <1>1, <1>2, BytesKept DEF callVars, history, ClientInv, BytesInv,
       BytesSame
  <1> QED BY <1>4, <1>5, <1>7, <1>8, <1>9 DEF StepOk, ClientInv, BytesInv

\* The reconnect found its printer, and the write goes on from its first byte.
LEMMA ReopenOkStep ==
  ASSUME NEW c \in Clients, OwnInv(c), ReopenOk(c)
  PROVE  StepOk(c)
  <1>1. TypeOK /\ ClientInv(c)
    BY DEF OwnInv
  <1>2. /\ pc[c] = "reconnect" /\ pc' = [pc EXCEPT ![c] = "transfer"]
        /\ cpc[c] = "done" /\ cpc' = [cpc EXCEPT ![c] = "idle"]
        /\ result[c] = "SUCCESS"
        /\ UNCHANGED <<busVars, want, try, result, sess, left, begun, wire,
                       attempt, history>>
    BY DEF ReopenOk, Call, Goto
  <1>3. TypeOK' /\ OthersSame(c)
    BY <1>1, <1>2 DEF TypeOK, BusTypeOK, ClaimTypeOK, ClaimPcs, SessionTypeOK,
       Pcs, OthersSame, BytesSame, busVars, history
  <1>4. pc'[c] = "transfer" /\ cpc'[c] = "idle"
    BY <1>1, <1>2 DEF TypeOK, ClaimTypeOK, SessionTypeOK
  <1>5. Control(c)' /\ Holding(c)'
    BY <1>1, <1>2, <1>4 DEF busVars, history, ClientInv, Control, Holding,
       Opened, Printer
  <1>6. Target(c)' /\ Claimed(c)'
    BY <1>1, <1>2, <1>4 DEF busVars, history, ClientInv, Opened, Target,
       Claimed, Printer, Live
  <1>7. Counters(c) /\ job[c].got = <<>> /\ wire[c] = 0
    <2>1. Counters(c) /\ wire[c] = 0 /\ Len(job[c].got) = 0
      BY <1>1, <1>2, CounterTypes DEF ClientInv, Counters
    <2> QED BY <1>1, <2>1, CounterTypes
  <1>8. Counters(c)' /\ Increasing(c)' /\ TornIsDead(c)'
    BY <1>1, <1>2, <1>4, <1>7 DEF history, ClientInv, Counters, Increasing,
       TornIsDead
  <1>9. Complete(c)'
    BY <1>1, <1>2, <1>4 DEF history, ClientInv, Complete
  <1> QED BY <1>3, <1>5, <1>6, <1>8, <1>9 DEF StepOk, ClientInv

\* The reconnect did not find its printer and tries again.
LEMMA ReopenRetryStep ==
  ASSUME NEW c \in Clients, OwnInv(c), ReopenRetry(c)
  PROVE  StepOk(c)
  <1>1. TypeOK /\ ClientInv(c)
    BY DEF OwnInv
  <1>2. /\ pc[c] = "reconnect" /\ result[c] # "SUCCESS"
        /\ cpc[c] = "done" /\ cpc' = [cpc EXCEPT ![c] = "idle"]
        /\ attempt' = [attempt EXCEPT ![c] = @ + 1]
        /\ UNCHANGED <<busVars, want, try, result, sess, pc, left, begun,
                       wire, history>>
    BY DEF ReopenRetry, Goto
  <1>3. TypeOK' /\ OthersSame(c)
    BY <1>1, <1>2 DEF TypeOK, BusTypeOK, ClaimTypeOK, ClaimPcs, SessionTypeOK,
       OthersSame, BytesSame, busVars, history
  <1>4. cpc'[c] = "idle"
    BY <1>1, <1>2 DEF TypeOK, ClaimTypeOK
  <1>5. Control(c)' /\ Holding(c)'
    BY <1>1, <1>2, <1>4 DEF busVars, history, ClientInv, Control, Holding,
       Opened, Printer
  <1>6. Target(c)' /\ Claimed(c)'
    BY <1>1, <1>2, <1>4 DEF busVars, history, ClientInv, Opened, Walking,
       Target, Claimed, Printer, Live
  <1>7. BytesInv(c)'
    BY <1>1, <1>2, BytesKept DEF busVars, history, ClientInv, BytesInv,
       BytesSame
  <1> QED BY <1>3, <1>5, <1>6, <1>7 DEF StepOk, ClientInv, BytesInv

\* The reconnect is out of attempts, and the write returns.
LEMMA ReopenFailStep ==
  ASSUME NEW c \in Clients, OwnInv(c), ReopenFail(c)
  PROVE  StepOk(c)
  <1>1. TypeOK /\ ClientInv(c)
    BY DEF OwnInv
  <1>2. /\ pc[c] = "reconnect" /\ pc' = [pc EXCEPT ![c] = "ready"]
        /\ cpc[c] = "done" /\ cpc' = [cpc EXCEPT ![c] = "idle"]
        /\ result[c] # "SUCCESS"
        /\ job' = [job EXCEPT ![c].failed = TRUE]
        /\ UNCHANGED <<busVars, want, try, result, left, begun, wire, attempt,
                       printed>>
    BY DEF ReopenFail, Call, Goto
  <1>3. PICK e \in Codes : sess' = [sess EXCEPT ![c].last_error = e]
    BY <1>1, CodeFacts DEF ReopenFail, TypeOK, ClaimTypeOK
  <1>4. sess' \in [Clients -> SessRec] /\ job' \in [Clients -> JobRec]
    <2>1. sess' \in [Clients -> SessRec]
      BY <1>1, <1>3 DEF TypeOK, ClaimTypeOK, SessRec
    <2>2. job' \in [Clients -> JobRec]
      BY <1>1, <1>2 DEF TypeOK, SessionTypeOK, JobRec
    <2> QED BY <2>1, <2>2
  <1>5. TypeOK' /\ OthersSame(c)
    BY <1>1, <1>2, <1>3, <1>4 DEF TypeOK, BusTypeOK, ClaimTypeOK, ClaimPcs,
       SessionTypeOK, Pcs, OthersSame, BytesSame, busVars
  <1>6. /\ pc'[c] = "ready" /\ cpc'[c] = "idle"
        /\ sess'[c].held = sess[c].held /\ sess'[c].serial = sess[c].serial
        /\ sess'[c].accepted = sess[c].accepted
        /\ job'[c].failed /\ job'[c].to = job[c].to
        /\ job'[c].got = job[c].got /\ job'[c].sent = job[c].sent
        /\ job'[c].torn = job[c].torn
    BY <1>1, <1>2, <1>3 DEF TypeOK, ClaimTypeOK, SessionTypeOK, SessRec, JobRec
  <1>7. Control(c)' /\ Holding(c)'
    BY <1>1, <1>2, <1>6 DEF busVars, ClientInv, Control, Holding, Opened,
       Printer
  <1>8. Target(c)' /\ Claimed(c)'
    BY <1>1, <1>2, <1>6 DEF busVars, ClientInv, Opened, Walking, Target,
       Claimed, Printer, Live
  <1>9. job[c].got = <<>>
    <2>1. Len(job[c].got) = 0
      BY <1>1, <1>2, CounterTypes DEF ClientInv, Counters
    <2> QED BY <1>1, <2>1, CounterTypes
  <1>10. Counters(c)' /\ Increasing(c)' /\ TornIsDead(c)'
    BY <1>1, <1>2, <1>6, <1>9 DEF ClientInv, Counters, Increasing, TornIsDead
  <1>11. Complete(c)'
    BY <1>1, <1>2, <1>6 DEF ClientInv, Complete
  <1> QED BY <1>5, <1>7, <1>8, <1>10, <1>11 DEF StepOk, ClientInv

\* hplp_usb_session_close begins (lines 542-558).
LEMMA CloseStep ==
  ASSUME NEW c \in Clients, OwnInv(c), Close(c)
  PROVE  StepOk(c)
  <1>1. TypeOK /\ ClientInv(c)
    BY DEF OwnInv
  <1>2. /\ pc[c] = "ready" /\ pc' = [pc EXCEPT ![c] = "closing"]
        /\ cpc[c] = "idle"
        /\ cpc' = [cpc EXCEPT ![c] = IF sess[c].held THEN "release"
                                                     ELSE "closed"]
        /\ UNCHANGED <<busVars, want, try, result, sess, left, begun, wire,
                       attempt, history>>
    BY DEF Close, Call, Goto
  <1>3. TypeOK' /\ OthersSame(c)
    BY <1>1, <1>2 DEF TypeOK, BusTypeOK, ClaimTypeOK, ClaimPcs, SessionTypeOK,
       Pcs, OthersSame, BytesSame, busVars, history
  <1>4. /\ pc'[c] = "closing"
        /\ cpc'[c] = IF sess[c].held THEN "release" ELSE "closed"
    BY <1>1, <1>2 DEF TypeOK, ClaimTypeOK, SessionTypeOK
  <1>5. Control(c)' /\ Holding(c)'
    BY <1>1, <1>2, <1>4 DEF busVars, history, ClientInv, Control, Holding,
       Opened, Printer
  <1>6. Target(c)' /\ Claimed(c)'
    BY <1>1, <1>2, <1>4 DEF busVars, history, ClientInv, Opened, Target,
       Claimed, Printer, Live
  <1>7. Counters(c)' /\ Increasing(c)' /\ TornIsDead(c)' /\ Complete(c)'
    BY <1>1, <1>2, <1>4 DEF busVars, history, ClientInv, Counters, Increasing,
       TornIsDead, Complete
  <1> QED BY <1>3, <1>5, <1>6, <1>7 DEF StepOk, ClientInv

\* hplp_usb_session_close returns.
LEMMA CloseDoneStep ==
  ASSUME NEW c \in Clients, OwnInv(c), CloseDone(c)
  PROVE  StepOk(c)
  <1>1. TypeOK /\ ClientInv(c)
    BY DEF OwnInv
  <1>2. /\ pc[c] = "closing" /\ pc' = [pc EXCEPT ![c] = "none"]
        /\ cpc[c] = "closed" /\ cpc' = [cpc EXCEPT ![c] = "idle"]
        /\ UNCHANGED <<busVars, want, try, result, sess, left, begun, wire,
                       attempt, history>>
    BY DEF CloseDone, Call, Goto
  <1>3. TypeOK' /\ OthersSame(c)
    BY <1>1, <1>2 DEF TypeOK, BusTypeOK, ClaimTypeOK, ClaimPcs, SessionTypeOK,
       Pcs, OthersSame, BytesSame, busVars, history
  <1>4. pc'[c] = "none" /\ cpc'[c] = "idle"
    BY <1>1, <1>2 DEF TypeOK, ClaimTypeOK, SessionTypeOK
  <1>5. Control(c)' /\ Holding(c)'
    BY <1>1, <1>2, <1>4 DEF busVars, history, ClientInv, Control, Holding,
       Opened, Printer
  <1>6. Target(c)' /\ Claimed(c)'
    BY <1>1, <1>2, <1>4 DEF busVars, history, ClientInv, Opened, Holding,
       Target, Claimed, Printer, Live
  <1>7. Counters(c)' /\ Increasing(c)' /\ TornIsDead(c)' /\ Complete(c)'
    BY <1>1, <1>2, <1>4 DEF busVars, history, ClientInv, Counters, Increasing,
       TornIsDead, Complete
  <1> QED BY <1>3, <1>5, <1>6, <1>7 DEF StepOk, ClientInv

\* Forgetting the handle, after Release or AttachBack.
LEMMA ForgetTypes ==
  ASSUME NEW c \in Clients, TypeOK, ForgetHandle(c)
  PROVE  /\ handle' \in [Clients -> Device \cup {NoRef}]
         /\ sess' \in [Clients -> SessRec]
         /\ handle'[c] = NoRef /\ ~sess'[c].held
         /\ sess'[c].serial = sess[c].serial
         /\ sess'[c].accepted = sess[c].accepted
         /\ \A d \in Clients \ {c} :
               sess'[d] = sess[d] /\ handle'[d] = handle[d]
  <1>1. /\ handle' = [handle EXCEPT ![c] = NoRef]
        /\ sess' = [sess EXCEPT ![c].held = FALSE, ![c].detached = FALSE]
    BY DEF ForgetHandle, CloseHandle
  <1>2. handle' \in [Clients -> Device \cup {NoRef}]
    BY <1>1 DEF TypeOK, BusTypeOK
  <1>3. sess' \in [Clients -> SessRec]
    BY <1>1 DEF TypeOK, ClaimTypeOK, SessRec
  <1>4. /\ ~sess'[c].held /\ sess'[c].serial = sess[c].serial
        /\ sess'[c].accepted = sess[c].accepted
    BY <1>1 DEF TypeOK, ClaimTypeOK, SessRec
  <1>5. /\ handle'[c] = NoRef
        /\ \A d \in Clients \ {c} :
              sess'[d] = sess[d] /\ handle'[d] = handle[d]
    BY <1>1 DEF TypeOK, BusTypeOK, ClaimTypeOK
  <1> QED BY <1>2, <1>3, <1>4, <1>5

\* close_session_handle gives up the claim (lines 153-175).
LEMMA ReleaseStep ==
  ASSUME NEW c \in Clients, OwnInv(c),
         Release(c, pc[c] = "closing" /\ RestoreOnClose(c)),
         UNCHANGED <<callVars, history>>
  PROVE  StepOk(c)
  <1>1. TypeOK /\ ClientInv(c)
    BY DEF OwnInv
  <1>2. /\ cpc[c] = "release" /\ ReleaseInterface(c)
        /\ UNCHANGED <<plugged, driver, list, want, try, result>>
        /\ \/ /\ pc[c] = "closing" /\ cpc' = [cpc EXCEPT ![c] = "attach"]
              /\ UNCHANGED <<handle, sess>>
           \/ cpc' = [cpc EXCEPT ![c] = "closed"] /\ ForgetHandle(c)
    BY DEF Release, Goto
  <1>3. /\ owner' \in [Printers -> Clients \cup {NoClient}]
        /\ \A p \in Printers :
              /\ owner'[p] # c
              /\ \A d \in Clients \ {c} : owner'[p] = d <=> owner[p] = d
    <2>1. \A p \in Printers : owner[p] = c => Printer(c) = p /\ Live(c)
      BY <1>1 DEF ClientInv, Claimed, Printer, Live
    <2> QED BY <1>1, <1>2, <2>1, BusAssumption
            DEF TypeOK, BusTypeOK, ReleaseInterface
  <1>4. pc[c] \in {"reconnect", "closing"} /\ sess[c].held
    BY <1>1, <1>2 DEF ClientInv, Control, Holding, Opened, Walking, TypeOK,
       SessionTypeOK, Pcs
  <1>5. CASE cpc' = [cpc EXCEPT ![c] = "attach"] /\ UNCHANGED <<handle, sess>>
             /\ pc[c] = "closing"
    <2>1. TypeOK' /\ OthersSame(c)
      BY <1>1, <1>2, <1>3, <1>5 DEF TypeOK, BusTypeOK, ClaimTypeOK, ClaimPcs,
         SessionTypeOK, OthersSame, BytesSame, callVars, history
    <2>2. cpc'[c] = "attach"
      BY <1>1, <1>5 DEF TypeOK, ClaimTypeOK
    <2>3. Control(c)' /\ Holding(c)'
      BY <1>1, <1>4, <1>5, <2>2 DEF callVars, history, ClientInv, Control,
         Holding, Opened, Printer
    <2>4. Target(c)' /\ Claimed(c)'
      BY <1>1, <1>2, <1>3, <1>4, <1>5, <2>2 DEF callVars, history, ClientInv,
         Target, Claimed, Printer, Live
    <2>5. BytesInv(c)'
      BY <1>1, <1>4, <1>5, BytesKept DEF callVars, history, ClientInv,
         BytesInv, BytesSame
    <2> QED BY <2>1, <2>3, <2>4, <2>5 DEF StepOk, ClientInv, BytesInv
  <1>6. CASE cpc' = [cpc EXCEPT ![c] = "closed"] /\ ForgetHandle(c)
    <2>1. TypeOK' /\ OthersSame(c)
      BY <1>1, <1>2, <1>3, <1>6, ForgetTypes DEF TypeOK, BusTypeOK,
         ClaimTypeOK, ClaimPcs, SessionTypeOK, OthersSame, BytesSame,
         callVars, history
    <2>2. cpc'[c] = "closed"
      BY <1>1, <1>6 DEF TypeOK, ClaimTypeOK
    <2>3. Control(c)' /\ Holding(c)'
      BY <1>1, <1>4, <1>6, <2>2, ForgetTypes DEF callVars, history, ClientInv,
         Control, Holding, Opened, Printer
    <2>4. Target(c)' /\ Claimed(c)'
      BY <1>1, <1>2, <1>3, <1>4, <1>6, <2>2, ForgetTypes DEF callVars,
         history, ClientInv, Target, Claimed, Walking, Opened, Printer, Live
    <2>5. BytesInv(c)'
      BY <1>1, <1>4, <1>6, ForgetTypes, BytesKept DEF callVars, history,
         ClientInv, BytesInv, BytesSame
    <2> QED BY <2>1, <2>3, <2>4, <2>5 DEF StepOk, ClientInv, BytesInv
  <1> QED BY <1>2, <1>5, <1>6

\* close_session_handle hands the interface back to usblp (lines 164-168).
LEMMA AttachBackStep ==
  ASSUME NEW c \in Clients, OwnInv(c), AttachBack(c),
         UNCHANGED <<callVars, history>>
  PROVE  StepOk(c)
  <1>1. TypeOK /\ ClientInv(c)
    BY DEF OwnInv
  <1>2. /\ cpc[c] = "attach" /\ cpc' = [cpc EXCEPT ![c] = "closed"]
        /\ AttachDriver(c) /\ ForgetHandle(c)
        /\ UNCHANGED <<plugged, owner, list, want, try, result>>
    BY DEF AttachBack, Goto
  <1>3. driver' \in [Printers -> Drivers]
    BY <1>1, <1>2 DEF TypeOK, BusTypeOK, AttachDriver, Drivers
  <1>4. /\ pc[c] = "closing" /\ sess[c].held
        /\ \A p \in Printers : owner[p] # c
    BY <1>1, <1>2 DEF ClientInv, Control, Holding, Claimed, Walking, Opened,
       TypeOK, SessionTypeOK, Pcs
  <1>5. TypeOK' /\ OthersSame(c)
    BY <1>1, <1>2, <1>3, ForgetTypes DEF TypeOK, BusTypeOK, ClaimTypeOK,
       ClaimPcs, SessionTypeOK, OthersSame, BytesSame, callVars, history
  <1>6. cpc'[c] = "closed"
    BY <1>1, <1>2 DEF TypeOK, ClaimTypeOK
  <1>7. Control(c)' /\ Holding(c)'
    BY <1>1, <1>4, <1>6, <1>2, ForgetTypes DEF callVars, history, ClientInv,
       Control, Holding, Opened, Printer
  <1>8. Target(c)' /\ Claimed(c)'
    BY <1>1, <1>2, <1>4, <1>6, ForgetTypes DEF callVars, history, ClientInv,
       Target, Claimed, Walking, Opened, Printer, Live
  <1>9. BytesInv(c)'
    BY <1>1, <1>2, <1>4, ForgetTypes, BytesKept DEF callVars, history,
       ClientInv, BytesInv, BytesSame
  <1> QED BY <1>5, <1>7, <1>8, <1>9 DEF StepOk, ClientInv, BytesInv

\* A step of the walk: it stays inside claim_device's loop and leaves the
\* session's call, its bytes and the other clients alone.
LEMMA WalkFacts ==
  ASSUME NEW c \in Clients, OwnInv(c), cpc[c] \in Opened \cup {"scan"}
  PROVE  /\ pc[c] \in {"opening", "reconnect"} /\ ~sess[c].held
         /\ want[c] = job[c].to /\ job[c].to \in Printers
         /\ result[c] # "SUCCESS" /\ \A p \in Printers : owner[p] # c
  <1>1. TypeOK /\ ClientInv(c)
    BY DEF OwnInv
  <1>2. /\ pc[c] \in {"opening", "reconnect"} /\ ~sess[c].held
        /\ result[c] # "SUCCESS"
    BY <1>1 DEF TypeOK, SessionTypeOK, Pcs, ClientInv, Control, Holding, Opened
  <1> QED BY <1>1, <1>2 DEF ClientInv, Target, Claimed, Walking

\* What a step that claims nothing has to show.
LEMMA WalkOn ==
  ASSUME NEW c \in Clients, NEW to \in Opened \cup {"scan"}, OwnInv(c),
         cpc[c] \in Opened \cup {"scan"}, cpc' = [cpc EXCEPT ![c] = to],
         driver' \in [Printers -> Drivers],
         handle' \in [Clients -> Device \cup {NoRef}],
         list' \in [Clients -> SUBSET Device],
         try' \in [Clients -> TryRec], result' \in [Clients -> Codes],
         \A d \in Clients \ {c} : handle'[d] = handle[d] /\ try'[d] = try[d]
                                                /\ result'[d] = result[d],
         UNCHANGED <<plugged, owner, want, sess, callVars, history>>,
         to \in Opened => handle'[c].dev \in Printers,
         to \in {"active", "detach", "claim", "undo"} =>
             try'[c].serial = job[c].to /\ handle'[c].dev = job[c].to,
         to = "scan" => handle'[c] = NoRef,
         result'[c] # "SUCCESS"
  PROVE  StepOk(c)
  <1>1. TypeOK /\ ClientInv(c)
    BY DEF OwnInv
  <1>2. TypeOK' /\ OthersSame(c)
    BY <1>1 DEF TypeOK, BusTypeOK, ClaimTypeOK, SessionTypeOK, ClaimPcs,
       Opened, OthersSame, BytesSame, callVars, history
  <1>3. cpc'[c] = to
    BY <1>1 DEF TypeOK, ClaimTypeOK
  <1>4. Control(c)' /\ Holding(c)'
    BY <1>1, <1>3, WalkFacts DEF callVars, history, Control, Holding, Opened,
       Walking, Printer
  <1>5. Target(c)' /\ Claimed(c)'
    BY <1>1, <1>3, WalkFacts DEF callVars, history, ClientInv, Target,
       Claimed, Opened, Walking, Printer, Live
  <1>6. BytesInv(c)'
    BY <1>1, WalkFacts, BytesKept DEF callVars, history, ClientInv, BytesInv,
       BytesSame
  <1> QED BY <1>2, <1>4, <1>5, <1>6 DEF StepOk, ClientInv, BytesInv

\* An error return of claim_device closes the handle it opened.
LEMMA GiveUpStep ==
  ASSUME NEW c \in Clients, NEW from \in Opened, NEW code \in Codes,
         code # "SUCCESS", OwnInv(c), GiveUp(c, from, code),
         driver' \in [Printers -> Drivers],
         UNCHANGED <<callVars, history>>
  PROVE  StepOk(c)
  <1>1. TypeOK
    BY DEF OwnInv
  <1>2. /\ cpc[c] = from /\ cpc' = [cpc EXCEPT ![c] = "scan"]
        /\ handle' = [handle EXCEPT ![c] = NoRef]
        /\ UNCHANGED <<plugged, owner, list, want, try, sess>>
    BY DEF GiveUp, Goto, CloseHandle
  <1>3. /\ result' \in [Clients -> Codes] /\ result'[c] # "SUCCESS"
        /\ \A d \in Clients \ {c} : result'[d] = result[d]
    BY <1>1, <1>2, WalkFacts DEF TypeOK, ClaimTypeOK, GiveUp, Record
  <1>4. /\ handle' \in [Clients -> Device \cup {NoRef}]
        /\ handle'[c] = NoRef
        /\ \A d \in Clients \ {c} : handle'[d] = handle[d]
    BY <1>1, <1>2 DEF TypeOK, BusTypeOK
  <1>5. list' \in [Clients -> SUBSET Device] /\ try' \in [Clients -> TryRec]
    BY <1>1, <1>2 DEF TypeOK, BusTypeOK, ClaimTypeOK
  <1> QED BY <1>2, <1>3, <1>4, <1>5, WalkOn DEF Opened

\* The walk opens the next device of the list, or fails to.
LEMMA ScanOpenStep ==
  ASSUME NEW c \in Clients, OwnInv(c), ScanOpen(c),
         UNCHANGED <<callVars, history>>
  PROVE  StepOk(c)
  <1>1. TypeOK /\ ClientInv(c)
    BY DEF OwnInv
  <1>2. /\ cpc[c] = "scan"
        /\ UNCHANGED <<plugged, driver, owner, want, try, sess>>
    BY DEF ScanOpen, Goto
  <1>3. PICK r \in list[c] :
          /\ list' = [list EXCEPT ![c] = @ \ {r}]
          /\ \/ /\ cpc' = [cpc EXCEPT ![c] = "serial"]
                /\ handle' = [handle EXCEPT ![c] = r]
                /\ UNCHANGED result
             \/ /\ cpc' = [cpc EXCEPT ![c] = "scan"]
                /\ Record(c, ErrorOf(r))
                /\ UNCHANGED handle
    BY DEF ScanOpen, Goto
  <1>4. r \in Device /\ r.dev \in Printers
    BY <1>1, <1>3 DEF TypeOK, BusTypeOK, Device
  <1>5. list' \in [Clients -> SUBSET Device]
    BY <1>1, <1>3 DEF TypeOK, BusTypeOK
  <1>6. driver' \in [Printers -> Drivers] /\ try' = try
        /\ try' \in [Clients -> TryRec]
    BY <1>1, <1>2 DEF TypeOK, BusTypeOK, ClaimTypeOK
  <1>7. CASE /\ cpc' = [cpc EXCEPT ![c] = "serial"]
             /\ handle' = [handle EXCEPT ![c] = r]
             /\ UNCHANGED result
    <2>1. /\ handle' \in [Clients -> Device \cup {NoRef}]
          /\ handle'[c] = r
          /\ \A d \in Clients \ {c} : handle'[d] = handle[d]
          /\ result' \in [Clients -> Codes] /\ result'[c] # "SUCCESS"
      BY <1>1, <1>2, <1>4, <1>7, WalkFacts DEF TypeOK, BusTypeOK, ClaimTypeOK
    <2> QED BY <1>2, <1>4, <1>5, <1>6, <1>7, <2>1, WalkOn DEF Opened
  <1>8. CASE /\ cpc' = [cpc EXCEPT ![c] = "scan"]
             /\ Record(c, ErrorOf(r))
             /\ UNCHANGED handle
    <2>1. /\ result' \in [Clients -> Codes] /\ result'[c] # "SUCCESS"
          /\ \A d \in Clients \ {c} : result'[d] = result[d]
      BY <1>1, <1>2, <1>8, ErrorOfCode, WalkFacts
         DEF TypeOK, ClaimTypeOK, Record
    <2>2. handle[c] = NoRef
      BY <1>1, <1>2 DEF ClientInv, Holding, Opened
    <2>3. handle' \in [Clients -> Device \cup {NoRef}] /\ handle'[c] = NoRef
      BY <1>1, <1>8, <2>2 DEF TypeOK, BusTypeOK
    <2> QED BY <1>2, <1>5, <1>6, <1>8, <2>1, <2>3, WalkOn DEF Opened
  <1> QED BY <1>3, <1>7, <1>8

\* The walk is through the list and has claimed nothing.
LEMMA ScanEndStep ==
  ASSUME NEW c \in Clients, OwnInv(c), ScanEnd(c),
         UNCHANGED <<callVars, history>>
  PROVE  StepOk(c)
  <1>1. TypeOK /\ ClientInv(c)
    BY DEF OwnInv
  <1>2. /\ cpc[c] = "scan" /\ cpc' = [cpc EXCEPT ![c] = "done"]
        /\ UNCHANGED <<busVars, want, try, result, sess>>
    BY DEF ScanEnd, Goto
  <1>3. TypeOK' /\ OthersSame(c)
    BY <1>1, <1>2 DEF TypeOK, BusTypeOK, ClaimTypeOK, ClaimPcs, SessionTypeOK,
       OthersSame, BytesSame, busVars, callVars, history
  <1>4. cpc'[c] = "done"
    BY <1>1, <1>2 DEF TypeOK, ClaimTypeOK
  <1>5. Control(c)' /\ Holding(c)'
    BY <1>1, <1>2, <1>4, WalkFacts DEF busVars, callVars, history, ClientInv,
       Control, Holding, Opened, Walking, Printer
  <1>6. Target(c)' /\ Claimed(c)'
    BY <1>1, <1>2, <1>4, WalkFacts DEF busVars, callVars, history, ClientInv,
       Target, Claimed, Opened, Walking, Printer, Live
  <1>7. BytesInv(c)'
    BY <1>1, <1>2, WalkFacts, BytesKept DEF busVars, callVars, history,
       ClientInv, BytesInv, BytesSame
  <1> QED BY <1>3, <1>5, <1>6, <1>7 DEF StepOk, ClientInv, BytesInv

\* Only a device with the wanted serial number gets past this step, for a
\* session always wants one (lines 194-204).
LEMMA ReadSerialStep ==
  ASSUME NEW c \in Clients, OwnInv(c), ReadSerial(c),
         UNCHANGED <<callVars, history>>
  PROVE  StepOk(c)
  <1>1. TypeOK /\ ClientInv(c)
    BY DEF OwnInv
  <1>2. ASSUME NEW code \in {"ERROR", "NO_DEVICE"},
               GiveUp(c, "serial", code), UNCHANGED driver
        PROVE  StepOk(c)
    <2>1. code \in Codes /\ code # "SUCCESS"
      BY DEF Codes
    <2>2. driver' \in [Printers -> Drivers]
      BY <1>1, <1>2 DEF TypeOK, BusTypeOK
    <2> QED BY <1>2, <2>1, <2>2, GiveUpStep DEF Opened
  <1>3. ASSUME NEW s, SerialIs(c, s), s = Printer(c) /\ want[c] = s
        PROVE  StepOk(c)
    <2>1. /\ cpc[c] = "serial" /\ cpc' = [cpc EXCEPT ![c] = "active"]
          /\ try' = [try EXCEPT ![c] = [serial |-> s, detached |-> FALSE]]
          /\ UNCHANGED <<busVars, want, result, sess>>
      BY <1>3 DEF SerialIs, Goto
    <2>2. Printer(c) \in Printers /\ want[c] = job[c].to
      BY <1>1, <2>1, WalkFacts DEF ClientInv, Holding, Opened
    <2>3. /\ try' \in [Clients -> TryRec] /\ try'[c].serial = s
          /\ \A d \in Clients \ {c} : try'[d] = try[d]
      BY <1>1, <1>3, <2>1, <2>2 DEF TypeOK, ClaimTypeOK, TryRec, Serials
    <2>4. /\ driver' \in [Printers -> Drivers]
          /\ handle' \in [Clients -> Device \cup {NoRef}]
          /\ list' \in [Clients -> SUBSET Device]
          /\ result' \in [Clients -> Codes] /\ result'[c] # "SUCCESS"
          /\ handle' = handle /\ UNCHANGED <<plugged, owner, result>>
      BY <1>1, <2>1, WalkFacts DEF TypeOK, BusTypeOK, ClaimTypeOK, busVars,
         Opened
    <2> QED BY <1>3, <2>1, <2>2, <2>3, <2>4, WalkOn DEF Opened, Printer
  <1>4. want[c] # NoPrinter
    <2>1. cpc[c] = "serial"
      BY DEF ReadSerial, SerialIs, GiveUp, Goto
    <2> QED BY <2>1, WalkFacts, BusAssumption DEF Opened
  <1>5. ErrorOf(handle[c]) \in {"ERROR", "NO_DEVICE"}
    BY DEF ErrorOf
  <1> QED BY <1>2, <1>3, <1>4, <1>5 DEF ReadSerial

\* The walk asks for the kernel driver (lines 206-211).
LEMMA DriverActiveStep ==
  ASSUME NEW c \in Clients, OwnInv(c), DriverActive(c),
         UNCHANGED <<callVars, history>>
  PROVE  StepOk(c)
  <1>1. TypeOK /\ ClientInv(c)
    BY DEF OwnInv
  <1>2. CASE GiveUp(c, "active", ErrorOf(handle[c])) /\ UNCHANGED driver
    <2>1. ErrorOf(handle[c]) \in Codes /\ ErrorOf(handle[c]) # "SUCCESS"
      BY DEF ErrorOf, Codes
    <2>2. driver' \in [Printers -> Drivers]
      BY <1>1, <1>2 DEF TypeOK, BusTypeOK
    <2> QED BY <1>2, <2>1, <2>2, GiveUpStep DEF Opened
  <1>3. ASSUME NEW to \in {"detach", "claim"}, Goto(c, "active", to),
               UNCHANGED <<busVars, want, try, result, sess>>
        PROVE  StepOk(c)
    <2>1. cpc[c] = "active" /\ cpc' = [cpc EXCEPT ![c] = to]
      BY <1>3 DEF Goto
    <2>2. try[c].serial = job[c].to /\ handle[c].dev = job[c].to
      BY <1>1, <2>1 DEF ClientInv, Target, Printer
    <2>3. /\ driver' \in [Printers -> Drivers]
          /\ handle' \in [Clients -> Device \cup {NoRef}]
          /\ list' \in [Clients -> SUBSET Device]
          /\ try' \in [Clients -> TryRec]
          /\ result' \in [Clients -> Codes] /\ result'[c] # "SUCCESS"
          /\ handle' = handle /\ UNCHANGED <<plugged, owner, result>>
      BY <1>1, <1>3, <2>1, WalkFacts DEF TypeOK, BusTypeOK, ClaimTypeOK,
         busVars, Opened
    <2> QED BY <1>3, <2>1, <2>2, <2>3, WalkFacts, WalkOn DEF Opened
  <1> QED BY <1>2, <1>3 DEF DriverActive

\* The walk detaches usblp (lines 213-220).
LEMMA DetachStep ==
  ASSUME NEW c \in Clients, OwnInv(c), Detach(c),
         UNCHANGED <<callVars, history>>
  PROVE  StepOk(c)
  <1>1. TypeOK /\ ClientInv(c)
    BY DEF OwnInv
  <1>2. CASE GiveUp(c, "detach", ErrorOf(handle[c])) /\ UNCHANGED driver
    <2>1. ErrorOf(handle[c]) \in Codes /\ ErrorOf(handle[c]) # "SUCCESS"
      BY DEF ErrorOf, Codes
    <2>2. driver' \in [Printers -> Drivers]
      BY <1>1, <1>2 DEF TypeOK, BusTypeOK
    <2> QED BY <1>2, <2>1, <2>2, GiveUpStep DEF Opened
  <1>3. CASE /\ Goto(c, "detach", "claim")
             /\ DetachDriver(c)
             /\ try' = [try EXCEPT ![c].detached = TRUE]
             /\ UNCHANGED <<plugged, owner, handle, list, want, result, sess>>
    <2>1. cpc[c] = "detach" /\ cpc' = [cpc EXCEPT ![c] = "claim"]
      BY <1>3 DEF Goto
    <2>2. try[c].serial = job[c].to /\ handle[c].dev = job[c].to
      BY <1>1, <2>1 DEF ClientInv, Target, Printer
    <2>3. /\ try' \in [Clients -> TryRec] /\ try'[c].serial = try[c].serial
          /\ \A d \in Clients \ {c} : try'[d] = try[d]
      <3>1. /\ try \in [Clients -> TryRec]
            /\ try' = [try EXCEPT ![c].detached = TRUE]
        BY <1>1, <1>3 DEF TypeOK, ClaimTypeOK
      <3> QED BY <3>1 DEF TryRec
    <2>4. /\ driver' \in [Printers -> Drivers]
          /\ handle' \in [Clients -> Device \cup {NoRef}]
          /\ list' \in [Clients -> SUBSET Device]
      BY <1>1, <1>3 DEF TypeOK, BusTypeOK, ClaimTypeOK, DetachDriver, Drivers
    <2>5. result' \in [Clients -> Codes] /\ result'[c] # "SUCCESS"
      BY <1>1, <1>3, <2>1, WalkFacts DEF TypeOK, ClaimTypeOK, Opened
    <2> QED BY <1>3, <2>1, <2>2, <2>3, <2>4, <2>5, WalkFacts, WalkOn
            DEF Opened
  <1> QED BY <1>2, <1>3 DEF Detach

\* The walk gives usblp back what it could not claim (lines 222-229).
LEMMA UndoStep ==
  ASSUME NEW c \in Clients, OwnInv(c), Undo(c),
         UNCHANGED <<callVars, history>>
  PROVE  StepOk(c)
  <1>1. TypeOK /\ ClientInv(c)
    BY DEF OwnInv
  <1>2. /\ cpc[c] = "undo" /\ cpc' = [cpc EXCEPT ![c] = "scan"]
        /\ AttachDriver(c) /\ handle' = [handle EXCEPT ![c] = NoRef]
        /\ UNCHANGED <<plugged, owner, list, want, try, result, sess>>
    BY DEF Undo, Goto, CloseHandle
  <1>3. driver' \in [Printers -> Drivers]
    BY <1>1, <1>2 DEF TypeOK, BusTypeOK, AttachDriver, Drivers
  <1>4. /\ handle' \in [Clients -> Device \cup {NoRef}]
        /\ handle'[c] = NoRef
        /\ \A d \in Clients \ {c} : handle'[d] = handle[d]
    BY <1>1, <1>2 DEF TypeOK, BusTypeOK
  <1>5. /\ list' \in [Clients -> SUBSET Device] /\ try' \in [Clients -> TryRec]
        /\ result' \in [Clients -> Codes] /\ result'[c] # "SUCCESS"
    BY <1>1, <1>2, WalkFacts DEF TypeOK, BusTypeOK, ClaimTypeOK, Opened
  <1> QED BY <1>2, <1>3, <1>4, <1>5, WalkOn DEF Opened

\* The one step of a walk that takes a claim, or loses the race for it.
LEMMA ClaimStep ==
  ASSUME NEW c \in Clients, OwnInv(c), Claim(c),
         UNCHANGED <<callVars, history>>
  PROVE  StepOk(c)
  <1>1. TypeOK /\ ClientInv(c)
    BY DEF OwnInv
  <1>2. cpc[c] = "claim"
    BY DEF Claim, Goto, GiveUp
  <1>3. /\ Printer(c) \in Printers /\ Printer(c) = job[c].to
        /\ try[c].serial = job[c].to
    BY <1>1, <1>2 DEF ClientInv, Holding, Target, Opened
  <1>4. ErrorOf(handle[c]) \in Codes /\ ErrorOf(handle[c]) # "SUCCESS"
    BY DEF ErrorOf, Codes
  <1>5. CASE GiveUp(c, "claim", ErrorOf(handle[c])) /\ UNCHANGED driver
    <2>1. driver' \in [Printers -> Drivers]
      BY <1>1, <1>5 DEF TypeOK, BusTypeOK
    <2> QED BY <1>4, <1>5, <2>1, GiveUpStep DEF Opened
  <1>6. CASE /\ Goto(c, "claim", "undo")
             /\ Record(c, ErrorOf(handle[c]))
             /\ UNCHANGED <<busVars, want, try, sess>>
    <2>1. cpc' = [cpc EXCEPT ![c] = "undo"]
      BY <1>6 DEF Goto
    <2>2. /\ result' \in [Clients -> Codes] /\ result'[c] # "SUCCESS"
          /\ \A d \in Clients \ {c} : result'[d] = result[d]
      BY <1>1, <1>2, <1>4, <1>6, WalkFacts
         DEF TypeOK, ClaimTypeOK, Record, Opened
    <2>3. /\ driver' \in [Printers -> Drivers]
          /\ handle' \in [Clients -> Device \cup {NoRef}]
          /\ list' \in [Clients -> SUBSET Device]
          /\ try' \in [Clients -> TryRec]
          /\ handle' = handle /\ try' = try /\ UNCHANGED <<plugged, owner>>
      BY <1>1, <1>6 DEF TypeOK, BusTypeOK, ClaimTypeOK, busVars
    <2> QED BY <1>2, <1>3, <1>6, <2>1, <2>2, <2>3, WalkOn DEF Opened, Printer
  <1>7. CASE /\ Goto(c, "claim", "done")
             /\ ClaimInterface(c)
             /\ sess' = [sess EXCEPT ![c] =
                           [held |-> TRUE, detached |-> try[c].detached,
                            serial |-> try[c].serial, accepted |-> 0,
                            last_error |-> "SUCCESS"]]
             /\ result' = [result EXCEPT ![c] = "SUCCESS"]
             /\ list' = [list EXCEPT ![c] = {}]
             /\ UNCHANGED <<plugged, driver, handle, want, try>>
    <2>1. /\ cpc' = [cpc EXCEPT ![c] = "done"]
          /\ Live(c) /\ owner[Printer(c)] = NoClient
          /\ owner' = [owner EXCEPT ![Printer(c)] = c]
      BY <1>7 DEF Goto, ClaimInterface
    <2>2. sess' \in [Clients -> SessRec]
      <3>1. [held |-> TRUE, detached |-> try[c].detached,
             serial |-> try[c].serial, accepted |-> 0,
             last_error |-> "SUCCESS"] \in SessRec
        BY <1>1, CodeFacts DEF TypeOK, ClaimTypeOK, TryRec, SessRec
      <3> QED BY <1>1, <1>7, <3>1 DEF TypeOK, ClaimTypeOK
    <2>3. BusTypeOK'
      BY <1>1, <1>7, <2>1 DEF TypeOK, BusTypeOK
    <2>4. ClaimTypeOK' /\ SessionTypeOK'
      BY <1>1, <1>7, <2>1, <2>2, CodeFacts DEF TypeOK, ClaimTypeOK, ClaimPcs,
         SessionTypeOK, callVars, history
    <2>5. \A p \in Printers : /\ owner'[p] = c <=> p = Printer(c)
                              /\ \A d \in Clients \ {c} :
                                    owner'[p] = d <=> owner[p] = d
      BY <1>1, <1>2, <1>3, <2>1, WalkFacts, BusAssumption
         DEF TypeOK, BusTypeOK, Opened
    <2>6. OthersSame(c)
      BY <1>1, <1>7, <2>1, <2>5 DEF TypeOK, BusTypeOK, ClaimTypeOK, OthersSame,
         BytesSame, callVars, history
    <2>7. /\ cpc'[c] = "done" /\ result'[c] = "SUCCESS"
          /\ sess'[c].held /\ sess'[c].serial = job[c].to
          /\ sess'[c].accepted = 0
      BY <1>1, <1>3, <1>7, <2>1 DEF TypeOK, ClaimTypeOK
    <2>8. pc[c] \in {"opening", "reconnect"} /\ want[c] = job[c].to
      BY <1>2, WalkFacts DEF Opened
    <2>9. Control(c)' /\ Holding(c)'
      BY <1>1, <2>7, <2>8 DEF callVars, history, Control, Holding, Opened,
         Walking
    <2>10. Target(c)' /\ Claimed(c)'
      BY <1>1, <1>3, <1>7, <2>1, <2>5, <2>7, <2>8 DEF callVars, history,
         ClientInv, Target, Claimed, Opened, Walking, Printer, Live
    <2>11. sess[c].accepted = 0
      BY <1>1, <2>8 DEF ClientInv, Counters
    <2>12. BytesInv(c)'
      BY <1>1, <2>7, <2>8, <2>11, BytesKept DEF callVars, history, ClientInv,
         BytesInv, BytesSame
    <2> QED BY <2>3, <2>4, <2>6, <2>9, <2>10, <2>12
            DEF StepOk, TypeOK, ClientInv, BytesInv
  <1> QED BY <1>5, <1>6, <1>7 DEF Claim, FillSession

-----------------------------------------------------------------------------
(* The steps of the environment touch every client that has the printer    *)
(* open or claimed.                                                        *)

\* An unplug kills every handle and claim on the printer, and tears the job
\* that was printing on it.
LEMMA PrinterLeavesStep ==
  ASSUME NEW p \in Printers, TypeOK, PrinterLeaves(p)
  PROVE  TypeOK' /\ \A c \in Clients : ClientInv(c) => ClientInv(c)'
  <1>1. TypeOK
    OBVIOUS
  <1>2. /\ plugged' = plugged \ {p}
        /\ driver' = [driver EXCEPT ![p] = "none"]
        /\ owner' = [owner EXCEPT ![p] = NoClient]
        /\ handle' = [c \in Clients |-> Stale(handle[c], p)]
        /\ list' = [c \in Clients |-> {Stale(r, p) : r \in list[c]}]
        /\ UNCHANGED <<claimVars, callVars>>
    BY DEF PrinterLeaves, Unplug
  <1>3. \A r \in Device : Stale(r, p) \in Device /\ Stale(r, p).dev = r.dev
                           /\ (Stale(r, p).live <=> r.live /\ r.dev # p)
    BY DEF Stale, Device
  <1>4. Stale(NoRef, p) = NoRef /\ NoRef.live = FALSE
    BY BusAssumption DEF Stale, NoRef
  <1>5. \A c \in Clients :
          /\ handle'[c] \in Device \cup {NoRef}
          /\ handle[c] = NoRef => handle'[c] = NoRef
          /\ handle'[c].dev = handle[c].dev
          /\ handle'[c].live <=> handle[c].live /\ handle[c].dev # p
    <2> SUFFICES ASSUME NEW c \in Clients
                 PROVE  /\ handle'[c] \in Device \cup {NoRef}
                        /\ handle[c] = NoRef => handle'[c] = NoRef
                        /\ handle'[c].dev = handle[c].dev
                        /\ handle'[c].live <=>
                              handle[c].live /\ handle[c].dev # p
      OBVIOUS
    <2>1. handle'[c] = Stale(handle[c], p)
      BY <1>2
    <2>2. handle[c] \in Device \/ handle[c] = NoRef
      BY <1>1 DEF TypeOK, BusTypeOK
    <2>3. CASE handle[c] = NoRef
      BY <2>1, <2>3, <1>4
    <2>4. CASE handle[c] \in Device /\ handle[c] # NoRef
      BY <2>1, <2>4, <1>3
    <2> QED BY <2>2, <2>3, <2>4
  <1>6. BusTypeOK'
    <2>1. \A c \in Clients : {Stale(r, p) : r \in list[c]} \in SUBSET Device
      BY <1>1, <1>3 DEF TypeOK, BusTypeOK
    <2>2. list' \in [Clients -> SUBSET Device]
      BY <1>2, <2>1
    <2>3. handle' \in [Clients -> Device \cup {NoRef}]
      BY <1>2, <1>5
    <2>4. driver' \in [Printers -> Drivers] /\ plugged' \subseteq Printers
          /\ owner' \in [Printers -> Clients \cup {NoClient}]
      BY <1>1, <1>2 DEF TypeOK, BusTypeOK, Drivers
    <2> QED BY <2>2, <2>3, <2>4 DEF BusTypeOK
  <1>7. \A c \in Clients :
          job'[c] = [job[c] EXCEPT !.torn =
                       @ \/ (handle[c] = [dev |-> p, live |-> TRUE]
                               /\ job[c].got # <<>>)]
    BY DEF PrinterLeaves
  <1>8. \A c \in Clients :
          /\ job'[c] \in JobRec
          /\ job'[c].to = job[c].to /\ job'[c].sent = job[c].sent
          /\ job'[c].got = job[c].got /\ job'[c].failed = job[c].failed
          /\ job'[c].torn =>
                job[c].torn \/ (handle[c] = [dev |-> p, live |-> TRUE]
                                 /\ job[c].got # <<>>)
    <2> SUFFICES ASSUME NEW c \in Clients
                 PROVE  /\ job'[c] \in JobRec
                        /\ job'[c].to = job[c].to /\ job'[c].sent = job[c].sent
                        /\ job'[c].got = job[c].got
                        /\ job'[c].failed = job[c].failed
                        /\ job'[c].torn =>
                              \/ job[c].torn
                              \/ /\ handle[c] = [dev |-> p, live |-> TRUE]
                                 /\ job[c].got # <<>>
      OBVIOUS
    <2> DEFINE was == handle[c] = [dev |-> p, live |-> TRUE]
                        /\ job[c].got # <<>>
    <2>1. job[c] \in JobRec
      BY <1>1 DEF TypeOK, SessionTypeOK
    <2>2. PICK b \in BOOLEAN : b = (job[c].torn \/ was)
      BY <2>1 DEF JobRec
    <2>3. job'[c] = [job[c] EXCEPT !.torn = b]
      BY <1>7, <2>2
    <2> HIDE DEF was
    <2>4. /\ job'[c] \in JobRec
          /\ job'[c].to = job[c].to /\ job'[c].sent = job[c].sent
          /\ job'[c].got = job[c].got /\ job'[c].failed = job[c].failed
          /\ job'[c].torn = b
      BY <2>1, <2>3 DEF JobRec
    <2> QED BY <2>2, <2>4 DEF was
  <1>9. TypeOK'
    <2>1. job' \in [Clients -> JobRec]
      <3>1. job' = [c \in Clients |-> job'[c]]
        BY DEF PrinterLeaves
      <3> QED BY <3>1, <1>8
    <2>2. printed' \subseteq Printers
      BY <1>1 DEF TypeOK, SessionTypeOK, PrinterLeaves
    <2> QED BY <1>1, <1>2, <1>6, <2>1, <2>2 DEF TypeOK, ClaimTypeOK,
            SessionTypeOK, claimVars, callVars
  <1>10. ASSUME NEW c \in Clients, ClientInv(c) PROVE ClientInv(c)'
    <2>1. Control(c)' /\ Holding(c)'
      BY <1>10, <1>1, <1>2, <1>5, <1>8
         DEF claimVars, callVars, ClientInv, Control,
         Holding, Printer
    <2>2. Target(c)'
      BY <1>10, <1>1, <1>2, <1>5, <1>8
         DEF claimVars, callVars, ClientInv, Target,
         Printer
    <2>3. Claimed(c)'
      BY <1>10, <1>1, <1>2, <1>5, BusAssumption
         DEF TypeOK, BusTypeOK, claimVars,
         callVars, ClientInv, Claimed, Printer, Live
    <2>4. TornIsDead(c)'
      BY <1>10, <1>1, <1>2, <1>5, <1>8
         DEF claimVars, callVars, ClientInv, TornIsDead,
         Live
    <2>5. pc[c] = "opening" => ~job'[c].torn
      <3>1. pc[c] = "opening" => job[c].got = <<>>
        <4>1. pc[c] = "opening" => Len(job[c].got) = 0
          <5>1. ClientInv(c) /\ TypeOK
            BY <1>1, <1>10
          <5>2. Counters(c) /\ pc[c] = "opening" =>
                  /\ Len(job[c].got) = sess[c].accepted + wire[c]
                  /\ sess[c].accepted = 0 /\ wire[c] = 0
            BY DEF Counters
          <5> QED BY <5>1, <5>2 DEF ClientInv
        <4> QED BY <1>1, <4>1, CounterTypes
      <3> QED BY <1>10, <1>1, <1>8, <3>1 DEF ClientInv, Counters
    <2>6. Counters(c)'
      BY <1>10, <1>1, <1>2, <1>8, <2>5
         DEF claimVars, callVars, ClientInv, Counters
    <2>7. Increasing(c)'
      BY <1>10, <1>1, <1>2, <1>8 DEF claimVars, callVars, ClientInv, Increasing
    <2>8. Complete(c)'
      BY <1>10, <1>1, <1>2, <1>8 DEF claimVars, callVars, ClientInv, Complete
    <2> QED BY <2>1, <2>2, <2>3, <2>4, <2>6, <2>7, <2>8 DEF ClientInv
  <1> QED BY <1>9, <1>10

\* A step that changes neither claims nor handles nor the client keeps its
\* invariant.
LEMMA Unbothered ==
  ASSUME NEW c \in Clients, ClientInv(c),
         UNCHANGED <<owner, handle, claimVars, callVars, history>>
  PROVE  ClientInv(c)'
  <1>1. Control(c)' /\ Holding(c)' /\ Target(c)' /\ Claimed(c)'
    BY DEF claimVars, callVars, history, ClientInv, Control, Holding, Target,
       Claimed, Printer, Live
  <1>2. Counters(c)' /\ Increasing(c)' /\ TornIsDead(c)' /\ Complete(c)'
    BY DEF claimVars, callVars, history, ClientInv, Counters, Increasing,
       TornIsDead, Complete, Live
  <1> QED BY <1>1, <1>2 DEF ClientInv

\* A plug makes a new enumeration that no client has opened yet.
LEMMA PrinterArrivesStep ==
  ASSUME NEW p \in Printers, TypeOK, PrinterArrives(p)
  PROVE  TypeOK' /\ \A c \in Clients : ClientInv(c) => ClientInv(c)'
  <1>1. TypeOK
    OBVIOUS
  <1>2. UNCHANGED <<owner, handle, list, claimVars, callVars, history>>
    BY DEF PrinterArrives, Plug
  <1>3. plugged' \subseteq Printers /\ driver' \in [Printers -> Drivers]
    BY <1>1 DEF TypeOK, BusTypeOK, PrinterArrives, Plug
  <1>4. TypeOK'
    BY <1>1, <1>2, <1>3 DEF TypeOK, BusTypeOK, ClaimTypeOK, SessionTypeOK,
       claimVars, callVars, history
  <1>5. \A c \in Clients : ClientInv(c) => ClientInv(c)'
    BY <1>2, Unbothered
  <1> QED BY <1>4, <1>5

-----------------------------------------------------------------------------
(* The invariant. *)

\* The invariant holds initially.
LEMMA InitInv == Init => SessionInv
  <1> SUFFICES ASSUME Init, NEW c \in Clients PROVE ClientInv(c)
    BY InitTypeOK DEF SessionInv
  <1>1. /\ pc[c] = "none" /\ cpc[c] = "idle" /\ sess[c] = ClosedSession
        /\ job[c] = NewJob(NoPrinter) /\ handle[c] = NoRef /\ wire[c] = 0
        /\ \A p \in Printers : owner[p] = NoClient
    BY DEF Init, BusInit, ClaimInit
  <1>2. Control(c) /\ Holding(c) /\ Target(c) /\ Claimed(c)
    BY <1>1, BusAssumption DEF Control, Holding, Target, Claimed, Opened,
       ClosedSession
  <1>3. Counters(c) /\ Increasing(c) /\ TornIsDead(c) /\ Complete(c)
    BY <1>1 DEF Counters, Increasing, TornIsDead, Complete, ClosedSession,
       NewJob
  <1> QED BY <1>2, <1>3 DEF ClientInv

\* A step of a client keeps its own part of the invariant and hides from the
\* others: one case per action.
LEMMA ClientStep ==
  ASSUME NEW c \in Clients, OwnInv(c), Caller(c) \/ Session(c)
  PROVE  StepOk(c)
  <1>1. CASE Caller(c)
    BY <1>1, OpenStep, WriteStep, CloseStep DEF Caller
  <1>2. CASE OpenDone(c) \/ CloseHandleStep(c) \/ CloseDone(c)
    BY <1>2, OpenDoneStep, ReleaseStep, AttachBackStep, CloseDoneStep
       DEF CloseHandleStep
  <1>3. CASE WalkStep(c)
    BY <1>3, ScanOpenStep, ScanEndStep, ReadSerialStep, DriverActiveStep,
       DetachStep, ClaimStep, UndoStep DEF WalkStep, Walk
  <1>4. CASE \/ TakeByte(c) \/ TransferOk(c) \/ TransferError(c)
             \/ TransferGone(c)
    BY <1>4, TakeByteStep, TransferOkStep, TransferErrorStep, TransferGoneStep
  <1>5. CASE Reopen(c) \/ ReopenWalk(c) \/ ReopenOk(c) \/ ReopenRetry(c)
             \/ ReopenFail(c)
    BY <1>5, ReopenStep, ReopenWalkStep, ReopenOkStep, ReopenRetryStep,
       ReopenFailStep
  <1> QED BY <1>1, <1>2, <1>3, <1>4, <1>5 DEF Session

\* Every step keeps the invariant: a client's, the bus's, and none at all.
LEMMA NextInv == SessionInv /\ [Next]_vars => SessionInv'
  <1> SUFFICES ASSUME SessionInv, [Next]_vars PROVE SessionInv'
    OBVIOUS
  <1>1. ASSUME NEW c \in Clients, Caller(c) \/ Session(c) PROVE SessionInv'
    <2>1. StepOk(c)
      BY <1>1, ClientStep DEF SessionInv, OwnInv
    <2> QED BY <2>1, OthersKept DEF StepOk, SessionInv
  <1>2. ASSUME NEW p \in Printers, PrinterLeaves(p) \/ PrinterArrives(p)
        PROVE  SessionInv'
    BY <1>2, PrinterLeavesStep, PrinterArrivesStep DEF SessionInv
  <1>3. CASE UNCHANGED vars
    <2>1. TypeOK'
      BY <1>3 DEF SessionInv, TypeOK, BusTypeOK, ClaimTypeOK, SessionTypeOK,
         vars, busVars, claimVars, callVars, history
    <2>2. \A c \in Clients : ClientInv(c)'
      BY <1>3, Unbothered DEF SessionInv, vars, busVars
    <2> QED BY <2>1, <2>2 DEF SessionInv
  <1> QED BY <1>1, <1>2, <1>3 DEF Next, Environment

\* Every reachable state of any number of sessions and printers has the
\* session records, the open handles, the claims and the byte counters of
\* usb_transport.c agree, whatever unplugs and failing libusb calls happen.
THEOREM SessionInvariant == Spec => []SessionInv
  BY InitInv, NextInv, PTL DEF Spec

\* Every variable keeps its type: no counter of a write goes below zero
\* (bytes - offset, lines 490-537) and no code outside the enum is recorded.
THEOREM TypesCorrect == Spec => []TypeOK
  <1>1. SessionInv => TypeOK
    BY DEF SessionInv
  <1> QED BY <1>1, SessionInvariant, PTL

\* bytes_accepted counts every byte the printer took, failed transfers
\* included (lines 505-508), for every chunk size and every job.
THEOREM AcceptedIsExact == Spec => []AcceptedCounts
  <1>1. SessionInv => AcceptedCounts
    BY DEF SessionInv, ClientInv, Counters, AcceptedCounts
  <1> QED BY <1>1, SessionInvariant, PTL

\* However many identical printers there are, a session holds only the one
\* whose serial number was asked for (lines 194-204, 333-373).
THEOREM HoldsRightPrinter == Spec => []RightPrinter
  <1>1. SessionInv => RightPrinter
    BY DEF SessionInv, ClientInv, Target, RightPrinter
  <1> QED BY <1>1, SessionInvariant, PTL

\* Of any number of sessions, at most one can transfer to a printer: the one
\* that claims its interface (lines 222-230).
THEOREM SessionsExclude == Spec => []Exclusive
  <1>1. SessionInv => Exclusive
    BY DEF SessionInv, ClientInv, Control, Claimed, Exclusive
  <1> QED BY <1>1, SessionInvariant, PTL

\* Between calls, a session that is not held has no open handle and no claim
\* (lines 153-175, 197-229, 450-456).
THEOREM NoLeak == Spec => []NothingLeaked
  <1>1. SessionInv => NothingLeaked
    BY DEF SessionInv, ClientInv, Control, Holding, Claimed, Opened, Idle,
       NothingLeaked
  <1> QED BY <1>1, SessionInvariant, PTL

\* No byte of a job is taken twice or after a later one, however the caller
\* behaves and whatever reconnects happened (the comment at lines 518-522).
THEOREM BytesOnce == Spec => []NoByteTwice
  <1>1. SessionInv => NoByteTwice
    <2> SUFFICES ASSUME SessionInv, NEW c \in Clients,
                        NEW i \in 2..Len(job[c].got)
                 PROVE  job[c].got[i - 1] < job[c].got[i]
      BY DEF NoByteTwice
    <2>1. /\ TypeOK
          /\ \A j, k \in 1..Len(job[c].got) :
                j < k => job[c].got[j] < job[c].got[k]
      BY DEF SessionInv, ClientInv, Increasing
    <2>2. Len(job[c].got) \in Nat
      BY <2>1, CounterTypes
    <2>3. i - 1 \in 1..Len(job[c].got) /\ i \in 1..Len(job[c].got) /\ i - 1 < i
      BY <2>2
    <2> QED BY <2>1, <2>3
  <1> QED BY <1>1, SessionInvariant, PTL

\* A session none of whose writes has failed has delivered, between two calls,
\* every byte it was given, each once and in order.
WrittenMeansTaken ==
    \A c \in Clients :
        pc[c] = "ready" /\ ~job[c].failed =>
            job[c].got = [i \in 1..job[c].sent |-> i]

\* A write that returns its length has had the printer take all of it, with all
\* that was written before, through any partial transfers and any reconnect
\* before the first byte, whatever other sessions do (lines 459-540).
THEOREM WritesAreTaken == Spec => []WrittenMeansTaken
  <1>1. SessionInv => WrittenMeansTaken
    <2> SUFFICES ASSUME SessionInv, NEW c \in Clients,
                        pc[c] = "ready", ~job[c].failed
                 PROVE  job[c].got = [i \in 1..job[c].sent |-> i]
      BY DEF WrittenMeansTaken
    <2>1. TypeOK /\ Counters(c) /\ Complete(c)
      BY DEF SessionInv, ClientInv
    <2>2. job[c].got \in Seq(Nat) /\ job[c].sent \in Nat
      BY <2>1 DEF TypeOK, SessionTypeOK, JobRec
    <2>3. Len(job[c].got) = job[c].sent
      BY <2>1, CounterTypes DEF Counters, Complete
    <2>4. \A i \in 1..Len(job[c].got) : job[c].got[i] = i
      BY <2>1 DEF Complete
    <2> QED BY <2>2, <2>3, <2>4
  <1> QED BY <1>1, SessionInvariant, PTL

-----------------------------------------------------------------------------
(* A torn job stays torn. *)

\* Only TakeByte adds a byte, and only Open starts over.
LEMMA BytesOnlyTaken ==
  ASSUME NEW c \in Clients, TypeOK, [Next]_vars,
         job'[c].got # job[c].got, job'[c].got # <<>>
  PROVE  TakeByte(c)
  <1>1. job \in [Clients -> JobRec]
    BY DEF TypeOK, SessionTypeOK
  <1>2. ASSUME NEW d \in Clients, NEW p \in Printers, Open(d, p) PROVE FALSE
    BY <1>1, <1>2 DEF Open, NewJob
  <1>3. ASSUME NEW d \in Clients, NEW n \in 1..MaxWrite, Write(d, n)
        PROVE  FALSE
    <2>1. PICK s, b : job' = [job EXCEPT ![d].sent = s, ![d].failed = b]
      <3>1. CASE sess[d].held
        <4>1. job' = [job EXCEPT ![d].sent = @ + n]
          BY <1>3, <3>1 DEF Write
        <4>2. job' = [job EXCEPT ![d].sent = job[d].sent + n,
                                 ![d].failed = job[d].failed]
          BY <1>1, <4>1 DEF JobRec
        <4> QED BY <4>2
      <3>2. CASE ~sess[d].held
        BY <1>3, <3>2 DEF Write
      <3> QED BY <3>1, <3>2
    <2>2. job'[c].got = job[c].got
      BY <1>1, <2>1 DEF JobRec
    <2> QED BY <2>2
  <1>4. ASSUME NEW d \in Clients,
               TransferError(d) \/ TransferGone(d) \/ ReopenFail(d)
        PROVE  FALSE
    <2>1. PICK b : job' = [job EXCEPT ![d].failed = b]
      BY <1>4 DEF TransferError, TransferGone, ReopenFail
    <2>2. job'[c].got = job[c].got
      BY <1>1, <2>1 DEF JobRec
    <2> QED BY <2>2
  <1>5. ASSUME NEW d \in Clients, TakeByte(d) PROVE d = c
    BY <1>1, <1>5 DEF TakeByte, JobRec
  <1>6. ASSUME NEW p \in Printers, PrinterLeaves(p) PROVE FALSE
    BY <1>1, <1>6 DEF PrinterLeaves, JobRec
  <1>7. job' # job
    OBVIOUS
  <1>8. ASSUME NEW d \in Clients, Caller(d) PROVE FALSE
    BY <1>2, <1>3, <1>7, <1>8 DEF Caller, Close, history
  <1>9. ASSUME NEW d \in Clients, Session(d) PROVE TakeByte(c)
    BY <1>4, <1>5, <1>7, <1>9 DEF Session, OpenDone, WalkStep,
       CloseHandleStep, CloseDone, TransferOk, Reopen, ReopenWalk, ReopenOk,
       ReopenRetry, history
  <1> QED BY <1>6, <1>7, <1>8, <1>9 DEF Next, Environment, PrinterArrives,
          vars, history

\* Once a printer has taken a byte and left, no write, reconnect or replug
\* adds a byte to that job, however the caller behaves (lines 459-488,
\* 518-537: replay_safe looks at the whole session's bytes_accepted).
THEOREM TornStaysTorn == Spec => NoByteAfterTear
  <1> DEFINE Same == \A c \in Clients :
               job[c].torn /\ job[c].got # <<>> /\ job'[c].got # <<>>
                   => job'[c].got = job[c].got
  <1>1. SessionInv /\ [Next]_vars => Same
    <2> SUFFICES ASSUME SessionInv, [Next]_vars, NEW c \in Clients,
                        job[c].torn, job'[c].got # <<>>,
                        job'[c].got # job[c].got
                 PROVE  FALSE
      OBVIOUS
    <2>1. TakeByte(c)
      BY BytesOnlyTaken DEF SessionInv
    <2>2. pc[c] = "transfer" /\ Live(c)
      BY <2>1 DEF TakeByte
    <2> QED BY <2>2 DEF SessionInv, ClientInv, TornIsDead
  <1>2. SessionInv /\ [Next]_vars => [Same]_vars
    BY <1>1
  <1> QED BY <1>2, SessionInvariant, PTL DEF Spec, NoByteAfterTear

-----------------------------------------------------------------------------
(* Who hands a printer back to usblp.                                      *)

\* The actions of a client that leave the bus alone.
OffBus(c) ==
    \/ OpenDone(c) \/ (\E n \in 1..MaxWrite : Write(c, n)) \/ Close(c)
    \/ CloseDone(c) \/ TakeByte(c) \/ TransferOk(c) \/ TransferError(c)
    \/ TransferGone(c) \/ Reopen(c) \/ ReopenOk(c) \/ ReopenRetry(c)
    \/ ReopenFail(c) \/ (ScanEnd(c) /\ UNCHANGED <<callVars, history>>)

\* The others: the start of a walk, a call of it, a call of a close.
OnBus(c) ==
    \/ \E p \in Printers : Open(c, p)
    \/ ReopenWalk(c)
    \/ /\ \/ ScanOpen(c) \/ ReadSerial(c) \/ DriverActive(c) \/ Detach(c)
          \/ Claim(c) \/ Undo(c)
       /\ UNCHANGED <<callVars, history>>
    \/ CloseHandleStep(c)

\* Every action of a client is one or the other.
LEMMA BusSplit ==
  ASSUME NEW c, Caller(c) \/ Session(c) PROVE OnBus(c) \/ OffBus(c)
  BY DEF Caller, Session, WalkStep, Walk, OnBus, OffBus

\* What an action off the bus leaves alone.
LEMMA OffBusLeavesBus ==
  ASSUME NEW c \in Clients, TypeOK, OffBus(c)
  PROVE  /\ UNCHANGED <<plugged, driver, owner, handle, list, try>>
         /\ \/ cpc'[c] = cpc[c]
            \/ cpc'[c] \in {"idle", "release", "closed", "done"}
         /\ printed' = printed \/ TakeByte(c)
  <1>1. cpc \in [Clients -> ClaimPcs]
    BY DEF TypeOK, ClaimTypeOK
  <1> QED BY <1>1 DEF OffBus, OpenDone, Write, Close, CloseDone, TakeByte,
          TransferOk, TransferError, TransferGone, Advance, Reopen, ReopenOk,
          ReopenRetry, ReopenFail, ScanEnd, Goto, busVars, claimVars, history

\* No action of a client plugs a printer, or makes a live reference.
LEMMA ReferencesFrom ==
  ASSUME NEW c \in Clients, TypeOK, Caller(c) \/ Session(c)
  PROVE  /\ plugged' = plugged
         /\ \A d \in Clients :
               \/ list'[d] \subseteq list[d]
               \/ \A r \in list'[d] : r.dev \in plugged
         /\ \A d \in Clients : handle'[d] \in list[d] \cup {handle[d], NoRef}
  <1>1. TypeOK
    OBVIOUS
  <1> DEFINE From ==
        /\ plugged' = plugged
        /\ \A d \in Clients :
              \/ list'[d] \subseteq list[d]
              \/ \A r \in list'[d] : r.dev \in plugged
        /\ \A d \in Clients : handle'[d] \in list[d] \cup {handle[d], NoRef}
  <1>2. CASE OffBus(c)
    BY <1>2, OffBusLeavesBus
  <1>3. ASSUME NEW from, NEW expected, NEW among,
               StartWalk(c, from, expected, among)
        PROVE  From
    <2>1. PICK l : list' = [list EXCEPT ![c] = l]
                   /\ \A r \in l : r.dev \in plugged
      <3>1. \A r \in {[dev |-> q, live |-> TRUE] : q \in plugged \cap among} :
               r.dev \in plugged
        OBVIOUS
      <3> QED BY <1>3, <3>1 DEF StartWalk
    <2>2. \A d \in Clients : \/ list'[d] \subseteq list[d]
                             \/ \A r \in list'[d] : r.dev \in plugged
      BY <1>1, <2>1 DEF TypeOK, BusTypeOK
    <2> QED BY <1>3, <2>2 DEF StartWalk
  <1>4. CASE (\E p \in Printers : Open(c, p)) \/ ReopenWalk(c)
    BY <1>3, <1>4 DEF Open, ReopenWalk
  <1>5. CASE ScanOpen(c)
    BY <1>1, <1>5 DEF TypeOK, BusTypeOK, ScanOpen
  <1>6. CASE ReadSerial(c) \/ DriverActive(c) \/ Detach(c)
    BY <1>1, <1>6 DEF TypeOK, BusTypeOK, ReadSerial, SerialIs, DriverActive,
       Detach, DetachDriver, GiveUp, CloseHandle, busVars
  <1>7. CASE Claim(c) \/ Undo(c)
    BY <1>1, <1>7 DEF TypeOK, BusTypeOK, Claim, ClaimInterface, FillSession,
       Undo, GiveUp, CloseHandle, busVars
  <1>8. CASE CloseHandleStep(c)
    BY <1>1, <1>8 DEF TypeOK, BusTypeOK, CloseHandleStep, Release,
       ReleaseInterface, AttachBack, ForgetHandle, CloseHandle
  <1> QED BY <1>2, <1>4, <1>5, <1>6, <1>7, <1>8, BusSplit DEF OnBus

\* A claim is made where no driver is bound, and a driver is bound where
\* there is no claim.
LEMMA ClaimsAndDrivers ==
  ASSUME NEW c \in Clients, NEW p \in Printers, TypeOK,
         Caller(c) \/ Session(c)
  PROVE  /\ \/ owner'[p] \in {owner[p], NoClient}
            \/ /\ owner[p] = NoClient /\ owner'[p] = c
               /\ driver[p] = "none" /\ driver' = driver
               /\ Live(c) /\ Printer(c) = p
         /\ \/ driver'[p] \in {driver[p], "none"}
            \/ /\ owner[p] = NoClient /\ owner' = owner
               /\ Live(c) /\ Printer(c) = p /\ driver'[p] = "usblp"
               /\ Undo(c) \/ AttachBack(c)
  <1>1. BusTypeOK
    BY DEF TypeOK
  <1>2. CASE OffBus(c)
    BY <1>2, OffBusLeavesBus
  <1>3. CASE (\E q \in Printers : Open(c, q)) \/ ReopenWalk(c)
    BY <1>3 DEF Open, ReopenWalk, StartWalk
  <1>4. CASE ScanOpen(c) \/ ReadSerial(c) \/ DriverActive(c)
    BY <1>4 DEF ScanOpen, ReadSerial, SerialIs, DriverActive, GiveUp, busVars
  <1>5. CASE Detach(c)
    BY <1>1, <1>5 DEF BusTypeOK, Detach, DetachDriver, GiveUp
  <1>6. CASE Claim(c)
    BY <1>1, <1>6 DEF BusTypeOK, Claim, ClaimInterface, FillSession, GiveUp,
       busVars
  <1>7. CASE Undo(c) \/ AttachBack(c)
    BY <1>1, <1>7 DEF BusTypeOK, Undo, AttachBack, AttachDriver
  <1>8. ASSUME NEW b, Release(c, b)
        PROVE  driver' = driver /\ owner'[p] \in {owner[p], NoClient}
    BY <1>1, <1>8 DEF BusTypeOK, Release, ReleaseInterface
  <1>9. CASE CloseHandleStep(c)
    BY <1>7, <1>8, <1>9 DEF CloseHandleStep
  <1> QED BY <1>2, <1>3, <1>4, <1>5, <1>6, <1>7, <1>9, BusSplit DEF OnBus

\* Only a close that has looked the quirk up comes to attach.
LEMMA AttachHasNoQuirk ==
  ASSUME NEW c \in Clients, OwnInv(c), Caller(c) \/ Session(c),
         cpc'[c] = "attach"
  PROVE  handle'[c] = handle[c] /\ (cpc[c] = "attach" \/ ~Quirk(Printer(c)))
  <1>1. TypeOK /\ ClientInv(c)
    BY DEF OwnInv
  <1>2. CASE OffBus(c)
    BY <1>1, <1>2, OffBusLeavesBus
  <1>3. CASE (\E q \in Printers : Open(c, q)) \/ ReopenWalk(c)
    BY <1>1, <1>3 DEF TypeOK, ClaimTypeOK, Open, ReopenWalk, StartWalk, Goto
  <1>4. CASE ScanOpen(c) \/ ReadSerial(c) \/ DriverActive(c) \/ Detach(c)
    BY <1>1, <1>4 DEF TypeOK, ClaimTypeOK, ScanOpen, ReadSerial, SerialIs,
       DriverActive, Detach, GiveUp, Goto
  <1>5. CASE Claim(c) \/ Undo(c) \/ AttachBack(c)
    BY <1>1, <1>5 DEF TypeOK, ClaimTypeOK, Claim, Undo, GiveUp, AttachBack,
       Goto
  <1>6. CASE Release(c, pc[c] = "closing" /\ RestoreOnClose(c))
    <2>1. /\ pc[c] = "closing" /\ RestoreOnClose(c) /\ handle' = handle
          /\ cpc[c] = "release"
      BY <1>1, <1>6 DEF TypeOK, ClaimTypeOK, Release, Goto
    <2>2. sess[c].serial = Printer(c)
      BY <1>1, <2>1 DEF ClientInv, Target, Holding
    <2> QED BY <2>1, <2>2 DEF RestoreOnClose, Quirk
  <1> QED BY <1>2, <1>3, <1>4, <1>5, <1>6, BusSplit DEF OnBus, CloseHandleStep

\* Only a printer that is claimed and on the bus takes a byte.
LEMMA PrintsOnBus ==
  ASSUME NEW c \in Clients, SessionInv, HandBackInv, Caller(c) \/ Session(c)
  PROVE  \/ printed' = printed
         \/ /\ printed' = printed \cup {Printer(c)}
            /\ Printer(c) \in plugged /\ driver[Printer(c)] = "none"
            /\ cpc'[c] = "idle" /\ UNCHANGED <<driver, handle>>
  <1>1. CASE TakeByte(c)
    <2>1. /\ printed' = printed \cup {Printer(c)}
          /\ Live(c) /\ owner[Printer(c)] = c /\ pc[c] = "transfer"
          /\ UNCHANGED <<driver, handle, cpc>>
      BY <1>1 DEF TakeByte, busVars, claimVars
    <2>2. Printer(c) \in plugged /\ Printer(c) \in Printers /\ cpc[c] = "idle"
      BY <2>1 DEF SessionInv, TypeOK, BusTypeOK, ClientInv, Control,
         HandBackInv
    <2> QED BY <2>1, <2>2 DEF HandBackInv
  <1>2. CASE OffBus(c)
    BY <1>1, <1>2, OffBusLeavesBus DEF SessionInv
  <1>3. CASE OnBus(c)
    BY <1>3 DEF OnBus, Open, ReopenWalk, CloseHandleStep, history
  <1> QED BY <1>2, <1>3, BusSplit

\* A step of a client keeps HandBackInv.
LEMMA ClientHandsBack ==
  ASSUME NEW c \in Clients, SessionInv, HandBackInv, Caller(c) \/ Session(c)
  PROVE  HandBackInv'
  <1>1. TypeOK
    BY DEF SessionInv
  <1>2. plugged' = plugged
    BY <1>1, ReferencesFrom
  <1>3. ASSUME NEW d \in Clients PROVE Live(d)' => Printer(d)' \in plugged'
    BY <1>1, <1>2, ReferencesFrom DEF HandBackInv, Live, Printer, NoRef
  <1>4. ASSUME NEW d \in Clients, NEW r \in list'[d]
        PROVE  r.live => r.dev \in plugged'
    BY <1>1, <1>2, ReferencesFrom DEF HandBackInv
  <1>5. ASSUME NEW p \in Printers, owner'[p] # NoClient
        PROVE  driver'[p] = "none"
    BY <1>1, <1>5, ClaimsAndDrivers DEF HandBackInv
  <1>6. printed' \subseteq plugged'
    BY <1>2, PrintsOnBus DEF HandBackInv
  <1>7. ASSUME NEW d \in Clients, cpc'[d] = "attach"
        PROVE  ~Quirk(Printer(d)')
    <2>1. CASE d = c
      BY <1>7, <2>1, AttachHasNoQuirk
         DEF SessionInv, OwnInv, HandBackInv, Printer
    <2>2. CASE d # c
      BY <1>7, <2>2, ClientStep
         DEF SessionInv, OwnInv, StepOk, OthersSame, HandBackInv, Printer
    <2> QED BY <2>1, <2>2
  <1> QED BY <1>3, <1>4, <1>5, <1>6, <1>7 DEF HandBackInv, Quirk, Printer

\* An unplug leaves no live handle or reference to the printer.
LEMMA UnplugKills ==
  ASSUME NEW p \in Printers, BusTypeOK, Unplug(p)
  PROVE  /\ plugged' = plugged \ {p}
         /\ \A q \in Printers : owner'[q] # NoClient =>
               q # p /\ owner'[q] = owner[q] /\ driver'[q] = driver[q]
         /\ \A d \in Clients :
               /\ Printer(d)' = Printer(d)
               /\ Live(d)' => Live(d) /\ Printer(d) # p
         /\ \A d \in Clients : \A r \in list'[d] : r.live =>
               \E o \in list[d] : o.live /\ o.dev = r.dev /\ r.dev # p
  <1>1. /\ plugged' = plugged \ {p}
        /\ \A q \in Printers : owner'[q] # NoClient =>
              q # p /\ owner'[q] = owner[q] /\ driver'[q] = driver[q]
    BY DEF BusTypeOK, Unplug
  <1>2. ASSUME NEW r \in Device \cup {NoRef}
        PROVE  /\ Stale(r, p).dev = r.dev
               /\ Stale(r, p).live => r.live /\ r.dev # p
    BY DEF Device, NoRef, Stale
  <1>3. \A d \in Clients : /\ Printer(d)' = Printer(d)
                           /\ Live(d)' => Live(d) /\ Printer(d) # p
    BY <1>2 DEF BusTypeOK, Unplug, Live, Printer
  <1>4. ASSUME NEW d \in Clients, NEW r \in list'[d], r.live
        PROVE  \E o \in list[d] : o.live /\ o.dev = r.dev /\ r.dev # p
    <2>1. PICK o \in list[d] : r = Stale(o, p)
      BY <1>4 DEF BusTypeOK, Unplug
    <2>2. o \in Device
      BY DEF BusTypeOK
    <2> QED BY <1>2, <1>4, <2>1, <2>2
  <1> QED BY <1>1, <1>3, <1>4

\* Every step keeps HandBackInv: a client's, the bus's, and none at all.
LEMMA NextHandsBack ==
  ASSUME SessionInv, HandBackInv, [Next]_vars
  PROVE  HandBackInv'
  <1>1. BusTypeOK
    BY DEF SessionInv, TypeOK
  <1>2. ASSUME NEW p \in Printers, PrinterLeaves(p) PROVE HandBackInv'
    <2>1. Unplug(p) /\ printed' = printed \ {p} /\ cpc' = cpc
      BY <1>2 DEF PrinterLeaves, claimVars
    <2> QED BY <1>1, <2>1, UnplugKills DEF HandBackInv, Quirk
  <1>3. ASSUME NEW p \in Printers, PrinterArrives(p) PROVE HandBackInv'
    <2>1. /\ plugged' = plugged \cup {p} /\ p \notin plugged
          /\ UNCHANGED <<owner, handle, list, cpc, printed>>
          /\ \A q \in Printers \ {p} : driver'[q] = driver[q]
      BY <1>1, <1>3 DEF BusTypeOK, PrinterArrives, Plug, claimVars, history
    <2>2. owner[p] = NoClient
      BY <1>1, <2>1 DEF BusTypeOK, SessionInv, ClientInv, Claimed, HandBackInv
    <2> QED BY <2>1, <2>2 DEF HandBackInv, Live, Printer, Quirk
  <1>4. CASE UNCHANGED vars
    BY <1>4 DEF vars, busVars, claimVars, history, HandBackInv, Live, Printer,
       Quirk
  <1> QED BY <1>2, <1>3, <1>4, ClientHandsBack DEF Next, Environment

\* It holds before anything happens, and so always.
LEMMA HandBackInvariant == Spec => [](SessionInv /\ HandBackInv)
  <1>1. Init => HandBackInv
    BY DEF Init, BusInit, ClaimInit, HandBackInv, Live, Printer, NoRef
  <1>2. SessionInv /\ HandBackInv /\ [Next]_vars => HandBackInv'
    BY NextHandsBack
  <1> QED BY <1>1, <1>2, SessionInvariant, PTL DEF Spec

\* A walk undoes what it has detached itself.
LEMMA UndoesOwnDetach ==
  ASSUME NEW c \in Clients, TypeOK, cpc[c] = "undo" => try[c].detached,
         Caller(c) \/ Session(c), cpc'[c] = "undo"
  PROVE  try'[c].detached
  <1>1. CASE OffBus(c)
    BY <1>1, OffBusLeavesBus
  <1>2. CASE (\E q \in Printers : Open(c, q)) \/ ReopenWalk(c)
    BY <1>2 DEF TypeOK, ClaimTypeOK, Open, ReopenWalk, StartWalk, Goto
  <1>3. CASE ScanOpen(c) \/ ReadSerial(c) \/ DriverActive(c) \/ Detach(c)
    BY <1>3 DEF TypeOK, ClaimTypeOK, ScanOpen, ReadSerial, SerialIs,
       DriverActive, Detach, GiveUp, Goto
  <1>4. CASE Claim(c)
    BY <1>4 DEF TypeOK, ClaimTypeOK, Claim, GiveUp, Goto
  <1>5. CASE Undo(c) \/ CloseHandleStep(c)
    BY <1>5 DEF TypeOK, ClaimTypeOK, Undo, CloseHandleStep, Release,
       AttachBack, Goto
  <1> QED BY <1>1, <1>2, <1>3, <1>4, <1>5, BusSplit DEF OnBus

\* And it is part of an open, or of a reconnect before the first byte.
LEMMA UndoPrintedNothing ==
  ASSUME NEW c \in Clients, TypeOK, ClientInv(c), cpc[c] = "undo"
  PROVE  job[c].got = <<>>
  <1>1. pc[c] \in Pcs
    BY DEF TypeOK, SessionTypeOK
  <1>2. pc[c] \in {"opening", "reconnect"}
    BY <1>1 DEF ClientInv, Control, Pcs
  <1>3. Len(job[c].got) = 0 /\ job[c].got \in Seq(Nat)
    BY <1>2, CounterTypes DEF ClientInv, Counters
  <1> QED BY <1>3

\* A printer in use with the quirk comes back to usblp only so.
LEMMA HandedBackBy ==
  ASSUME SessionInv, HandBackInv, [Next]_vars, NEW p \in printed,
         p \in printed', Quirk(p), driver[p] # "usblp", driver'[p] = "usblp"
  PROVE  \E c \in Clients :
            Undo(c) /\ Printer(c) = p /\ Live(c) /\ job[c].got = <<>>
  <1>1. TypeOK /\ p \in Printers /\ p \in plugged
    BY DEF SessionInv, TypeOK, SessionTypeOK, HandBackInv
  <1>2. ASSUME NEW q \in Printers, PrinterLeaves(q) \/ PrinterArrives(q)
        PROVE  FALSE
    BY <1>1, <1>2 DEF TypeOK, BusTypeOK, PrinterLeaves, PrinterArrives, Unplug,
       Plug
  <1>3. PICK c \in Clients : Caller(c) \/ Session(c)
    BY <1>2 DEF Next, Environment, vars, busVars
  <1>4. Live(c) /\ Printer(c) = p /\ (Undo(c) \/ AttachBack(c))
    BY <1>1, <1>3, ClaimsAndDrivers
  <1>5. ~AttachBack(c)
    BY <1>4 DEF HandBackInv, AttachBack, Goto
  <1>6. job[c].got = <<>>
    BY <1>1, <1>4, <1>5, UndoPrintedNothing DEF Undo, Goto, SessionInv
  <1> QED BY <1>4, <1>5, <1>6

\* While a printer with the no-reattach quirk that has printed stays plugged,
\* only the undo of a walk (lines 222-227) of a session none of whose bytes
\* were taken binds usblp to it again, however many sessions there are: never
\* a close, and never the session that has printed.
THEOREM OnlyUndoReattaches == Spec => HandsBackUnprinted
  <1> DEFINE Unprinted == \A p \in printed :
               /\ p \in printed' /\ Quirk(p)
               /\ driver[p] # "usblp" /\ driver'[p] = "usblp"
               => \E c \in Clients :
                     Undo(c) /\ Printer(c) = p /\ job[c].got = <<>>
  <1>1. SessionInv /\ HandBackInv /\ [Next]_vars => [Unprinted]_vars
    BY HandedBackBy
  <1> QED BY <1>1, HandBackInvariant, PTL DEF Spec, HandsBackUnprinted

-----------------------------------------------------------------------------
(* One session at a time.                                                  *)

Alone == \A c, d \in Clients : c = d

\* A walk that may hand back a printer found it bound to usblp.
LEMMA UndoesWhatItFound ==
  ASSUME NEW c \in Clients, SessionInv, HandBackInv, AloneInv,
         Caller(c) \/ Session(c), Live(c)', MayUndo(c)'
  PROVE  /\ Printer(c)' = Printer(c) /\ Live(c)
         /\ \/ MayUndo(c)
            \/ driver[Printer(c)] = "usblp"
  <1>1. TypeOK /\ ClientInv(c)
    BY DEF SessionInv
  <1>2. CASE OffBus(c)
    BY <1>1, <1>2, OffBusLeavesBus DEF MayUndo, Live, Printer
  <1>3. CASE (\E q \in Printers : Open(c, q)) \/ ReopenWalk(c)
    BY <1>1, <1>3 DEF TypeOK, ClaimTypeOK, Open, ReopenWalk, StartWalk, Goto,
       MayUndo
  <1>4. CASE ScanOpen(c) \/ ReadSerial(c)
    BY <1>1, <1>4 DEF TypeOK, ClaimTypeOK, ScanOpen, ReadSerial, SerialIs,
       GiveUp, Goto, MayUndo
  <1>5. CASE DriverActive(c)
    BY <1>1, <1>5 DEF TypeOK, ClaimTypeOK, DriverActive, GiveUp, Goto,
       MayUndo, Live, Printer, busVars
  <1>6. CASE Detach(c) \/ Claim(c)
    BY <1>1, <1>6 DEF TypeOK, ClaimTypeOK, Detach, Claim, FillSession, GiveUp,
       Goto, MayUndo, Live, Printer, busVars
  <1>7. CASE Undo(c) \/ CloseHandleStep(c)
    BY <1>1, <1>7 DEF TypeOK, ClaimTypeOK, Undo, CloseHandleStep, Release,
       AttachBack, Goto, MayUndo
  <1> QED BY <1>2, <1>3, <1>4, <1>5, <1>6, <1>7, BusSplit DEF OnBus

\* A single session keeps AloneInv, whatever it does.
LEMMA ClientKeepsAlone ==
  ASSUME Alone, NEW c \in Clients, SessionInv, HandBackInv, AloneInv,
         Caller(c) \/ Session(c)
  PROVE  AloneInv'
  <1> DEFINE Safe(p) == Quirk(p) => driver[p] # "usblp"
  <1>1. TypeOK /\ ClientInv(c) /\ \A d \in Clients : d = c
    BY DEF SessionInv, Alone
  <1>2. \A p \in printed : p \in Printers /\ Safe(p)
    BY <1>1 DEF TypeOK, SessionTypeOK, AloneInv, NoReattachAfterJob, Quirk
  <1>3. ASSUME NEW p \in printed', Quirk(p) PROVE driver'[p] # "usblp"
    <2>1. CASE p \in printed
      <3>1. CASE Undo(c) /\ Printer(c) = p /\ Live(c)
        BY <1>3, <2>1, <3>1 DEF AloneInv, MayUndo, Undo, Goto
      <3>2. CASE AttachBack(c) /\ Printer(c) = p
        BY <1>3, <3>2 DEF HandBackInv, AttachBack, Goto
      <3> QED BY <1>1, <1>2, <1>3, <2>1, <3>1, <3>2, ClaimsAndDrivers
    <2>2. CASE p \notin printed
      BY <1>3, <2>2, PrintsOnBus
    <2> QED BY <2>1, <2>2
  <1>4. ASSUME cpc'[c] = "undo" PROVE try'[c].detached
    BY <1>1, <1>4, UndoesOwnDetach DEF AloneInv
  <1>5. ASSUME Live(c)', MayUndo(c)', Quirk(Printer(c)')
        PROVE  Printer(c)' \notin printed'
    <2>1. /\ Printer(c)' = Printer(c) /\ Live(c)
          /\ MayUndo(c) \/ driver[Printer(c)] = "usblp"
      BY <1>5, UndoesWhatItFound
    <2>2. Printer(c) \notin printed
      BY <1>2, <1>5, <2>1 DEF AloneInv
    <2>3. cpc'[c] # "idle"
      BY <1>5 DEF MayUndo
    <2> QED BY <2>1, <2>2, <2>3, PrintsOnBus
  <1> QED BY <1>1, <1>3, <1>4, <1>5
          DEF AloneInv, NoReattachAfterJob, Quirk, MayUndo, Live, Printer

\* Nor does the bus break it.
LEMMA BusKeepsAlone ==
  ASSUME SessionInv, HandBackInv, AloneInv, NEW p \in Printers,
         PrinterLeaves(p) \/ PrinterArrives(p)
  PROVE  AloneInv'
  <1>1. BusTypeOK /\ printed \subseteq plugged
    BY DEF SessionInv, TypeOK, HandBackInv
  <1>2. /\ UNCHANGED <<cpc, try>> /\ printed' \subseteq printed
        /\ \A q \in printed' : driver'[q] = driver[q]
    BY <1>1 DEF BusTypeOK, PrinterLeaves, PrinterArrives, Unplug, Plug,
       claimVars, history
  <1>3. \A d \in Clients :
           Printer(d)' = Printer(d) /\ (Live(d)' => Live(d))
    <2>1. ASSUME NEW r \in Device \cup {NoRef}
          PROVE  Stale(r, p).dev = r.dev /\ (Stale(r, p).live => r.live)
      BY DEF Device, NoRef, Stale
    <2> QED BY <1>1, <2>1 DEF BusTypeOK, PrinterLeaves, PrinterArrives,
            Unplug, Plug, Live, Printer
  <1>4. NoReattachAfterJob'
    BY <1>2 DEF AloneInv, NoReattachAfterJob
  <1> QED BY <1>2, <1>3, <1>4 DEF AloneInv, MayUndo, Quirk

\* A printer with the no-reattach quirk that has printed for the only session
\* there is, is not bound to usblp while it stays plugged, over any number of
\* jobs, reconnects, failed claims and closes, and whatever else is plugged
\* (models.h 26-29, usb_transport.c 552-555).  For two sessions it is false.
THEOREM LoneSessionKeepsUsblpOff == Alone => (Spec => []NoReattachAfterJob)
  <1> SUFFICES ASSUME Alone PROVE Spec => []NoReattachAfterJob
    OBVIOUS
  <1>1. Init => AloneInv
    BY DEF Init, BusInit, ClaimInit, AloneInv, NoReattachAfterJob, MayUndo
  <1>2. SessionInv /\ HandBackInv /\ AloneInv /\ [Next]_vars => AloneInv'
    <2> SUFFICES ASSUME SessionInv, HandBackInv, AloneInv, [Next]_vars
                 PROVE  AloneInv'
      OBVIOUS
    <2>1. CASE UNCHANGED vars
      BY <2>1 DEF vars, busVars, claimVars, history, AloneInv,
         NoReattachAfterJob, MayUndo, Live, Printer, Quirk
    <2> QED BY <2>1, ClientKeepsAlone, BusKeepsAlone DEF Next, Environment
  <1>3. AloneInv => NoReattachAfterJob
    BY DEF AloneInv
  <1> QED BY <1>1, <1>2, <1>3, HandBackInvariant, PTL DEF Spec

-----------------------------------------------------------------------------
(* A session implements JobStream.  There is one lemma per step of         *)
(* JobStream, with what a session has to show for it; the lemmas after     *)
(* them go through the actions of a session and name the step each of them *)
(* takes, from OwnInv.                                                     *)

(* The steps of JobStream, seen from a session.                            *)

SameBytes(c) ==
    /\ job'[c].sent = job[c].sent /\ job'[c].got = job[c].got
    /\ job'[c].torn = job[c].torn

\* A step that changes nothing of the stream.
LEMMA Stutters ==
  ASSUME NEW c, Phase(c)' = Phase(c), SameBytes(c)
  PROVE  StreamStep(c)
  BY DEF StreamStep, Stream!streamVars, SameBytes

\* An open starts a job over.
LEMMA Opens ==
  ASSUME NEW c, Phase(c) = "closed", Phase(c)' \in {"closed", "idle"},
         job'[c].sent = 0, job'[c].got = <<>>, job'[c].torn = FALSE
  PROVE  StreamStep(c)
  BY DEF StreamStep, Stream!SNext, Stream!SOpen, Stream!Fresh

\* A write hands over more bytes, also behind one that failed.
LEMMA Writes ==
  ASSUME NEW c,
         \/ Phase(c) = "idle" /\ Phase(c)' = "busy"
         \/ Phase(c) = "dead" /\ Phase(c)' \in {"again", "dead"},
         job'[c].sent \in Nat, job'[c].sent > job[c].sent,
         job'[c].got = job[c].got, job'[c].torn = job[c].torn
  PROVE  StreamStep(c)
  BY DEF StreamStep, Stream!SNext, Stream!SWrite, Stream!SWriteOn

\* A byte is taken in its turn, or behind a failure.
LEMMA Takes ==
  ASSUME NEW c, NEW b,
         Phase(c)' = Phase(c), job[c].torn = FALSE,
         job'[c].torn = job[c].torn, job'[c].sent = job[c].sent,
         job'[c].got = Append(job[c].got, b),
         \/ Phase(c) = "busy" /\ Len(job[c].got) < job[c].sent
               /\ b = Len(job[c].got) + 1
         \/ Phase(c) = "again" /\ b \in 1..job[c].sent
               /\ \A i \in 1..Len(job[c].got) : job[c].got[i] < b
  PROVE  StreamStep(c)
  BY DEF StreamStep, Stream!SNext, Stream!STake, Stream!STakeBehind

\* A write that returns success has delivered all of them.
LEMMA Completes ==
  ASSUME NEW c, Phase(c) = "busy", Phase(c)' = "idle", SameBytes(c),
         job[c].got \in Seq(Nat), job[c].sent \in Nat,
         Len(job[c].got) = job[c].sent,
         \A i \in 1..Len(job[c].got) : job[c].got[i] = i
  PROVE  StreamStep(c)
  <1>1. job[c].got = [i \in 1..job[c].sent |-> i]
    OBVIOUS
  <1> QED BY <1>1 DEF StreamStep, Stream!SNext, Stream!SDone, SameBytes

\* A write that fails leaves the job dead.
LEMMA Fails ==
  ASSUME NEW c, Phase(c) \in {"busy", "again"}, Phase(c)' = "dead",
         SameBytes(c)
  PROVE  StreamStep(c)
  BY DEF StreamStep, Stream!SNext, Stream!SFail, SameBytes

\* The printer leaves a job it has begun.
LEMMA Tears ==
  ASSUME NEW c, Phase(c)' = Phase(c), job[c].got # <<>>,
         job'[c].torn = TRUE, job'[c].sent = job[c].sent,
         job'[c].got = job[c].got
  PROVE  StreamStep(c)
  BY DEF StreamStep, Stream!SNext, Stream!STear

\* A close ends the job as it is.
LEMMA Closes ==
  ASSUME NEW c, Phase(c) \in {"idle", "dead"}, Phase(c)' = "closed",
         SameBytes(c)
  PROVE  StreamStep(c)
  BY DEF StreamStep, Stream!SNext, Stream!SClose, SameBytes

-----------------------------------------------------------------------------
(* The actions of a session. *)

\* A step that changes neither the call, nor the job, is none of the stream.
LEMMA Unseen ==
  ASSUME NEW c \in Clients, pc'[c] = pc[c], job'[c] = job[c]
  PROVE  StreamStep(c)
  BY Stutters DEF Phase, SameBytes

\* hplp_usb_session_open, which starts a job over.
LEMMA OpenStream ==
  ASSUME NEW c \in Clients, OwnInv(c),
         (\E p \in Printers : Open(c, p)) \/ OpenDone(c)
  PROVE  StreamStep(c)
  <1>1. TypeOK /\ ClientInv(c)
    BY DEF OwnInv
  <1>2. ASSUME NEW p \in Printers, Open(c, p) PROVE StreamStep(c)
    <2>1. pc[c] = "none" /\ pc'[c] = "opening" /\ job'[c] = NewJob(p)
      BY <1>1, <1>2 DEF Open, Call, TypeOK, SessionTypeOK
    <2>2. Phase(c) = "closed" /\ Phase(c)' = "closed"
      BY <2>1 DEF Phase
    <2>3. job'[c].sent = 0 /\ job'[c].got = <<>> /\ job'[c].torn = FALSE
      BY <2>1 DEF NewJob
    <2> QED BY <2>2, <2>3, Opens
  <1>3. CASE OpenDone(c)
    <2>1. /\ pc[c] = "opening" /\ pc'[c] \in {"ready", "none"}
          /\ job' = job
      BY <1>1, <1>3 DEF OpenDone, Call, TypeOK, SessionTypeOK, history
    <2>2. /\ job[c].sent = 0 /\ ~job[c].failed /\ job[c].torn = FALSE
          /\ Len(job[c].got) = 0
      BY <1>1, <2>1, CounterTypes DEF ClientInv, Counters
    <2>3. job[c].got = <<>>
      BY <1>1, <2>2, CounterTypes
    <2>4. Phase(c) = "closed" /\ Phase(c)' \in {"closed", "idle"}
      BY <2>1, <2>2 DEF Phase
    <2> QED BY <2>1, <2>2, <2>3, <2>4, Opens
  <1> QED BY <1>2, <1>3

\* hplp_usb_session_write, up to its first transfer.
LEMMA WriteStream ==
  ASSUME NEW c \in Clients, NEW n \in 1..MaxWrite, OwnInv(c), Write(c, n)
  PROVE  StreamStep(c)
  <1>1. TypeOK /\ ClientInv(c)
    BY DEF OwnInv
  <1>2. /\ pc[c] = "ready"
        /\ pc'[c] \in {"transfer", "reconnect"}
              \/ (pc'[c] = "ready" /\ job'[c].failed)
        /\ job'[c].sent = job[c].sent + n
        /\ job'[c].got = job[c].got /\ job'[c].torn = job[c].torn
        /\ job[c].failed => job'[c].failed
        /\ sess[c].held => job'[c].failed = job[c].failed
    BY <1>1 DEF TypeOK, SessionTypeOK, ClaimTypeOK, Write, Call, JobRec
  <1>3. ~job[c].failed => sess[c].held
    BY <1>1, <1>2 DEF ClientInv, Holding
  <1>4. job'[c].sent \in Nat /\ job'[c].sent > job[c].sent
    BY <1>1, <1>2, CounterTypes
  <1>5. \/ Phase(c) = "idle" /\ Phase(c)' = "busy"
        \/ Phase(c) = "dead" /\ Phase(c)' \in {"again", "dead"}
    BY <1>2, <1>3 DEF Phase
  <1> QED BY <1>2, <1>4, <1>5, Writes

\* The printer takes a byte.
LEMMA TakeStream ==
  ASSUME NEW c \in Clients, OwnInv(c), TakeByte(c)
  PROVE  StreamStep(c)
  <1>1. TypeOK /\ ClientInv(c)
    BY DEF OwnInv
  <1> DEFINE b == job[c].sent - left[c] + wire[c] + 1
  <1>2. /\ pc[c] = "transfer" /\ pc' = pc
        /\ job'[c].got = Append(job[c].got, b)
        /\ job'[c].sent = job[c].sent /\ job'[c].torn = job[c].torn
        /\ job'[c].failed = job[c].failed
        /\ wire[c] < left[c]
    BY <1>1 DEF TypeOK, SessionTypeOK, TakeByte, JobRec
  <1>3. job[c].torn = FALSE
    BY <1>1, <1>2, CounterTypes DEF ClientInv, TornIsDead, TakeByte
  <1>4. b \in 1..job[c].sent
    BY <1>1, <1>2, CounterTypes DEF ClientInv, Counters
  <1>5. \A i \in 1..Len(job[c].got) : job[c].got[i] < b
    <2> SUFFICES ASSUME NEW i \in 1..Len(job[c].got)
                 PROVE  job[c].got[i] < b
      OBVIOUS
    <2>1. /\ job[c].got[i] \in Nat
          /\ job[c].sent \in Nat /\ left[c] \in Nat /\ wire[c] \in Nat
      BY <1>1, CounterTypes
    <2>2. job[c].got[i] <= job[c].sent - left[c] + wire[c]
      BY <1>1, <1>2 DEF ClientInv, Increasing
    <2> QED BY <2>1, <2>2
  <1>6. ~job[c].failed => b = Len(job[c].got) + 1
    BY <1>1, <1>2, CounterTypes DEF ClientInv, Counters, Complete
  <1>7. /\ Phase(c)' = Phase(c)
        /\ Phase(c) = IF job[c].failed THEN "again" ELSE "busy"
    BY <1>2 DEF Phase
  <1>8. Len(job[c].got) \in Nat /\ job[c].sent \in Nat
    BY <1>1, CounterTypes
  <1> HIDE DEF b
  <1>9. ~job[c].failed => Len(job[c].got) < job[c].sent
    BY <1>4, <1>6, <1>8
  <1> QED BY <1>2, <1>3, <1>4, <1>5, <1>6, <1>7, <1>9, Takes

\* A transfer returns.
LEMMA TransferStream ==
  ASSUME NEW c \in Clients, OwnInv(c),
         TransferOk(c) \/ TransferError(c) \/ TransferGone(c)
  PROVE  StreamStep(c)
  <1>1. TypeOK /\ ClientInv(c)
    BY DEF OwnInv
  <1>2. pc[c] = "transfer" /\ Phase(c) \in {"busy", "again"}
    BY DEF TransferOk, TransferError, TransferGone, Call, Phase
  <1>3. CASE TransferOk(c)
    <2>1. /\ job' = job
          /\ pc'[c] = IF left[c] = wire[c] THEN "ready" ELSE "transfer"
      BY <1>1, <1>3 DEF TransferOk, Call, TypeOK, SessionTypeOK
    <2>2. CASE left[c] # wire[c]
      BY <1>2, <2>1, <2>2, Unseen
    <2>3. CASE left[c] = wire[c] /\ job[c].failed
      BY <1>2, <2>1, <2>3, Fails DEF Phase, SameBytes
    <2>4. CASE left[c] = wire[c] /\ ~job[c].failed
      <3>1. /\ Len(job[c].got) = job[c].sent
            /\ \A i \in 1..Len(job[c].got) : job[c].got[i] = i
        BY <1>1, <1>2, <2>4, CounterTypes DEF ClientInv, Counters, Complete
      <3>2. job[c].got \in Seq(Nat) /\ job[c].sent \in Nat
        BY <1>1, CounterTypes
      <3>3. Phase(c) = "busy" /\ Phase(c)' = "idle" /\ SameBytes(c)
        BY <1>2, <2>1, <2>4 DEF Phase, SameBytes
      <3> QED BY <3>1, <3>2, <3>3, Completes
    <2> QED BY <2>2, <2>3, <2>4
  <1>4. CASE TransferError(c)
    <2>1. pc'[c] = "ready" /\ job'[c].failed /\ SameBytes(c)
      BY <1>1, <1>4 DEF TransferError, Call, TypeOK, SessionTypeOK, JobRec,
         SameBytes
    <2> QED BY <1>2, <2>1, Fails DEF Phase
  <1>5. CASE TransferGone(c)
    <2>1. /\ SameBytes(c)
          /\ \/ pc'[c] = "reconnect" /\ job'[c].failed = job[c].failed
             \/ pc'[c] = "ready" /\ job'[c].failed
      <3>1. PICK again \in BOOLEAN :
              /\ pc' = [pc EXCEPT ![c] = IF again THEN "reconnect"
                                         ELSE "ready"]
              /\ job' = [job EXCEPT ![c].failed = @ \/ ~again]
        BY <1>5 DEF TransferGone, Call
      <3>2. pc \in [Clients -> Pcs] /\ job \in [Clients -> JobRec]
        BY <1>1 DEF TypeOK, SessionTypeOK
      <3>3. SameBytes(c) /\ job'[c].failed = (job[c].failed \/ ~again)
        BY <3>1, <3>2 DEF JobRec, SameBytes
      <3>4. pc'[c] = IF again THEN "reconnect" ELSE "ready"
        BY <3>1, <3>2
      <3>5. job[c].failed \in BOOLEAN
        BY <1>1, CounterTypes
      <3> QED BY <3>3, <3>4, <3>5
    <2>2. CASE pc'[c] = "reconnect" /\ job'[c].failed = job[c].failed
      BY <1>2, <2>1, <2>2, Stutters DEF Phase
    <2>3. CASE pc'[c] = "ready" /\ job'[c].failed
      BY <1>2, <2>1, <2>3, Fails DEF Phase
    <2> QED BY <2>1, <2>2, <2>3
  <1> QED BY <1>3, <1>4, <1>5

\* reconnect_before_first_byte.
LEMMA ReopenStream ==
  ASSUME NEW c \in Clients, OwnInv(c),
         Reopen(c) \/ ReopenWalk(c) \/ ReopenOk(c) \/ ReopenRetry(c)
            \/ ReopenFail(c)
  PROVE  StreamStep(c)
  <1>1. TypeOK /\ ClientInv(c)
    BY DEF OwnInv
  <1>2. CASE Reopen(c) \/ ReopenWalk(c) \/ ReopenRetry(c)
    BY <1>2, Unseen DEF Reopen, ReopenWalk, ReopenRetry, callVars, history
  <1>3. CASE ReopenOk(c)
    <2>1. pc[c] = "reconnect" /\ pc'[c] = "transfer" /\ job' = job
      BY <1>1, <1>3 DEF ReopenOk, Call, TypeOK, SessionTypeOK, history
    <2> QED BY <2>1, Stutters DEF Phase, SameBytes
  <1>4. CASE ReopenFail(c)
    <2>1. /\ pc[c] = "reconnect" /\ pc'[c] = "ready"
          /\ job'[c].failed /\ SameBytes(c)
      BY <1>1, <1>4 DEF ReopenFail, Call, TypeOK, SessionTypeOK, JobRec,
         SameBytes
    <2> QED BY <2>1, Fails DEF Phase
  <1> QED BY <1>2, <1>3, <1>4

\* hplp_usb_session_close, and the libusb calls inside the other three.
LEMMA CloseStream ==
  ASSUME NEW c \in Clients, OwnInv(c),
         Close(c) \/ CloseDone(c) \/ CloseHandleStep(c) \/ WalkStep(c)
  PROVE  StreamStep(c)
  <1>1. TypeOK
    BY DEF OwnInv
  <1>2. CASE Close(c)
    <2>1. pc[c] = "ready" /\ pc'[c] = "closing" /\ job' = job
      BY <1>1, <1>2 DEF Close, Call, TypeOK, SessionTypeOK, history
    <2>2. Phase(c) \in {"idle", "dead"} /\ Phase(c)' = "closed"
      BY <1>1, <2>1, CounterTypes DEF Phase
    <2> QED BY <2>1, <2>2, Closes DEF SameBytes
  <1>3. CASE CloseDone(c)
    <2>1. pc[c] = "closing" /\ pc'[c] = "none" /\ job' = job
      BY <1>1, <1>3 DEF CloseDone, Call, TypeOK, SessionTypeOK, history
    <2> QED BY <2>1, Stutters DEF Phase, SameBytes
  <1>4. CASE CloseHandleStep(c) \/ WalkStep(c)
    BY <1>4, Unseen DEF CloseHandleStep, WalkStep, callVars, history
  <1> QED BY <1>2, <1>3, <1>4

\* A printer that leaves tears the job it was taking.
LEMMA LeaveStream ==
  ASSUME NEW c \in Clients, NEW p \in Printers, OwnInv(c), PrinterLeaves(p)
  PROVE  StreamStep(c)
  <1>1. TypeOK
    BY DEF OwnInv
  <1>2. /\ pc' = pc /\ job'[c].sent = job[c].sent
        /\ job'[c].got = job[c].got /\ job'[c].failed = job[c].failed
        /\ \/ job'[c].torn = job[c].torn
           \/ job'[c].torn = TRUE /\ job[c].got # <<>>
    <2>1. job \in [Clients -> JobRec] /\ pc \in [Clients -> Pcs]
      BY <1>1 DEF TypeOK, SessionTypeOK
    <2> QED BY <2>1 DEF PrinterLeaves, callVars, JobRec
  <1>3. Phase(c)' = Phase(c)
    BY <1>2 DEF Phase
  <1> QED BY <1>2, <1>3, Stutters, Tears DEF SameBytes

-----------------------------------------------------------------------------
\* Every step of the system is a step or a stutter of every client's stream.
LEMMA NextStream ==
  ASSUME SessionInv, [Next]_vars, NEW c \in Clients
  PROVE  StreamStep(c)
  <1>1. CASE Caller(c) \/ Session(c)
    BY <1>1, OpenStream, WriteStream, TakeStream, TransferStream,
       ReopenStream, CloseStream DEF Caller, Session, SessionInv, OwnInv
  <1>2. ASSUME NEW d \in Clients \ {c}, Caller(d) \/ Session(d)
        PROVE  StreamStep(c)
    <2>1. pc'[c] = pc[c] /\ job'[c] = job[c]
      BY <1>2, ClientStep
         DEF SessionInv, OwnInv, StepOk, OthersSame, BytesSame
    <2> QED BY <2>1, Unseen
  <1>3. ASSUME NEW p \in Printers, PrinterArrives(p) PROVE StreamStep(c)
    BY <1>3, Unseen DEF PrinterArrives, callVars, history
  <1>4. CASE UNCHANGED vars
    BY <1>4, Unseen DEF vars, callVars, history
  <1> QED BY <1>1, <1>2, <1>3, <1>4, LeaveStream
          DEF Next, Environment, SessionInv, OwnInv

\* Before anything happens there is no job.
LEMMA InitStream ==
  ASSUME Init, NEW c \in Clients PROVE Stream(c)!SInit
  <1>1. pc[c] = "none" /\ job[c] = NewJob(NoPrinter)
    BY DEF Init
  <1> QED BY <1>1 DEF NewJob, Phase, Stream!SInit

\* Each of any number of sessions is a JobStream to its caller: bytes in order
\* and once each, all of them when a write returns success, none on a torn job
\* (lines 396-556), for every caller, model table and chunk size.
THEOREM SessionIsAJobStream == Spec => ImplementsJobStream
  <1>1. SessionInv /\ [Next]_vars => [\A c \in Clients : StreamStep(c)]_vars
    BY NextStream
  <1>2. Init => \A c \in Clients : Stream(c)!SInit
    BY InitStream
  <1> QED BY <1>1, <1>2, SessionInvariant, PTL DEF Spec, ImplementsJobStream
=============================================================================
