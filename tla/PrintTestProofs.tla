--------------------------- MODULE PrintTestProofs ---------------------------
(***************************************************************************)
(* Proofs about PrintTest, for any number of printers and of print tests,  *)
(* any page and any buffer size.                                           *)
(*                                                                         *)
(* The rendering keeps an invariant of its own, RenderInv: a step of the   *)
(* print test is a step of the rendering or leaves it alone.  Around it    *)
(* stands TestInv: what a test holds and what it has sent, at each of its  *)
(* libusb calls.                                                           *)
(***************************************************************************)
EXTENDS PrintTest, TLAPS

-----------------------------------------------------------------------------
(* The rendering, for any number of processes and any page.                *)

\* What is on disk, what is open and how far the wrapper is at each system
\* call.
Shape(a) ==
    /\ rpc[a] = "idle" =>
          files[a] = {} /\ fds[a] = {} /\ wrapper[a] # "running"
    /\ rpc[a] \in {"write", "close"} =>
          files[a] = {"ps"} /\ fds[a] = {"ps"} /\ wrapper[a] = "none"
    /\ rpc[a] = "mkstemp" =>
          files[a] = {"ps"} /\ fds[a] = {} /\ wrapper[a] = "none"
    /\ rpc[a] = "fork" =>
          /\ files[a] = {"ps", "zjs"} /\ fds[a] = {"zjs"}
          /\ wrapper[a] = "none"
    /\ rpc[a] = "wait" =>
          files[a] = {"ps", "zjs"} /\ fds[a] = {} /\ wrapper[a] # "none"
    /\ rpc[a] = "stat" =>
          /\ files[a] = {"zjs"} /\ fds[a] = {}
          /\ wrapper[a] \in {"stream", "empty"}
    /\ rpc[a] = "done" =>
          /\ fds[a] = {} /\ wrapper[a] # "running"
          /\ code[a] = 0 => files[a] = {"zjs"} /\ wrapper[a] = "stream"
          /\ code[a] = 1 => files[a] = {}
    /\ rpc[a] \in {"close", "mkstemp", "fork", "wait", "stat"}
          \/ wrapper[a] # "none" => written[a] = PageBytes

RenderInv == RenderTypeOK /\ \A a \in Processes : Shape(a)

USE RenderAssumption

\* The rendering starts with nothing on disk.
LEMMA InitRender == RenderInit => RenderInv
  BY DEF RenderInit, RenderInv, RenderTypeOK, Shape

\* Every system call of the rendering keeps its invariant.
LEMMA StepRender ==
  ASSUME RenderInv, NEW a \in Processes,
         MakePs(a) \/ Render(a) \/ Wrapper(a) \/ UnlinkPage(a)
  PROVE  RenderInv'
  <1> USE DEF RenderInv, RenderTypeOK, Shape, Sys, Files, Fds, Return,
              RenderFails
  <1>1. CASE MakePs(a)
    BY <1>1 DEF MakePs
  <1>2. CASE WriteSome(a)
    BY <1>2 DEF WriteSome
  <1>3. CASE ClosePs(a)
    BY <1>3 DEF ClosePs
  <1>4. CASE MakeZjs(a)
    BY <1>4 DEF MakeZjs
  <1>5. CASE Fork(a)
    BY <1>5 DEF Fork
  <1>6. CASE Wait(a)
    BY <1>6 DEF Wait
  <1>7. CASE Stat(a)
    BY <1>7 DEF Stat
  <1>8. CASE Wrapper(a)
    BY <1>8 DEF Wrapper
  <1>9. CASE UnlinkPage(a)
    BY <1>9 DEF UnlinkPage
  <1> QED BY <1>1, <1>2, <1>3, <1>4, <1>5, <1>6, <1>7, <1>8, <1>9 DEF Render

\* So does a step of something else.
LEMMA RenderStutters ==
  ASSUME RenderInv, UNCHANGED renderVars
  PROVE  RenderInv'
  BY DEF RenderInv, RenderTypeOK, Shape, renderVars

\* What holds at each system call, in every reachable state.
THEOREM RenderInvariant == RenderSpec => []RenderInv
  <1>1. RenderInv /\ [RenderNext]_renderVars => RenderInv'
    BY StepRender, RenderStutters DEF RenderNext
  <1> QED BY InitRender, <1>1, PTL DEF RenderSpec

\* foo2zjs-wrapper never runs on a part of the page or on files that somebody
\* has unlinked; the return code says what the caller has to unlink, and 0
\* stands for a stream that is not empty.
THEOREM RenderKeepsContract == RenderSpec => []RenderContract
  <1>1. RenderInv => RenderContract
    BY DEF RenderInv, RenderTypeOK, Shape, RenderContract
  <1> QED BY <1>1, RenderInvariant, PTL

-----------------------------------------------------------------------------
(* The print test around it.                                               *)

USE BusAssumption, PrintAssumption

\* What is rendered, open and claimed at each call.
Holds(c) ==
    /\ tpc[c] # "off" => rpc[c] = "done"
    /\ tpc[c] \in {"off", "scan"} => handle[c] = NoRef
    /\ tpc[c] \notin {"off", "scan"} => Printer(c) \in Printers
    /\ \A p \in Printers : owner[p] = c =>
          /\ tpc[c] \in {"open", "read", "send", "release"}
          /\ Printer(c) = p /\ Live(c)

\* How far the page is at each call.
Sends(c) ==
    /\ tpc[c] # "off" => zjs[c] > 0
    /\ tpc[c] # "send" => taken[c] = 0
    /\ tpc[c] = "open" => page[c].sent = 0 /\ page[c].got = <<>>
    /\ tpc[c] \in {"read", "send"} => page[c].sent = zjs[c]
    /\ tpc[c] = "read" =>
          /\ unread[c] <= zjs[c]
          /\ total_sent[c] = zjs[c] - unread[c]
          /\ Len(page[c].got) = zjs[c] - unread[c]
    /\ tpc[c] = "send" =>
          /\ unread[c] + unsent[c] <= zjs[c] /\ taken[c] <= unsent[c]
          /\ total_sent[c] = zjs[c] - unread[c] - unsent[c]
          /\ Len(page[c].got) = zjs[c] - unread[c] - unsent[c] + taken[c]
    /\ \A i \in 1..Len(page[c].got) : page[c].got[i] = i
    /\ tpc[c] \in {"open", "read", "send"} /\ page[c].torn => ~Live(c)

ClientInv(c) == Holds(c) /\ Sends(c)

\* What a test knows of the bus and of itself: the hypothesis of the lemmas
\* about its own steps, whatever the other clients of the bus are.
Types == BusTypeOK /\ TestTypeOK /\ RenderInv

OwnInv(c) == Types /\ ClientInv(c)

TestInv == Types /\ \A c \in Clients : ClientInv(c)

-----------------------------------------------------------------------------
(* Types.                                                                  *)

\* At the start nothing is rendered, open or sent.
LEMMA InitTypes ==
  ASSUME BusInit, TestInit
  PROVE  Types /\ \A c \in Clients : ClientInv(c)
  <1>1. BusTypeOK
    BY DEF BusInit, BusTypeOK, Drivers, Device, NoRef
  <1>2. RenderInv
    BY InitRender DEF TestInit
  <1>3. TestTypeOK
    BY <1>2 DEF TestInit, TestTypeOK, RenderInv, Blank, PageRec
  <1>4. ASSUME NEW c \in Clients PROVE ClientInv(c)
    BY <1>4 DEF BusInit, TestInit, ClientInv, Holds, Sends, Blank
  <1> QED BY <1>1, <1>2, <1>3, <1>4 DEF Types

\* So the invariant holds then.
LEMMA InitInv == Init => TestInv
  BY InitTypes DEF Init, TestInv

-----------------------------------------------------------------------------
(* A step of one test, conjunct by conjunct.                               *)

\* The calls of a test that go on the bus, and the rest.
OnBus(c) ==
    \/ TestList(c) \/ TestOpen(c) \/ TestNoPrinter(c) \/ TestDriver(c)
    \/ TestDetach(c) \/ TestClaim(c) \/ TestUndo(c) \/ TestRelease(c)

OffBus(c) ==
    \/ TestStart(c) \/ TestRender(c) \/ TestGivesUp(c) \/ OpenZjs(c)
    \/ ReadZjs(c) \/ EndOfZjs(c) \/ TestByte(c) \/ SendOk(c) \/ SendError(c)

Acts(c) == TestStart(c) \/ TestStep(c)

\* A call of a test is one or the other.
LEMMA ActsSplit ==
  ASSUME NEW c, Acts(c) PROVE OnBus(c) \/ OffBus(c)
  BY DEF Acts, TestStep, OnBus, OffBus

\* The rest of the calls leave the bus alone.
LEMMA OffBusLeavesBus ==
  ASSUME NEW c, OffBus(c) PROVE UNCHANGED busVars
  BY DEF OffBus, TestStart, TestRender, TestGivesUp, OpenZjs, ReadZjs,
     EndOfZjs, TestByte, SendOk, SendError, Offset

\* The bus keeps its types.
LEMMA BusTypes ==
  ASSUME NEW c \in Clients, OwnInv(c), Acts(c) PROVE BusTypeOK'
  <1>1. BusTypeOK /\ Holds(c)
    BY DEF OwnInv, Types, ClientInv
  <1>2. CASE OffBus(c)
    BY <1>1, <1>2, OffBusLeavesBus DEF BusTypeOK, busVars
  <1>3. CASE TestList(c)
    <2>1. \A q \in plugged : [dev |-> q, live |-> TRUE] \in Device
      BY <1>1 DEF BusTypeOK, Device
    <2>2. {[dev |-> p, live |-> TRUE] :
              p \in {q \in plugged : ProductOf[q] = "002a"}} \in SUBSET Device
      BY <2>1
    <2>3. list' \in [Clients -> SUBSET Device]
      BY <1>1, <1>3, <2>2 DEF TestList, BusTypeOK
    <2> QED BY <1>1, <1>3, <2>3 DEF TestList, BusTypeOK
  <1>4. CASE TestOpen(c)
    BY <1>1, <1>4 DEF TestOpen, TestSkips, Test, CloseHandle, BusTypeOK
  <1>5. CASE TestNoPrinter(c)
    BY <1>1, <1>5 DEF TestNoPrinter, BusTypeOK, busVars
  <1>6. CASE TestDriver(c)
    BY <1>1, <1>6 DEF TestDriver, TestSkips, CloseHandle, BusTypeOK
  <1>7. CASE TestDetach(c)
    BY <1>1, <1>7 DEF TestDetach, TestSkips, CloseHandle, DetachDriver,
       BusTypeOK, Drivers
  <1>8. CASE TestClaim(c)
    BY <1>1, <1>8 DEF TestClaim, TestSkips, CloseHandle, ClaimInterface,
       BusTypeOK
  <1>9. CASE TestUndo(c)
    BY <1>1, <1>9 DEF TestUndo, TestSkips, CloseHandle, AttachDriver,
       BusTypeOK, Drivers
  <1>10. CASE TestRelease(c)
    BY <1>1, <1>10 DEF TestRelease, CloseHandle, ReleaseInterface, BusTypeOK
  <1> QED BY <1>2, <1>3, <1>4, <1>5, <1>6, <1>7, <1>8, <1>9, <1>10, ActsSplit
          DEF OnBus

\* A step of a test is a step of its rendering, or none.
LEMMA RenderSteps ==
  ASSUME NEW c \in Clients, Acts(c)
  PROVE  \/ UNCHANGED renderVars
         \/ MakePs(c) \/ Render(c) \/ Wrapper(c) \/ UnlinkPage(c)
  BY DEF Acts, TestStep, TestStart, TestRender, TestGivesUp, TestList,
     TestOpen, TestNoPrinter, TestDriver, TestDetach, TestClaim, TestUndo,
     OpenZjs, ReadZjs, EndOfZjs, TestByte, SendOk, SendError, Offset,
     TestRelease

\* So the rendering keeps its invariant.
LEMMA RenderKept ==
  ASSUME NEW c \in Clients, OwnInv(c), Acts(c) PROVE RenderInv'
  BY RenderSteps, StepRender, RenderStutters DEF OwnInv, Types

SendTypes ==
    /\ tpc \in [Clients -> {"off", "scan", "active", "detach", "claim",
                            "undo", "open", "read", "send", "release"}]
    /\ undo \in [Clients -> BOOLEAN]
    /\ zjs \in [Clients -> Nat]
    /\ unread \in [Clients -> Nat]
    /\ unsent \in [Clients -> Nat]
    /\ taken \in [Clients -> Nat]
    /\ total_sent \in [Clients -> Nat]
    /\ outcome \in [Clients -> {"none", "sent", "failed"}]
    /\ page \in [Clients -> PageRec]

\* The types of the rendering, and those of the sending.
LEMMA TypesAre == TestTypeOK <=> RenderTypeOK /\ SendTypes
  BY DEF TestTypeOK, SendTypes

\* A page stays a page when one of its fields changes.
LEMMA PageUpdates ==
  ASSUME NEW f \in [Clients -> PageRec], NEW c \in Clients
  PROVE  /\ [f EXCEPT ![c] = Blank] \in [Clients -> PageRec]
         /\ \A n \in Nat : [f EXCEPT ![c].sent = n] \in [Clients -> PageRec]
         /\ \A q \in Seq(Nat) :
               [f EXCEPT ![c].got = q] \in [Clients -> PageRec]
  <1>1. Blank \in PageRec
    BY DEF Blank, PageRec
  <1> QED BY <1>1 DEF PageRec

\* What the counters of a test are.
LEMMA Numbers ==
  ASSUME NEW c \in Clients, OwnInv(c)
  PROVE  /\ zjs[c] \in Nat /\ unread[c] \in Nat /\ unsent[c] \in Nat
         /\ taken[c] \in Nat /\ total_sent[c] \in Nat
         /\ page[c].sent \in Nat /\ page[c].got \in Seq(Nat)
         /\ page[c].torn \in BOOLEAN /\ Len(page[c].got) \in Nat
         /\ tpc[c] = "send" =>
               unread[c] + unsent[c] <= zjs[c] /\ taken[c] <= unsent[c]
  <1>1. page[c] \in PageRec
    BY TypesAre DEF OwnInv, Types, SendTypes
  <1> QED BY <1>1, TypesAre
          DEF OwnInv, Types, SendTypes, PageRec, ClientInv, Sends

\* The counters of send_file stay numbers.
LEMMA SendTypesKept ==
  ASSUME NEW c \in Clients, OwnInv(c), Acts(c) PROVE SendTypes'
  <1>1. SendTypes
    BY TypesAre DEF OwnInv, Types
  <1> USE <1>1 DEF SendTypes
  <1>2. CASE TestStart(c) \/ TestRender(c) \/ TestGivesUp(c)
    BY <1>2 DEF TestStart, TestRender, TestGivesUp, sendVars
  <1>3. CASE TestList(c)
    BY <1>3, PrintAssumption DEF TestList, Test
  <1>4. CASE TestOpen(c)
    BY <1>4 DEF TestOpen, TestSkips, Test
  <1>5. CASE TestNoPrinter(c) \/ TestDriver(c)
    BY <1>5 DEF TestNoPrinter, TestDriver, TestSkips, Test
  <1>6. CASE TestDetach(c) \/ TestUndo(c)
    BY <1>6 DEF TestDetach, TestUndo, TestSkips, Test
  <1>7. CASE TestClaim(c)
    <2>1. page' = [page EXCEPT ![c] = Blank] \/ page' = page
      BY <1>7 DEF TestClaim
    <2>2. page' \in [Clients -> PageRec]
      <3>1. page \in [Clients -> PageRec]
        OBVIOUS
      <3> HIDE <1>1 DEF SendTypes
      <3> QED BY <2>1, <3>1, PageUpdates
    <2> QED BY <1>7, <2>2 DEF TestClaim, TestSkips, Test
  <1>8. CASE OpenZjs(c)
    <2>1. page' = [page EXCEPT ![c].sent = zjs[c]] \/ page' = page
      BY <1>8 DEF OpenZjs
    <2>2. page' \in [Clients -> PageRec]
      <3>1. zjs[c] \in Nat /\ page \in [Clients -> PageRec]
        OBVIOUS
      <3> HIDE <1>1 DEF SendTypes
      <3> QED BY <2>1, <3>1, PageUpdates
    <2> QED BY <1>8, <2>2 DEF OpenZjs, SendFails, Test
  <1>9. CASE ReadZjs(c)
    <2>1. ASSUME NEW n \in 1..Smaller(BufferSize, unread[c])
          PROVE  n \in Nat /\ unread[c] - n \in Nat
      BY DEF Smaller
    <2>2. unread' \in [Clients -> Nat] /\ unsent' \in [Clients -> Nat]
      BY <1>9, <2>1 DEF ReadZjs
    <2> QED BY <1>9, <2>2 DEF ReadZjs, SendFails, Test
  <1>10. CASE EndOfZjs(c) \/ TestRelease(c)
    BY <1>10 DEF EndOfZjs, TestRelease, Test
  <1>11. CASE TestByte(c)
    <2> DEFINE b == zjs[c] - unread[c] - unsent[c] + taken[c] + 1
    <2>1. b \in Nat
      <3>1. /\ zjs[c] \in Nat /\ unread[c] \in Nat /\ unsent[c] \in Nat
            /\ taken[c] \in Nat /\ unread[c] + unsent[c] <= zjs[c]
        BY <1>11, Numbers DEF TestByte
      <3> HIDE <1>1 DEF SendTypes
      <3> QED BY <3>1
    <2>2. Append(page[c].got, b) \in Seq(Nat)
      BY <2>1, Numbers
    <2>3. page' = [page EXCEPT ![c].got = Append(page[c].got, b)]
      BY <1>11 DEF TestByte
    <2> HIDE DEF b
    <2>4. page' \in [Clients -> PageRec]
      BY <2>2, <2>3, PageUpdates
    <2>5. /\ taken' \in [Clients -> Nat]
          /\ UNCHANGED <<undo, zjs, unread, unsent, total_sent>>
      BY <1>11 DEF TestByte
    <2>6. UNCHANGED <<tpc, outcome>>
      BY <1>11 DEF TestByte
    <2> QED BY <2>4, <2>5, <2>6
  <1>12. CASE SendOk(c) \/ SendError(c)
    <2>1. unsent[c] - taken[c] \in Nat /\ total_sent[c] + taken[c] \in Nat
      BY <1>12, Numbers DEF SendOk, SendError, SendFails, Test
    <2>2. /\ unsent' \in [Clients -> Nat] /\ taken' \in [Clients -> Nat]
          /\ total_sent' \in [Clients -> Nat]
          /\ UNCHANGED <<undo, zjs, unread, page>>
      BY <1>12, <2>1 DEF SendOk, SendError, Offset
    <2> QED BY <1>12, <2>2 DEF SendOk, SendError, SendFails, Test
  <1> QED BY <1>2, <1>3, <1>4, <1>5, <1>6, <1>7, <1>8, <1>9, <1>10, <1>11,
             <1>12 DEF Acts, TestStep

\* What a step of c leaves alone of every other test.
OthersSame(c) ==
    \A d \in Clients \ {c} :
        /\ rpc'[d] = rpc[d] /\ tpc'[d] = tpc[d] /\ handle'[d] = handle[d]
        /\ zjs'[d] = zjs[d] /\ unread'[d] = unread[d]
        /\ unsent'[d] = unsent[d] /\ taken'[d] = taken[d]
        /\ total_sent'[d] = total_sent[d] /\ page'[d] = page[d]
        /\ outcome'[d] = outcome[d]
        /\ \A p \in Printers : owner'[p] = d <=> owner[p] = d

\* The rendering of c touches its own system call only.
LEMMA RpcOfOthers ==
  ASSUME NEW c \in Clients, NEW d \in Clients \ {c}, RenderInv,
         \/ UNCHANGED renderVars
         \/ MakePs(c) \/ Render(c) \/ Wrapper(c) \/ UnlinkPage(c)
  PROVE  rpc'[d] = rpc[d]
  BY DEF RenderInv, RenderTypeOK, renderVars, MakePs, Render, Wrapper,
     UnlinkPage, WriteSome, ClosePs, MakeZjs, Fork, Wait, Stat, Sys,
     RenderFails

\* A call of c leaves the other tests alone.
LEMMA OthersAreSame ==
  ASSUME NEW c \in Clients, OwnInv(c), Acts(c) PROVE OthersSame(c)
  <1> SUFFICES ASSUME NEW d \in Clients \ {c}
               PROVE  /\ rpc'[d] = rpc[d] /\ tpc'[d] = tpc[d]
                      /\ handle'[d] = handle[d]
                      /\ zjs'[d] = zjs[d] /\ unread'[d] = unread[d]
                      /\ unsent'[d] = unsent[d] /\ taken'[d] = taken[d]
                      /\ total_sent'[d] = total_sent[d] /\ page'[d] = page[d]
                      /\ outcome'[d] = outcome[d]
                      /\ \A p \in Printers : owner'[p] = d <=> owner[p] = d
    BY DEF OthersSame
  <1>1. BusTypeOK /\ SendTypes /\ RenderInv
    BY TypesAre DEF OwnInv, Types
  <1>2. rpc'[d] = rpc[d]
    BY <1>1, RenderSteps, RpcOfOthers
  <1> USE <1>1 DEF SendTypes, BusTypeOK
  <1>3. CASE TestStart(c) \/ TestRender(c) \/ TestGivesUp(c)
    BY <1>2, <1>3 DEF TestStart, TestRender, TestGivesUp, sendVars, busVars
  <1>4. CASE TestList(c) \/ TestNoPrinter(c)
    BY <1>2, <1>4 DEF TestList, TestNoPrinter, Test, busVars
  <1>5. CASE TestOpen(c) \/ TestDriver(c)
    BY <1>2, <1>5 DEF TestOpen, TestDriver, TestSkips, Test, CloseHandle
  <1>6. CASE TestDetach(c) \/ TestUndo(c)
    BY <1>2, <1>6 DEF TestDetach, TestUndo, TestSkips, Test, CloseHandle
  <1>7. CASE TestClaim(c)
    BY <1>2, <1>7 DEF TestClaim, TestSkips, Test, CloseHandle, ClaimInterface
  <1>8. CASE OpenZjs(c) \/ EndOfZjs(c)
    BY <1>2, <1>8 DEF OpenZjs, EndOfZjs, SendFails, Test, busVars
  <1>9. CASE ReadZjs(c)
    BY <1>2, <1>9 DEF ReadZjs, SendFails, Test, busVars
  <1>10. CASE TestByte(c)
    BY <1>2, <1>10 DEF TestByte, busVars
  <1>11. CASE SendOk(c) \/ SendError(c)
    BY <1>2, <1>11 DEF SendOk, SendError, SendFails, Offset, Test, busVars
  <1>12. CASE TestRelease(c)
    BY <1>2, <1>12 DEF TestRelease, Test, CloseHandle, ReleaseInterface
  <1> QED BY <1>3, <1>4, <1>5, <1>6, <1>7, <1>8, <1>9, <1>10, <1>11, <1>12
          DEF Acts, TestStep

\* A test that is left alone knows what it knew.
LEMMA OthersKept ==
  ASSUME NEW c \in Clients, NEW d \in Clients \ {c}, ClientInv(d),
         OthersSame(c)
  PROVE  ClientInv(d)'
  <1>1. Holds(d) /\ Sends(d)
    BY DEF TestInv, Types, ClientInv
  <1>2. Holds(d)'
    BY <1>1 DEF OthersSame, Holds, Printer, Live
  <1>3. Sends(d)'
    BY <1>1 DEF OthersSame, Sends, Live
  <1> QED BY <1>2, <1>3 DEF ClientInv

\* What c holds, after a step of its own.
LEMMA HoldsKept ==
  ASSUME NEW c \in Clients, OwnInv(c), Acts(c) PROVE Holds(c)'
  <1>1. BusTypeOK /\ SendTypes /\ RenderTypeOK /\ Holds(c)
    BY TypesAre DEF OwnInv, Types, ClientInv, RenderInv
  <1> USE <1>1 DEF SendTypes, BusTypeOK, RenderTypeOK, Holds, Printer, Live
  <1>2. CASE TestStart(c) \/ TestGivesUp(c)
    BY <1>2 DEF TestStart, TestGivesUp, sendVars, busVars, MakePs, Sys,
       RenderFails, UnlinkPage
  <1>3. CASE TestRender(c)
    <2>1. rpc[c] = "done" => rpc'[c] = "done"
      BY <1>3 DEF TestRender, Render, WriteSome, ClosePs, MakeZjs, Fork, Wait,
         Stat, Sys, Wrapper, RenderFails
    <2> QED BY <1>3, <2>1 DEF TestRender, sendVars, busVars
  <1>4. CASE TestList(c) \/ TestNoPrinter(c)
    BY <1>4 DEF TestList, TestNoPrinter, Test, busVars, renderVars
  <1>5. CASE TestOpen(c)
    BY <1>5 DEF TestOpen, TestSkips, Test, CloseHandle, renderVars, Device
  <1>6. CASE TestDriver(c) \/ TestDetach(c) \/ TestUndo(c)
    BY <1>6 DEF TestDriver, TestDetach, TestUndo, TestSkips, Test,
       CloseHandle, renderVars
  <1>7. CASE TestClaim(c)
    BY <1>7 DEF TestClaim, TestSkips, Test, CloseHandle, ClaimInterface,
       renderVars
  <1>8. CASE OffBus(c) /\ ~(TestStart(c) \/ TestGivesUp(c) \/ TestRender(c))
    <2>1. CASE OpenZjs(c) \/ ReadZjs(c)
      BY <2>1 DEF OpenZjs, ReadZjs, SendFails, Test, busVars, renderVars
    <2>2. CASE EndOfZjs(c) \/ TestByte(c)
      BY <2>2 DEF EndOfZjs, TestByte, Test, busVars, renderVars
    <2>3. CASE SendOk(c) \/ SendError(c)
      BY <2>3 DEF SendOk, SendError, SendFails, Offset, Test, busVars,
         renderVars
    <2> QED BY <1>8, <2>1, <2>2, <2>3 DEF OffBus
  <1>9. CASE TestRelease(c)
    BY <1>9 DEF TestRelease, Test, CloseHandle, ReleaseInterface
  <1> QED BY <1>2, <1>3, <1>4, <1>5, <1>6, <1>7, <1>8, <1>9, ActsSplit
          DEF OnBus

\* How far the page of c is, after a step that does not send.
LEMMA SendsKeptOffSend ==
  ASSUME NEW c \in Clients, OwnInv(c),
         \/ TestStart(c) \/ TestRender(c) \/ TestGivesUp(c)
         \/ OnBus(c) /\ ~TestClaim(c)
  PROVE  Sends(c)'
  <1>1. BusTypeOK /\ SendTypes /\ Sends(c)
    BY TypesAre DEF OwnInv, Types, ClientInv
  <1> USE <1>1 DEF SendTypes, BusTypeOK, Sends, Live
  <1>2. CASE TestStart(c) \/ TestRender(c) \/ TestGivesUp(c)
    BY <1>2 DEF TestStart, TestRender, TestGivesUp, sendVars, busVars
  <1>3. CASE TestList(c)
    BY <1>3, PrintAssumption DEF TestList, Test
  <1>4. CASE TestOpen(c) \/ TestDriver(c)
    BY <1>4 DEF TestOpen, TestDriver, TestSkips, Test
  <1>5. CASE TestNoPrinter(c) \/ TestRelease(c)
    BY <1>5 DEF TestNoPrinter, TestRelease, Test
  <1>6. CASE TestDetach(c) \/ TestUndo(c)
    BY <1>6 DEF TestDetach, TestUndo, TestSkips, Test
  <1> QED BY <1>2, <1>3, <1>4, <1>5, <1>6 DEF OnBus

\* The claim starts a blank page.
LEMMA ClaimSends ==
  ASSUME NEW c \in Clients, OwnInv(c), TestClaim(c) PROVE Sends(c)'
  <1>1. BusTypeOK /\ SendTypes /\ Sends(c)
    BY TypesAre DEF OwnInv, Types, ClientInv
  <1>2. /\ tpc[c] = "claim"
        /\ UNCHANGED <<zjs, unread, unsent, taken, total_sent>>
        /\ \/ tpc'[c] = "open" /\ page'[c] = Blank
           \/ tpc'[c] \in {"undo", "scan"} /\ page' = page
    BY <1>1 DEF TestClaim, TestSkips, Test, SendTypes
  <1>3. CASE tpc'[c] = "open" /\ page'[c] = Blank
    BY <1>1, <1>2, <1>3 DEF Sends, Blank
  <1>4. CASE tpc'[c] \in {"undo", "scan"} /\ page' = page
    BY <1>1, <1>2, <1>4 DEF Sends
  <1> QED BY <1>2, <1>3, <1>4

\* The file is opened and read.
LEMMA OpenSends ==
  ASSUME NEW c \in Clients, OwnInv(c), OpenZjs(c) PROVE Sends(c)'
  <1>1. SendTypes /\ Sends(c) /\ page[c] \in PageRec
    BY TypesAre DEF OwnInv, Types, ClientInv, SendTypes
  <1>2. /\ tpc[c] = "open" /\ UNCHANGED <<busVars, zjs, unsent, taken>>
        /\ page'[c].got = page[c].got /\ page'[c].torn = page[c].torn
        /\ \/ /\ tpc'[c] = "read" /\ unread'[c] = zjs[c]
              /\ total_sent'[c] = 0 /\ page'[c].sent = zjs[c]
           \/ /\ tpc'[c] = "release" /\ UNCHANGED <<unread, total_sent>>
              /\ page'[c].sent = page[c].sent
    BY <1>1 DEF OpenZjs, SendFails, Test, SendTypes, PageRec
  <1>3. page'[c].got = <<>> /\ zjs[c] \in Nat
    BY <1>1, <1>2, Numbers DEF Sends
  <1> QED BY <1>1, <1>2, <1>3 DEF Sends, Live, busVars

\* What is read is now to be sent.
LEMMA ReadSends ==
  ASSUME NEW c \in Clients, OwnInv(c), ReadZjs(c) \/ EndOfZjs(c)
  PROVE  Sends(c)'
  <1>1. SendTypes /\ Sends(c)
    BY TypesAre DEF OwnInv, Types, ClientInv
  <1>2. /\ tpc[c] = "read"
        /\ UNCHANGED <<busVars, zjs, taken, total_sent, page>>
        /\ \/ /\ tpc'[c] = "send"
              /\ \E n \in 1..Smaller(BufferSize, unread[c]) :
                    unsent'[c] = n /\ unread'[c] = unread[c] - n
           \/ tpc'[c] = "release"
    BY <1>1 DEF ReadZjs, EndOfZjs, SendFails, Test, SendTypes
  <1>3. taken'[c] = 0 /\ taken[c] = 0
    BY <1>1, <1>2 DEF Sends
  <1>4. CASE tpc'[c] = "release"
    BY <1>1, <1>2, <1>3, <1>4 DEF Sends
  <1>5. ASSUME NEW n \in 1..Smaller(BufferSize, unread[c]),
               tpc'[c] = "send", unsent'[c] = n, unread'[c] = unread[c] - n
        PROVE  Sends(c)'
    <2>1. n \in Nat /\ n > 0 /\ n <= unread[c]
      BY <1>5, Numbers DEF Smaller
    <2>2. /\ unread[c] <= zjs[c]
          /\ total_sent[c] = zjs[c] - unread[c]
          /\ Len(page[c].got) = zjs[c] - unread[c]
      BY <1>1, <1>2 DEF Sends
    <2>3. /\ unread'[c] + unsent'[c] <= zjs[c]
          /\ total_sent[c] = zjs[c] - unread'[c] - unsent'[c]
          /\ Len(page[c].got) = zjs[c] - unread'[c] - unsent'[c] + taken'[c]
      BY <1>3, <1>5, <2>1, <2>2, Numbers
    <2> QED BY <1>1, <1>2, <1>3, <1>5, <2>1, <2>3 DEF Sends, Live, busVars
  <1> QED BY <1>2, <1>4, <1>5

\* The printer takes a byte.
LEMMA ByteSends ==
  ASSUME NEW c \in Clients, OwnInv(c), TestByte(c) PROVE Sends(c)'
  <1>1. SendTypes /\ Sends(c) /\ page[c] \in PageRec
    BY TypesAre DEF OwnInv, Types, ClientInv, SendTypes
  <1> DEFINE b == zjs[c] - unread[c] - unsent[c] + taken[c] + 1
             n == Len(page[c].got)
  <1>2. /\ tpc[c] = "send" /\ Live(c) /\ taken[c] < unsent[c]
        /\ UNCHANGED <<busVars, tpc, zjs, unread, unsent, total_sent>>
        /\ taken'[c] = taken[c] + 1
        /\ page'[c].got = Append(page[c].got, b)
        /\ page'[c].torn = page[c].torn /\ page'[c].sent = page[c].sent
    BY <1>1 DEF TestByte, SendTypes, PageRec
  <1>3. n \in Nat /\ b = n + 1
    BY <1>1, <1>2, Numbers DEF Sends
  <1>4. /\ Len(page'[c].got) = n + 1 /\ page'[c].got[n + 1] = n + 1
        /\ \A i \in 1..n : page'[c].got[i] = page[c].got[i]
    BY <1>2, <1>3, Numbers
  <1>5. \A i \in 1..(n + 1) : page'[c].got[i] = i
    <2>1. \A i \in 1..n : page[c].got[i] = i
      BY <1>1 DEF Sends
    <2>2. \A i \in 1..(n + 1) : i \in 1..n \/ i = n + 1
      BY <1>3
    <2> HIDE DEF n, b
    <2> QED BY <1>4, <2>1, <2>2
  <1>6. n + 1 = zjs[c] - unread[c] - unsent[c] + taken'[c]
    <2>1. /\ zjs[c] \in Nat /\ unread[c] \in Nat /\ unsent[c] \in Nat
          /\ taken[c] \in Nat
      BY Numbers
    <2>2. n = zjs[c] - unread[c] - unsent[c] + taken[c]
      BY <1>1, <1>2 DEF Sends
    <2>3. taken'[c] = taken[c] + 1
      BY <1>2
    <2> HIDE DEF n, b
    <2> QED BY <2>1, <2>2, <2>3
  <1>7. taken'[c] <= unsent[c]
    BY <1>2, Numbers
  <1> HIDE DEF n, b
  <1> QED BY <1>1, <1>2, <1>4, <1>5, <1>6, <1>7 DEF Sends, Live, busVars

\* A transfer returns.
LEMMA TransferSends ==
  ASSUME NEW c \in Clients, OwnInv(c), SendOk(c) \/ SendError(c)
  PROVE  Sends(c)'
  <1>1. SendTypes /\ Sends(c)
    BY TypesAre DEF OwnInv, Types, ClientInv
  <1>2. /\ tpc[c] = "send" /\ taken'[c] = 0
        /\ UNCHANGED <<busVars, zjs, unread, page>>
        /\ unsent'[c] = unsent[c] - taken[c]
        /\ total_sent'[c] = total_sent[c] + taken[c]
        /\ \/ tpc'[c] = "read" /\ unsent'[c] = 0
           \/ tpc'[c] \in {"send", "release"}
    BY <1>1 DEF SendOk, SendError, SendFails, Offset, Test, SendTypes
  <1>3. /\ unread[c] + unsent[c] <= zjs[c] /\ taken[c] <= unsent[c]
        /\ total_sent[c] = zjs[c] - unread[c] - unsent[c]
        /\ Len(page[c].got) = zjs[c] - unread[c] - unsent[c] + taken[c]
    <2>1. Sends(c) /\ tpc[c] = "send"
      BY <1>1, <1>2
    <2> QED BY <2>1 DEF Sends
  <1>4. /\ zjs[c] \in Nat /\ unread[c] \in Nat /\ unsent[c] \in Nat
        /\ taken[c] \in Nat /\ total_sent[c] \in Nat
        /\ Len(page[c].got) \in Nat
    BY Numbers
  <1>5. unsent'[c] = unsent[c] - taken[c]
    BY <1>2
  <1>6. unsent'[c] \in Nat /\ unread[c] + unsent'[c] <= zjs[c]
    BY <1>3, <1>4, <1>5
  <1>7. /\ total_sent'[c] = zjs[c] - unread[c] - unsent'[c]
        /\ Len(page[c].got) = zjs[c] - unread[c] - unsent'[c]
    <2>1. total_sent'[c] = total_sent[c] + taken[c]
      BY <1>2
    <2> QED BY <1>3, <1>4, <1>5, <2>1
  <1>8. /\ tpc'[c] = "read" => /\ unread[c] <= zjs[c]
                               /\ total_sent'[c] = zjs[c] - unread[c]
                               /\ Len(page[c].got) = zjs[c] - unread[c]
        /\ 0 <= unsent'[c]
        /\ Len(page[c].got) = zjs[c] - unread[c] - unsent'[c] + 0
    <2>1. tpc'[c] = "read" => unsent'[c] = 0
      BY <1>2
    <2> QED BY <2>1, <1>4, <1>6, <1>7
  <1> QED BY <1>1, <1>2, <1>6, <1>7, <1>8 DEF Sends, Live, busVars

\* How far the page is, after any step of its test.
LEMMA SendsKept ==
  ASSUME NEW c \in Clients, OwnInv(c), Acts(c) PROVE Sends(c)'
  BY ActsSplit, SendsKeptOffSend, ClaimSends, OpenSends, ReadSends, ByteSends,
     TransferSends DEF OffBus

-----------------------------------------------------------------------------
(* Printers come and go.                                                   *)

\* The bus keeps its types when printers come and go.
LEMMA BusMoves ==
  ASSUME NEW p \in Printers, BusTypeOK, Unplug(p) \/ Plug(p) PROVE BusTypeOK'
  <1>1. CASE Plug(p)
    BY <1>1 DEF Plug, BusTypeOK, Drivers
  <1>2. CASE Unplug(p)
    <2>1. \A r \in Device : Stale(r, p) \in Device
      BY DEF Stale, Device
    <2>2. Stale(NoRef, p) = NoRef
      BY DEF Stale, NoRef
    <2>3. handle' \in [Clients -> Device \cup {NoRef}]
      BY <1>2, <2>1, <2>2 DEF Unplug, BusTypeOK
    <2>4. list' \in [Clients -> SUBSET Device]
      BY <1>2, <2>1 DEF Unplug, BusTypeOK
    <2> QED BY <1>2, <2>3, <2>4 DEF Unplug, BusTypeOK, Drivers
  <1> QED BY <1>1, <1>2

\* A printer that leaves takes its claim and its handles, and tears the page.
LEMMA LeavesKept ==
  ASSUME NEW p \in Printers, Types, Leaves(p)
  PROVE  Types' /\ \A c \in Clients : ClientInv(c) => ClientInv(c)'
  <1>1. BusTypeOK' /\ RenderInv'
    BY BusMoves, RenderStutters DEF Types, Leaves
  <1>2. \A c \in Clients :
          /\ handle'[c].dev = handle[c].dev
          /\ handle[c] = NoRef => handle'[c] = NoRef
          /\ handle'[c].live => handle[c].live /\ handle[c].dev # p
          /\ handle[c].live /\ handle[c].dev # p => handle'[c].live
    <2> TAKE c \in Clients
    <2>1. handle[c] \in Device \cup {NoRef}
      BY DEF Types, BusTypeOK
    <2>2. handle'[c] = Stale(handle[c], p)
      BY DEF Leaves, Unplug
    <2>3. CASE handle[c].dev = p
      <3>1. handle[c] \in Device
        BY <2>1, <2>3, BusAssumption DEF NoRef
      <3>2. handle'[c].dev = p /\ handle'[c].live = FALSE
        BY <2>2, <2>3, <3>1 DEF Stale, Device
      <3> QED BY <2>3, <3>1, <3>2, BusAssumption DEF NoRef
    <2>4. CASE handle[c].dev # p
      BY <2>2, <2>4 DEF Stale
    <2> QED BY <2>3, <2>4
  <1>3. /\ owner' = [owner EXCEPT ![p] = NoClient]
        /\ UNCHANGED <<rpc, sendVars>>
    BY DEF Leaves, Unplug, renderVars
  <1>4. \A c \in Clients :
          /\ page[c] \in PageRec
          /\ page'[c].sent = page[c].sent /\ page'[c].got = page[c].got
          /\ page'[c].torn \in BOOLEAN
          /\ page'[c].torn => page[c].torn \/ ~handle'[c].live
          /\ page'[c] \in PageRec
    <2> TAKE c \in Clients
    <2>1. page[c] \in PageRec
      BY TypesAre DEF Types, SendTypes
    <2>2. page'[c] = [page[c] EXCEPT !.torn = @ \/
                        (handle[c] = [dev |-> p, live |-> TRUE]
                           /\ page[c].got # <<>>)]
      BY DEF Leaves, PageTears
    <2>3. handle[c] = [dev |-> p, live |-> TRUE] => ~handle'[c].live
      BY <1>2
    <2> QED BY <2>1, <2>2, <2>3 DEF PageRec
  <1>5. SendTypes'
    <2>1. page' \in [Clients -> PageRec]
      BY <1>4 DEF Leaves, PageTears
    <2> QED BY <1>3, <2>1, TypesAre DEF Types, SendTypes, sendVars
  <1>6. ASSUME NEW c \in Clients, ClientInv(c) PROVE ClientInv(c)'
    <2>1. Holds(c) /\ Sends(c)
      BY <1>6 DEF ClientInv
    <2>2. Holds(c)'
      BY <1>2, <1>3, <2>1, BusAssumption
         DEF Holds, Printer, Live, sendVars, Types, BusTypeOK
    <2>3. Sends(c)'
      BY <1>2, <1>3, <1>4, <2>1 DEF Sends, Live, sendVars
    <2> QED BY <2>2, <2>3 DEF ClientInv
  <1> QED BY <1>1, <1>5, <1>6
          DEF Types, TestTypeOK, SendTypes, RenderInv

\* A printer that arrives is new to every test.
LEMMA ArrivesKept ==
  ASSUME NEW p \in Printers, Types, Arrives(p)
  PROVE  Types' /\ \A c \in Clients : ClientInv(c) => ClientInv(c)'
  <1>1. BusTypeOK' /\ RenderInv'
    BY BusMoves, RenderStutters DEF Types, Arrives, testVars
  <1>2. TestTypeOK'
    BY <1>1 DEF Types, TestTypeOK, Arrives, testVars, sendVars, RenderInv
  <1>3. ASSUME NEW c \in Clients, ClientInv(c) PROVE ClientInv(c)'
    BY <1>3 DEF ClientInv, Holds, Sends, Printer, Live, Arrives, Plug,
       testVars, sendVars, renderVars
  <1> QED BY <1>1, <1>2, <1>3 DEF Types

-----------------------------------------------------------------------------
\* A step of one test keeps the types, what it knows itself, and the others.
LEMMA StepKept ==
  ASSUME NEW c \in Clients, OwnInv(c), Acts(c)
  PROVE  Types' /\ ClientInv(c)' /\ OthersSame(c)
  <1>1. BusTypeOK' /\ RenderInv' /\ SendTypes'
    BY BusTypes, RenderKept, SendTypesKept
  <1>2. TestTypeOK'
    BY <1>1 DEF TestTypeOK, SendTypes, RenderInv
  <1> QED BY <1>1, <1>2, HoldsKept, SendsKept, OthersAreSame
          DEF Types, ClientInv

\* So does a step of something else.
LEMMA StaysKept ==
  ASSUME UNCHANGED <<busVars, testVars>>, Types
  PROVE  Types' /\ \A c \in Clients : ClientInv(c) => ClientInv(c)'
  <1>1. UNCHANGED <<busVars, renderVars, sendVars, page>>
    BY DEF testVars
  <1>2. RenderInv'
    BY <1>1, RenderStutters DEF Types
  <1>3. BusTypeOK' /\ TestTypeOK'
    BY <1>1, <1>2 DEF Types, BusTypeOK, TestTypeOK, busVars, sendVars,
       RenderInv
  <1>4. ASSUME NEW c \in Clients, ClientInv(c) PROVE ClientInv(c)'
    BY <1>1, <1>4 DEF ClientInv, Holds, Sends, Printer, Live, busVars,
       sendVars, renderVars
  <1> QED BY <1>2, <1>3, <1>4 DEF Types

\* The invariant is inductive.
LEMMA NextInv ==
  ASSUME TestInv, [Next]_vars PROVE TestInv'
  <1>1. ASSUME NEW c \in Clients, Acts(c) PROVE TestInv'
    <2>1. Types' /\ ClientInv(c)' /\ OthersSame(c)
      BY <1>1, StepKept DEF TestInv, OwnInv
    <2>2. ASSUME NEW d \in Clients \ {c} PROVE ClientInv(d)'
      BY <2>1, OthersKept DEF TestInv
    <2> QED BY <2>1, <2>2 DEF TestInv
  <1>2. ASSUME NEW p \in Printers, Leaves(p) \/ Arrives(p) PROVE TestInv'
    BY <1>2, LeavesKept, ArrivesKept DEF TestInv
  <1>3. CASE UNCHANGED vars
    BY <1>3, StaysKept DEF vars, TestInv
  <1> QED BY <1>1, <1>2, <1>3 DEF Next, Acts

\* What holds at each call of a print test, in every reachable state.
THEOREM TestInvariant == Spec => []TestInv
  <1>1. Init => TestInv
    BY InitInv
  <1>2. TestInv /\ [Next]_vars => TestInv'
    BY NextInv
  <1> QED BY <1>1, <1>2, PTL DEF Spec

\* The variables of the print test stay in their types: the subtractions of
\* send_file never go below zero (lines 119-147).
THEOREM TestTypesCorrect == Spec => []TestTypeOK
  <1>1. TestInv => TestTypeOK
    BY DEF TestInv, Types
  <1> QED BY <1>1, TestInvariant, PTL

\* The rendering keeps its contract when any number of print tests run, the
\* bus around them changing as it likes (src/render_test.c:85-208).
THEOREM TestRenders == Spec => []RenderContract
  <1>1. TestInv => RenderContract
    BY DEF TestInv, Types, RenderInv, RenderTypeOK, Shape, RenderContract
  <1> QED BY <1>1, TestInvariant, PTL

\* Wherever a print test fails, it leaves no file, no open handle and no claim
\* (lines 184-234).
THEOREM TestLeavesNothing == Spec => []NothingLeft
  <1>1. TestInv => NothingLeft
    BY DEF TestInv, Types, ClientInv, Holds, RenderInv, RenderTypeOK, Shape,
       NothingLeft, Off
  <1> QED BY <1>1, TestInvariant, PTL

-----------------------------------------------------------------------------
(* The page as a job stream.                                               *)

SameBytes(c) ==
    /\ page'[c].sent = page[c].sent /\ page'[c].got = page[c].got
    /\ page'[c].torn = page[c].torn

\* A step that changes nothing of the stream.
LEMMA Stutters ==
  ASSUME NEW c, Phase(c)' = Phase(c), SameBytes(c)
  PROVE  StreamStep(c)
  BY DEF StreamStep, Stream!streamVars, SameBytes

\* A step that changes neither the call nor the page.
LEMMA Unseen ==
  ASSUME NEW c, tpc'[c] = tpc[c], page'[c] = page[c],
         tpc[c] # "release" \/ outcome'[c] = outcome[c]
  PROVE  StreamStep(c)
  BY Stutters DEF Phase, SameBytes

\* A step before the claim.
LEMMA ClosedStutters ==
  ASSUME NEW c, page'[c] = page[c],
         tpc[c] \notin {"open", "read", "send", "release"},
         tpc'[c] \notin {"open", "read", "send", "release"}
  PROVE  StreamStep(c)
  BY Stutters DEF Phase, SameBytes

\* The claim starts the stream.
LEMMA ClaimStream ==
  ASSUME NEW c \in Clients, OwnInv(c), TestClaim(c) PROVE StreamStep(c)
  <1>1. SendTypes
    BY TypesAre DEF OwnInv, Types
  <1>2. /\ tpc[c] = "claim"
        /\ \/ tpc'[c] = "open" /\ page'[c] = Blank
           \/ tpc'[c] \in {"undo", "scan"} /\ page' = page
    BY <1>1 DEF TestClaim, TestSkips, Test, SendTypes
  <1>3. CASE tpc'[c] = "open" /\ page'[c] = Blank
    <2>1. Phase(c) = "closed" /\ Phase(c)' = "idle"
      BY <1>2, <1>3 DEF Phase
    <2> QED BY <1>3, <2>1
            DEF Blank, StreamStep, Stream!SNext, Stream!SOpen, Stream!Fresh
  <1>4. CASE tpc'[c] \in {"undo", "scan"} /\ page' = page
    BY <1>2, <1>4, ClosedStutters
  <1> QED BY <1>2, <1>3, <1>4

\* send_file hands over the whole page, or nothing.
LEMMA OpenStream ==
  ASSUME NEW c \in Clients, OwnInv(c), OpenZjs(c) PROVE StreamStep(c)
  <1>1. SendTypes /\ Sends(c) /\ page[c] \in PageRec
    BY TypesAre DEF OwnInv, Types, ClientInv, SendTypes
  <1>2. /\ tpc[c] = "open" /\ page'[c].got = page[c].got
        /\ page'[c].torn = page[c].torn
        /\ \/ tpc'[c] = "read" /\ page'[c].sent = zjs[c]
           \/ tpc'[c] = "release" /\ page'[c].sent = page[c].sent
    BY <1>1 DEF OpenZjs, SendFails, Test, SendTypes, PageRec
  <1>3. page[c].sent = 0 /\ zjs[c] > 0 /\ zjs[c] \in Nat
    BY <1>1, <1>2, Numbers DEF Sends
  <1>4. Phase(c) = "idle"
    BY <1>2 DEF Phase
  <1>5. CASE tpc'[c] = "read" /\ page'[c].sent = zjs[c]
    <2>1. Phase(c)' = "busy"
      BY <1>5 DEF Phase
    <2> QED BY <1>2, <1>3, <1>4, <1>5, <2>1
            DEF StreamStep, Stream!SNext, Stream!SWrite
  <1>6. CASE tpc'[c] = "release" /\ page'[c].sent = page[c].sent
    <2>1. Phase(c)' = "idle"
      BY <1>3, <1>6 DEF Phase
    <2> QED BY <1>2, <1>4, <1>6, <2>1, Stutters DEF SameBytes
  <1> QED BY <1>2, <1>5, <1>6

\* A sequence that holds each position at that position.
LEMMA PositionsAre ==
  ASSUME NEW q \in Seq(Nat), NEW n \in Nat, Len(q) = n,
         \A i \in 1..Len(q) : q[i] = i
  PROVE  q = [i \in 1..n |-> i]
  <1>1. DOMAIN q = 1..n /\ q = [i \in DOMAIN q |-> q[i]]
    OBVIOUS
  <1> QED BY <1>1

\* The loop ends, or it fails.
LEMMA EndStream ==
  ASSUME NEW c \in Clients, OwnInv(c), ReadZjs(c) \/ EndOfZjs(c)
  PROVE  StreamStep(c)
  <1>1. SendTypes /\ Sends(c)
    BY TypesAre DEF OwnInv, Types, ClientInv
  <1>2. /\ tpc[c] = "read" /\ page' = page
        /\ \/ tpc'[c] = "send"
           \/ tpc'[c] = "release" /\ outcome'[c] = "failed"
           \/ /\ tpc'[c] = "release" /\ unread[c] = 0
              /\ outcome'[c] = IF total_sent[c] = zjs[c]
                               THEN "sent" ELSE "failed"
    BY <1>1 DEF ReadZjs, EndOfZjs, SendFails, Test, SendTypes
  <1>3. /\ Phase(c) = "busy" /\ SameBytes(c)
        /\ page[c].sent = zjs[c] /\ zjs[c] > 0
    BY <1>1, <1>2 DEF Phase, SameBytes, Sends
  <1>4. CASE tpc'[c] = "send"
    BY <1>3, <1>4, Stutters DEF Phase
  <1>5. CASE tpc'[c] = "release" /\ outcome'[c] = "failed"
    <2>1. Phase(c)' = "dead"
      BY <1>2, <1>3, <1>5, Numbers DEF Phase
    <2> QED BY <1>3, <2>1
            DEF StreamStep, Stream!SNext, Stream!SFail, SameBytes
  <1>6. CASE tpc'[c] = "release" /\ unread[c] = 0 /\ outcome'[c] # "failed"
    <2>1. /\ Len(page[c].got) = zjs[c] - unread[c]
          /\ \A i \in 1..Len(page[c].got) : page[c].got[i] = i
      BY <1>1, <1>2 DEF Sends
    <2>2. /\ page[c].got \in Seq(Nat) /\ page[c].sent \in Nat
          /\ Len(page[c].got) = page[c].sent
      BY <1>3, <1>6, <2>1, Numbers
    <2>3. page[c].got = [i \in 1..page[c].sent |-> i]
      BY ONLY <2>1, <2>2, PositionsAre
    <2>4. Phase(c)' = "idle"
      BY <1>2, <1>6 DEF Phase
    <2> QED BY <1>3, <2>3, <2>4
            DEF StreamStep, Stream!SNext, Stream!SDone, SameBytes
  <1> QED BY <1>2, <1>4, <1>5, <1>6

\* The printer takes the next byte, and no other.
LEMMA ByteStream ==
  ASSUME NEW c \in Clients, OwnInv(c), TestByte(c) PROVE StreamStep(c)
  <1>1. SendTypes /\ Sends(c) /\ page[c] \in PageRec
    BY TypesAre DEF OwnInv, Types, ClientInv, SendTypes
  <1> DEFINE b == zjs[c] - unread[c] - unsent[c] + taken[c] + 1
             n == Len(page[c].got)
  <1>2. /\ tpc[c] = "send" /\ tpc' = tpc /\ Live(c) /\ taken[c] < unsent[c]
        /\ page'[c].got = Append(page[c].got, b)
        /\ page'[c].torn = page[c].torn /\ page'[c].sent = page[c].sent
    BY <1>1 DEF TestByte, SendTypes, PageRec
  <1>3. /\ page[c].torn = FALSE /\ page[c].sent = zjs[c]
        /\ unread[c] + unsent[c] <= zjs[c]
        /\ n = zjs[c] - unread[c] - unsent[c] + taken[c]
    BY <1>1, <1>2, Numbers DEF Sends
  <1>4. /\ zjs[c] \in Nat /\ unread[c] \in Nat /\ unsent[c] \in Nat
        /\ taken[c] \in Nat /\ n \in Nat
    BY Numbers
  <1>5. Phase(c) = "busy" /\ Phase(c)' = "busy"
    BY <1>2 DEF Phase
  <1> HIDE DEF n
  <1>6. b = n + 1 /\ n < zjs[c]
    BY <1>2, <1>3, <1>4
  <1> HIDE DEF b
  <1>7. page'[c].got = Append(page[c].got, n + 1) /\ n < page[c].sent
    BY <1>2, <1>3, <1>6
  <1> QED BY <1>2, <1>3, <1>5, <1>7
          DEF n, StreamStep, Stream!SNext, Stream!STake

\* A transfer that returns changes nothing, or ends the job.
LEMMA TransferStream ==
  ASSUME NEW c \in Clients, OwnInv(c), SendOk(c) \/ SendError(c)
  PROVE  StreamStep(c)
  <1>1. SendTypes /\ Sends(c)
    BY TypesAre DEF OwnInv, Types, ClientInv
  <1>2. /\ tpc[c] = "send" /\ page' = page
        /\ \/ tpc'[c] \in {"read", "send"}
           \/ tpc'[c] = "release" /\ outcome'[c] = "failed"
    BY <1>1 DEF SendOk, SendError, SendFails, Offset, Test, SendTypes
  <1>3. /\ Phase(c) = "busy" /\ SameBytes(c)
        /\ page[c].sent = zjs[c] /\ zjs[c] > 0 /\ zjs[c] \in Nat
    BY <1>1, <1>2, Numbers DEF Phase, SameBytes, Sends
  <1>4. CASE tpc'[c] \in {"read", "send"}
    BY <1>3, <1>4, Stutters DEF Phase
  <1>5. CASE tpc'[c] = "release" /\ outcome'[c] = "failed"
    <2>1. Phase(c)' = "dead"
      BY <1>2, <1>3, <1>5 DEF Phase
    <2> QED BY <1>3, <2>1
            DEF StreamStep, Stream!SNext, Stream!SFail, SameBytes
  <1> QED BY <1>2, <1>4, <1>5

\* The release closes the stream.
LEMMA ReleaseStream ==
  ASSUME NEW c \in Clients, OwnInv(c), TestRelease(c) PROVE StreamStep(c)
  <1>1. tpc[c] = "release" /\ tpc'[c] = "off" /\ page' = page
    BY TypesAre DEF OwnInv, Types, SendTypes, TestRelease, Test
  <1>2. Phase(c) \in {"idle", "dead"} /\ Phase(c)' = "closed" /\ SameBytes(c)
    BY <1>1 DEF Phase, SameBytes
  <1> QED BY <1>2 DEF StreamStep, Stream!SNext, Stream!SClose, SameBytes

\* The rest of the program is not seen by the stream.
LEMMA RestStream ==
  ASSUME NEW c \in Clients, OwnInv(c),
         \/ TestStart(c) \/ TestRender(c) \/ TestGivesUp(c)
         \/ OnBus(c) /\ ~TestClaim(c) /\ ~TestRelease(c)
  PROVE  StreamStep(c)
  <1>1. SendTypes
    BY TypesAre DEF OwnInv, Types
  <1>2. CASE TestStart(c) \/ TestRender(c) \/ TestGivesUp(c)
    BY <1>2, Unseen DEF TestStart, TestRender, TestGivesUp, sendVars
  <1>3. CASE TestList(c) \/ TestNoPrinter(c) \/ TestOpen(c) \/ TestDriver(c)
    BY <1>1, <1>3, ClosedStutters DEF TestList, TestNoPrinter, TestOpen,
       TestDriver, TestSkips, Test, SendTypes
  <1>4. CASE TestDetach(c) \/ TestUndo(c)
    BY <1>1, <1>4, ClosedStutters DEF TestDetach, TestUndo, TestSkips, Test,
       SendTypes
  <1> QED BY <1>2, <1>3, <1>4 DEF OnBus

\* Every call of a test is a step of its stream, or none.
LEMMA ActsStream ==
  ASSUME NEW c \in Clients, OwnInv(c), Acts(c) PROVE StreamStep(c)
  BY ActsSplit, ClaimStream, OpenStream, EndStream, ByteStream,
     TransferStream, ReleaseStream, RestStream DEF OffBus

\* A printer that leaves tears the page it was taking.
LEMMA LeavesStream ==
  ASSUME NEW c \in Clients, NEW p \in Printers, OwnInv(c), Leaves(p)
  PROVE  StreamStep(c)
  <1>1. page[c] \in PageRec
    BY TypesAre DEF OwnInv, Types, SendTypes
  <1>2. page'[c] = [page[c] EXCEPT !.torn = @ \/
                      (handle[c] = [dev |-> p, live |-> TRUE]
                         /\ page[c].got # <<>>)]
    BY DEF Leaves, PageTears
  <1>3. /\ page'[c].sent = page[c].sent /\ page'[c].got = page[c].got
        /\ \/ page'[c].torn = page[c].torn
           \/ page'[c].torn = TRUE /\ page[c].got # <<>>
    BY <1>1, <1>2 DEF PageRec
  <1>4. Phase(c)' = Phase(c)
    BY <1>3 DEF Leaves, sendVars, Phase
  <1>5. CASE page'[c].torn = page[c].torn
    BY <1>3, <1>4, <1>5, Stutters DEF SameBytes
  <1>6. CASE page'[c].torn = TRUE /\ page[c].got # <<>>
    BY <1>3, <1>4, <1>6 DEF StreamStep, Stream!SNext, Stream!STear
  <1> QED BY <1>3, <1>5, <1>6

\* Every step of the system is a step or a stutter of every test's stream.
LEMMA NextStream ==
  ASSUME TestInv, [Next]_vars, NEW c \in Clients PROVE StreamStep(c)
  <1>1. ASSUME NEW d \in Clients \ {c}, Acts(d) PROVE StreamStep(c)
    BY <1>1, OthersAreSame, Unseen DEF OthersSame, TestInv, OwnInv
  <1>2. ASSUME NEW p \in Printers, Arrives(p) PROVE StreamStep(c)
    BY <1>2, Unseen DEF Arrives, testVars, sendVars
  <1>3. CASE UNCHANGED vars
    BY <1>3, Unseen DEF vars, testVars, sendVars
  <1> QED BY <1>1, <1>2, <1>3, ActsStream, LeavesStream
          DEF Next, Acts, TestInv, OwnInv

\* Before anything happens there is no page.
LEMMA InitStream ==
  ASSUME Init, NEW c \in Clients PROVE Stream(c)!SInit
  BY DEF Init, TestInit, Blank, Phase, Stream!SInit

\* The test page is a job stream like a session's: each byte once and in
\* order, all of them when it counts as sent, none after the printer left, for
\* any page and any buffer (lines 98-170).
THEOREM PageIsAJobStream == Spec => ImplementsJobStream
  <1>1. TestInv /\ [Next]_vars => [\A c \in Clients : StreamStep(c)]_vars
    BY NextStream
  <1>2. Init => \A c \in Clients : Stream(c)!SInit
    BY InitStream
  <1> QED BY <1>1, <1>2, TestInvariant, PTL DEF Spec, ImplementsJobStream

-----------------------------------------------------------------------------
(* What the last line of a test says.                                      *)

\* A test whose last line says that the page was sent has sent all of it: the
\* printer has taken every byte of the rendered file, each once and in order.
SentMeansTaken ==
    \A c \in Clients :
        outcome[c] = "sent" => page[c].got = [i \in 1..zjs[c] |-> i]

\* And it says so only when it has nothing more to send, until the next test.
Told(c) ==
    outcome[c] = "sent" =>
        /\ tpc[c] = "release" \/ Off(c)
        /\ page[c].got = [i \in 1..zjs[c] |-> i]

\* At the end of the file the counters say what the printer has taken.
LEMMA EndTells ==
  ASSUME NEW c \in Clients, OwnInv(c), EndOfZjs(c) PROVE Told(c)'
  <1>1. SendTypes /\ Sends(c) /\ tpc[c] = "read" /\ unread[c] = 0
    BY TypesAre DEF OwnInv, Types, ClientInv, EndOfZjs, Test
  <1>2. /\ tpc' = [tpc EXCEPT ![c] = "release"]
        /\ UNCHANGED <<page, zjs>>
    BY DEF EndOfZjs, Test
  <1>3. page[c].got \in Seq(Nat) /\ zjs[c] \in Nat
    BY <1>1 DEF SendTypes, PageRec
  <1>4. /\ Len(page[c].got) = zjs[c]
        /\ \A i \in 1..Len(page[c].got) : page[c].got[i] = i
    BY <1>1, <1>3 DEF Sends
  <1>5. page[c].got = [i \in 1..zjs[c] |-> i]
    BY <1>3, <1>4, PositionsAre
  <1> QED BY <1>1, <1>2, <1>5 DEF Told, SendTypes

\* Until the next test starts, nothing of the last one changes.
LEMMA ToldKept ==
  ASSUME NEW c \in Clients, OwnInv(c), Told(c), Acts(c) PROVE Told(c)'
  <1>1. SendTypes /\ RenderTypeOK
    BY TypesAre DEF OwnInv, Types
  <1> USE <1>1 DEF SendTypes, Test, Off
  <1>2. CASE TestStart(c)
    BY <1>2 DEF TestStart, Told
  <1>3. CASE TestRender(c)
    <2>1. UNCHANGED <<tpc, outcome, zjs, page>>
      BY <1>3 DEF TestRender, sendVars
    <2>2. rpc[c] = "idle" => rpc'[c] = "idle"
      BY <1>3 DEF TestRender, Render, Wrapper, WriteSome, ClosePs, MakeZjs,
         Fork, Wait, Stat, RenderFails, Sys
    <2> QED BY <2>1, <2>2 DEF Told
  <1>4. CASE TestGivesUp(c) \/ TestList(c)
    <2>1. rpc[c] = "done" /\ tpc[c] = "off" /\ outcome' = outcome
      BY <1>4 DEF TestGivesUp, TestList, UnlinkPage, Sys, sendVars
    <2> QED BY <2>1 DEF Told
  <1>5. CASE TestOpen(c) \/ TestNoPrinter(c) \/ TestDriver(c)
             \/ TestDetach(c) \/ TestClaim(c) \/ TestUndo(c)
    <2>1. tpc[c] \in {"scan", "active", "detach", "claim", "undo"}
          /\ outcome' = outcome
      BY <1>5 DEF TestOpen, TestNoPrinter, TestDriver, TestDetach, TestClaim,
         TestUndo, TestSkips
    <2> QED BY <2>1 DEF Told
  <1>6. CASE OpenZjs(c) \/ ReadZjs(c) \/ TestByte(c) \/ SendOk(c)
             \/ SendError(c)
    <2>1. /\ tpc[c] \in {"open", "read", "send"}
          /\ outcome' = outcome \/ outcome'[c] = "failed"
      BY <1>6 DEF OpenZjs, ReadZjs, TestByte, SendOk, SendError, SendFails
    <2> QED BY <2>1 DEF Told
  <1>7. CASE TestRelease(c)
    <2>1. /\ tpc'[c] = "off" /\ rpc'[c] = "idle"
          /\ UNCHANGED <<outcome, zjs, page>>
      BY <1>7 DEF TestRelease, UnlinkPage, Sys, RenderTypeOK, PrintAssumption
    <2> QED BY <2>1 DEF Told
  <1> QED BY <1>2, <1>3, <1>4, <1>5, <1>6, <1>7, EndTells DEF Acts, TestStep

\* "Sent" is never said of a page that the printer did not take as a whole, for
\* any page, any buffer and any number of tests, wherever short reads, short
\* transfers and failures fall (lines 98-170, 207-212).
THEOREM SentPagesAreTaken == Spec => []SentMeansTaken
  <1> DEFINE AllTold == \A c \in Clients : Told(c)
  <1>1. Init => AllTold
    BY DEF Init, TestInit, Told
  <1>2. TestInv /\ AllTold /\ [Next]_vars => AllTold'
    <2> SUFFICES ASSUME TestInv, AllTold, [Next]_vars PROVE AllTold'
      OBVIOUS
    <2>1. ASSUME NEW c \in Clients, Acts(c) PROVE AllTold'
      <3>1. OwnInv(c) /\ Told(c)
        BY DEF TestInv, OwnInv
      <3>2. ASSUME NEW d \in Clients \ {c} PROVE Told(d)'
        <4>1. /\ outcome'[d] = outcome[d] /\ tpc'[d] = tpc[d]
              /\ rpc'[d] = rpc[d] /\ zjs'[d] = zjs[d] /\ page'[d] = page[d]
          BY <2>1, <3>1, OthersAreSame DEF OthersSame
        <4>2. Told(d)
          OBVIOUS
        <4> QED BY <4>1, <4>2 DEF Told, Off
      <3>3. Told(c)'
        BY <2>1, <3>1, ToldKept
      <3> QED BY <3>2, <3>3
    <2>2. ASSUME NEW p \in Printers, Leaves(p) \/ Arrives(p) PROVE AllTold'
      <3>1. UNCHANGED <<outcome, tpc, rpc, zjs>>
        BY <2>2 DEF Leaves, Arrives, testVars, renderVars, sendVars
      <3>2. \A c \in Clients : page'[c].got = page[c].got
        BY <2>2 DEF Leaves, Arrives, PageTears, testVars, TestInv, Types,
           TestTypeOK, PageRec
      <3> QED BY <3>1, <3>2 DEF Told, Off
    <2>3. CASE UNCHANGED vars
      BY <2>3 DEF vars, testVars, renderVars, sendVars, Told, Off
    <2> QED BY <2>1, <2>2, <2>3 DEF Next, Acts
  <1>3. AllTold => SentMeansTaken
    BY DEF Told, SentMeansTaken
  <1> QED BY <1>1, <1>2, <1>3, TestInvariant, PTL DEF Spec

-----------------------------------------------------------------------------
(* Who hands a printer back to usblp.                                      *)

\* A live handle or reference is to a printer on the bus, and usblp is never
\* bound under a claim.
HandBackInv ==
    /\ \A c \in Clients : Live(c) => Printer(c) \in plugged
    /\ \A c \in Clients : \A r \in list[c] : r.live => r.dev \in plugged
    /\ \A p \in Printers : owner[p] # NoClient => driver[p] = "none"
    /\ printed \subseteq plugged

\* Has detached usblp, or is about to: open_p1102 may still hand it back.
MayUndo(c) ==
    \/ tpc[c] = "detach"
    \/ tpc[c] \in {"claim", "undo"} /\ undo[c]

\* One test at a time.
Alone == \A c, d \in Clients : c = d

\* What holds besides when no test overtakes another.
AloneInv ==
    /\ NoUsblpAfterPage
    /\ \A c \in Clients : tpc[c] \in {"scan", "active", "detach"} => ~undo[c]
    /\ \A c \in Clients : tpc[c] = "undo" => undo[c]
    /\ \A c \in Clients :
          Live(c) /\ MayUndo(c) => Printer(c) \notin printed

\* No call of a test plugs a printer, or makes a live reference.
LEMMA ReferencesFrom ==
  ASSUME NEW c \in Clients, TestInv, Acts(c)
  PROVE  /\ plugged' = plugged
         /\ \A d \in Clients :
               \/ list'[d] \subseteq list[d]
               \/ \A r \in list'[d] : r.dev \in plugged
         /\ \A d \in Clients : handle'[d] \in list[d] \cup {handle[d], NoRef}
  <1>1. BusTypeOK
    BY DEF TestInv, Types
  <1>2. CASE OffBus(c)
    BY <1>2, OffBusLeavesBus DEF busVars
  <1>3. CASE TestList(c)
    <2>1. \A r \in {[dev |-> p, live |-> TRUE] :
                       p \in {q \in plugged : ProductOf[q] = "002a"}} :
             r.dev \in plugged
      OBVIOUS
    <2> QED BY <1>1, <1>3, <2>1 DEF TestList, BusTypeOK
  <1>4. CASE TestOpen(c) \/ TestNoPrinter(c) \/ TestDriver(c)
    BY <1>1, <1>4 DEF TestOpen, TestNoPrinter, TestDriver, TestSkips,
       CloseHandle, BusTypeOK, busVars
  <1>5. CASE TestDetach(c) \/ TestClaim(c) \/ TestUndo(c) \/ TestRelease(c)
    BY <1>1, <1>5 DEF TestDetach, TestClaim, TestUndo, TestRelease, TestSkips,
       CloseHandle, BusTypeOK
  <1> QED BY <1>2, <1>3, <1>4, <1>5, ActsSplit DEF OnBus

\* A claim is made where no driver is bound, and a driver is bound where
\* there is no claim, by the undo of a test.
LEMMA ClaimsAndDrivers ==
  ASSUME NEW c \in Clients, NEW p \in Printers, TestInv, Acts(c)
  PROVE  /\ \/ owner'[p] \in {owner[p], NoClient}
            \/ owner'[p] = c /\ driver[p] = "none" /\ driver' = driver
         /\ \/ driver'[p] \in {driver[p], "none"}
            \/ /\ owner[p] = NoClient /\ owner' = owner
               /\ Live(c) /\ Printer(c) = p /\ driver'[p] = "usblp"
               /\ TestUndo(c)
  <1>1. BusTypeOK
    BY DEF TestInv, Types
  <1>2. CASE OffBus(c)
    BY <1>2, OffBusLeavesBus DEF busVars
  <1>3. CASE TestList(c) \/ TestOpen(c) \/ TestNoPrinter(c) \/ TestDriver(c)
    BY <1>3 DEF TestList, TestOpen, TestNoPrinter, TestDriver, busVars
  <1>4. CASE TestDetach(c)
    BY <1>1, <1>4 DEF TestDetach, DetachDriver, BusTypeOK
  <1>5. CASE TestClaim(c)
    BY <1>1, <1>5 DEF TestClaim, ClaimInterface, BusTypeOK
  <1>6. CASE TestUndo(c)
    BY <1>1, <1>6 DEF TestUndo, AttachDriver, BusTypeOK
  <1>7. CASE TestRelease(c)
    BY <1>1, <1>7 DEF TestRelease, ReleaseInterface, BusTypeOK
  <1> QED BY <1>2, <1>3, <1>4, <1>5, <1>6, <1>7, ActsSplit DEF OnBus

\* Only a printer that is claimed and on the bus takes a byte.
LEMMA PrintsOnBus ==
  ASSUME NEW c \in Clients, TestInv, HandBackInv, Acts(c)
  PROVE  \/ printed' = printed
         \/ /\ printed' = printed \cup {Printer(c)}
            /\ Printer(c) \in plugged /\ driver[Printer(c)] = "none"
            /\ tpc'[c] = "send" /\ UNCHANGED <<driver, handle>>
  <1>1. CASE TestByte(c)
    <2>1. /\ printed' = printed \cup {Printer(c)}
          /\ Live(c) /\ owner[Printer(c)] = c /\ tpc[c] = "send"
          /\ UNCHANGED <<driver, handle, tpc>>
      BY <1>1 DEF TestByte, busVars
    <2>2. Printer(c) \in plugged /\ Printer(c) \in Printers
      BY <2>1 DEF TestInv, Types, BusTypeOK, HandBackInv
    <2> QED BY <2>1, <2>2 DEF HandBackInv
  <1>2. CASE ~TestByte(c)
    BY <1>2 DEF Acts, TestStep, TestStart, TestRender, TestGivesUp, TestList,
       TestOpen, TestNoPrinter, TestDriver, TestDetach, TestClaim, TestUndo,
       OpenZjs, ReadZjs, EndOfZjs, SendOk, SendError, Offset, TestRelease
  <1> QED BY <1>1, <1>2

\* Every step keeps HandBackInv.
LEMMA NextHandsBack ==
  ASSUME TestInv, HandBackInv, [Next]_vars
  PROVE  HandBackInv'
  <1>1. BusTypeOK /\ printed \subseteq plugged /\ plugged \subseteq Printers
    BY DEF TestInv, Types, BusTypeOK, HandBackInv
  <1>2. ASSUME NEW c \in Clients, Acts(c) PROVE HandBackInv'
    <2>1. ASSUME NEW d \in Clients PROVE Live(d)' => Printer(d)' \in plugged'
      BY <1>2, ReferencesFrom DEF HandBackInv, Live, Printer, NoRef
    <2>2. ASSUME NEW d \in Clients, NEW r \in list'[d]
          PROVE  r.live => r.dev \in plugged'
      BY <1>2, ReferencesFrom DEF HandBackInv
    <2>3. ASSUME NEW p \in Printers, owner'[p] # NoClient
          PROVE  driver'[p] = "none"
      BY <1>2, <2>3, ClaimsAndDrivers DEF HandBackInv
    <2>4. printed' \subseteq plugged'
      BY <1>1, <1>2, ReferencesFrom, PrintsOnBus
    <2> QED BY <2>1, <2>2, <2>3, <2>4 DEF HandBackInv
  <1>3. ASSUME NEW p \in Printers, Leaves(p) PROVE HandBackInv'
    <2>1. /\ plugged' = plugged \ {p} /\ printed' = printed \ {p}
          /\ \A q \in Printers : owner'[q] # NoClient =>
                owner[q] # NoClient /\ driver'[q] = driver[q]
      BY <1>1, <1>3 DEF BusTypeOK, Leaves, Unplug
    <2>2. ASSUME NEW r \in Device \cup {NoRef}
          PROVE  /\ Stale(r, p).dev = r.dev
                 /\ Stale(r, p).live => r.live /\ r.dev # p
      BY DEF Device, NoRef, Stale
    <2>3. \A d \in Clients : handle'[d] = Stale(handle[d], p)
      BY <1>1, <1>3 DEF BusTypeOK, Leaves, Unplug
    <2>4. \A d \in Clients :
             /\ Printer(d)' = Printer(d)
             /\ Live(d)' => Live(d) /\ Printer(d) # p
      BY <1>1, <2>2, <2>3 DEF BusTypeOK, Live, Printer
    <2>5. ASSUME NEW d \in Clients, NEW r \in list'[d], r.live
          PROVE  r.dev \in plugged'
      <3>1. PICK o \in list[d] : r = Stale(o, p)
        BY <1>1, <1>3 DEF BusTypeOK, Leaves, Unplug
      <3>2. o \in Device
        BY <1>1 DEF BusTypeOK
      <3> QED BY <2>1, <2>2, <2>5, <3>1, <3>2 DEF HandBackInv
    <2> QED BY <2>1, <2>4, <2>5 DEF HandBackInv
  <1>4. ASSUME NEW p \in Printers, Arrives(p) PROVE HandBackInv'
    <2>1. /\ plugged' = plugged \cup {p} /\ p \notin plugged
          /\ UNCHANGED <<owner, handle, list, printed>>
          /\ \A q \in Printers \ {p} : driver'[q] = driver[q]
      BY <1>1, <1>4 DEF BusTypeOK, Arrives, Plug
    <2>2. owner[p] = NoClient
      BY <1>1, <2>1
         DEF BusTypeOK, TestInv, Types, ClientInv, Holds, HandBackInv
    <2> QED BY <2>1, <2>2 DEF HandBackInv, Live, Printer
  <1>5. CASE UNCHANGED vars
    BY <1>5 DEF vars, busVars, HandBackInv, Live, Printer
  <1> QED BY <1>2, <1>3, <1>4, <1>5 DEF Next, Acts

\* It holds before anything happens, and so always.
LEMMA HandBackInvariant == Spec => [](TestInv /\ HandBackInv)
  <1>1. Init => HandBackInv
    BY DEF Init, BusInit, HandBackInv, Live, Printer, NoRef
  <1>2. TestInv /\ HandBackInv /\ [Next]_vars => HandBackInv'
    BY NextHandsBack
  <1> QED BY <1>1, <1>2, TestInvariant, PTL DEF Spec

\* What the calls of open_p1102 make of the flag and of the device.
LEMMA UndoesWhatItFound ==
  ASSUME NEW c \in Clients, TestInv, AloneInv, Acts(c)
  PROVE  /\ tpc'[c] \in {"scan", "active", "detach"} => ~undo'[c]
         /\ tpc'[c] = "undo" => undo'[c]
         /\ Live(c)' /\ MayUndo(c)' =>
               /\ Printer(c)' = Printer(c) /\ Live(c)
               /\ MayUndo(c) \/ driver[Printer(c)] = "usblp"
  <1>1. BusTypeOK /\ SendTypes
    BY TypesAre DEF TestInv, Types
  <1>2. tpc[c] \in {"scan", "active", "detach"} => ~undo[c]
    BY DEF AloneInv
  <1>3. tpc[c] = "undo" => undo[c]
    BY DEF AloneInv
  <1> USE <1>1, <1>2, <1>3 DEF SendTypes, MayUndo, Test, Live, Printer
  <1>4. CASE TestStart(c) \/ TestRender(c) \/ TestGivesUp(c)
    BY <1>4 DEF TestStart, TestRender, TestGivesUp, sendVars, busVars
  <1>5. CASE OpenZjs(c) \/ ReadZjs(c) \/ EndOfZjs(c) \/ TestByte(c)
    BY <1>5 DEF OpenZjs, ReadZjs, EndOfZjs, TestByte, SendFails
  <1>6. CASE SendOk(c) \/ SendError(c)
    BY <1>6 DEF SendOk, SendError, SendFails, Offset
  <1>7. CASE TestList(c) \/ TestOpen(c) \/ TestNoPrinter(c)
    BY <1>7 DEF TestList, TestOpen, TestNoPrinter, TestSkips
  <1>8. CASE TestDriver(c) \/ TestDetach(c)
    BY <1>8 DEF TestDriver, TestDetach, TestSkips
  <1>9. CASE TestClaim(c) \/ TestUndo(c) \/ TestRelease(c)
    BY <1>9 DEF TestClaim, TestUndo, TestRelease, TestSkips
  <1> QED BY <1>4, <1>5, <1>6, <1>7, <1>8, <1>9, ActsSplit DEF OnBus, OffBus

\* A single test keeps AloneInv, whatever it does.
LEMMA TestKeepsAlone ==
  ASSUME Alone, NEW c \in Clients, TestInv, HandBackInv, AloneInv, Acts(c)
  PROVE  AloneInv'
  <1>1. /\ \A d \in Clients : d = c
        /\ \A p \in printed : p \in Printers /\ driver[p] # "usblp"
    BY DEF Alone, TestInv, Types, BusTypeOK, HandBackInv, AloneInv,
       NoUsblpAfterPage
  <1>2. ASSUME NEW p \in printed' PROVE driver'[p] # "usblp"
    <2>1. CASE p \in printed
      <3>1. CASE TestUndo(c) /\ Printer(c) = p /\ Live(c)
        BY <2>1, <3>1 DEF AloneInv, MayUndo, TestUndo, TestSkips, Test
      <3> QED BY <1>1, <2>1, <3>1, ClaimsAndDrivers
    <2>2. CASE p \notin printed
      BY <1>2, <2>2, PrintsOnBus
    <2> QED BY <2>1, <2>2
  <1>3. ASSUME Live(c)', MayUndo(c)' PROVE Printer(c)' \notin printed'
    <2>1. Printer(c)' = Printer(c) /\ Printer(c) \notin printed
      BY <1>1, <1>3, UndoesWhatItFound DEF AloneInv
    <2>2. tpc'[c] # "send"
      BY <1>3 DEF MayUndo
    <2> QED BY <2>1, <2>2, PrintsOnBus
  <1> QED BY <1>1, <1>2, <1>3, UndoesWhatItFound
          DEF AloneInv, NoUsblpAfterPage, MayUndo, Live, Printer

\* Nor does the bus break it.
LEMMA BusKeepsAlone ==
  ASSUME TestInv, HandBackInv, AloneInv, NEW p \in Printers,
         Leaves(p) \/ Arrives(p)
  PROVE  AloneInv'
  <1>1. BusTypeOK /\ printed \subseteq plugged
    BY DEF TestInv, Types, HandBackInv
  <1>2. /\ UNCHANGED <<tpc, undo>> /\ printed' \subseteq printed
        /\ \A q \in printed' : driver'[q] = driver[q]
    BY <1>1 DEF BusTypeOK, Leaves, Arrives, Unplug, Plug, testVars, sendVars
  <1>3. \A d \in Clients :
           Printer(d)' = Printer(d) /\ (Live(d)' => Live(d))
    <2>1. ASSUME NEW r \in Device \cup {NoRef}
          PROVE  Stale(r, p).dev = r.dev /\ (Stale(r, p).live => r.live)
      BY DEF Device, NoRef, Stale
    <2> QED BY <1>1, <2>1 DEF BusTypeOK, Leaves, Arrives, Unplug, Plug, Live,
            Printer
  <1>4. NoUsblpAfterPage'
    BY <1>2 DEF AloneInv, NoUsblpAfterPage
  <1> QED BY <1>2, <1>3, <1>4 DEF AloneInv, MayUndo

\* With one print test at a time, a P1102 that took a byte of a page is not
\* bound to usblp while it stays plugged, over any number of tests, failed
\* claims and unplugs (lines 214-221).
THEOREM LoneTestKeepsUsblpOff == Alone => (Spec => []NoUsblpAfterPage)
  <1> SUFFICES ASSUME Alone PROVE Spec => []NoUsblpAfterPage
    OBVIOUS
  <1>1. Init => AloneInv
    BY DEF Init, BusInit, TestInit, AloneInv, NoUsblpAfterPage, MayUndo
  <1>2. TestInv /\ HandBackInv /\ AloneInv /\ [Next]_vars => AloneInv'
    <2> SUFFICES ASSUME TestInv, HandBackInv, AloneInv, [Next]_vars
                 PROVE  AloneInv'
      OBVIOUS
    <2>1. CASE UNCHANGED vars
      BY <2>1 DEF vars, busVars, testVars, sendVars, AloneInv,
         NoUsblpAfterPage, MayUndo, Live, Printer
    <2> QED BY <2>1, TestKeepsAlone, BusKeepsAlone DEF Next, Acts
  <1>3. AloneInv => NoUsblpAfterPage
    BY DEF AloneInv
  <1> QED BY <1>1, <1>2, <1>3, HandBackInvariant, PTL DEF Spec
=============================================================================
