----------------------------- MODULE PrintTest -----------------------------
(***************************************************************************)
(* hp-legacy-print --print-test (src/print_test.c): render the test page,  *)
(* claim the first P1102 that can be claimed, send the page, release the   *)
(* interface and unlink the page.  It has a claim walk and a send loop of  *)
(* its own, beside those of src/usb_transport.c.                           *)
(*                                                                         *)
(* One step is one libusb call or one read, as in ClaimDevice.  A byte of  *)
(* the page is its position in the file.  "page" is a history variable: how*)
(* many bytes send_file was given, the positions the printer took, and     *)
(* whether the printer left after taking one.                              *)
(***************************************************************************)
EXTENDS UsbBus, RenderTest, Sequences

CONSTANTS
    BufferSize,   \* USB_CHUNK_SIZE
    MaxZjs        \* bound: bytes of the rendered page

ASSUME PrintAssumption ==
    /\ Processes = Clients
    /\ BufferSize \in Nat \ {0}
    /\ MaxZjs \in Nat

VARIABLES
    tpc,         \* the call each test makes next, "off" outside of USB
    undo,        \* open_p1102's *detached_out
    zjs,         \* expected_bytes: the size of the rendered page
    unread,      \* bytes of it that are not read yet
    unsent,      \* got - offset
    taken,       \* what the printer took of the transfer in flight
    total_sent,
    outcome,     \* the last line: "none", "sent", "failed"
    page,        \* history, see above
    printed      \* history: the printers whose enumeration has taken a byte

sendVars   == <<tpc, undo, zjs, unread, unsent, taken, total_sent, outcome>>
testVars   == <<renderVars, sendVars, page>>
vars       == <<busVars, testVars, printed>>

PageRec == [sent : Nat, got : Seq(Nat), torn : BOOLEAN]

TestTypeOK ==
    /\ RenderTypeOK
    /\ tpc \in [Clients -> {"off", "scan", "active", "detach", "claim",
                            "undo", "open", "read", "send", "release"}]
    /\ undo \in [Clients -> BOOLEAN]
    /\ zjs \in [Clients -> Nat]
    /\ unread \in [Clients -> Nat]
    /\ unsent \in [Clients -> Nat]
    /\ taken \in [Clients -> Nat]
    /\ total_sent \in [Clients -> Nat]
    /\ outcome \in [Clients -> {"none", "sent", "failed"}]
    /\ page \in [Clients -> PageRec]

Blank == [sent |-> 0, got |-> <<>>, torn |-> FALSE]

TestInit ==
    /\ RenderInit
    /\ tpc = [c \in Clients |-> "off"]
    /\ undo = [c \in Clients |-> FALSE]
    /\ zjs = [c \in Clients |-> 0]
    /\ unread = [c \in Clients |-> 0]
    /\ unsent = [c \in Clients |-> 0]
    /\ taken = [c \in Clients |-> 0]
    /\ total_sent = [c \in Clients |-> 0]
    /\ outcome = [c \in Clients |-> "none"]
    /\ page = [c \in Clients |-> Blank]

Test(c, from, to) ==
    /\ tpc[c] = from
    /\ tpc' = [tpc EXCEPT ![c] = to]

Smaller(m, n) == IF m < n THEN m ELSE n

-----------------------------------------------------------------------------
(* hplp_print_p1102_test up to the claim. *)

TestStart(c) ==
    /\ tpc[c] = "off"
    /\ MakePs(c)
    /\ outcome' = [outcome EXCEPT ![c] = "none"]
    /\ UNCHANGED <<busVars, tpc, undo, zjs, unread, unsent, taken,
                   total_sent, page, printed>>

TestRender(c) ==
    /\ Render(c) \/ Wrapper(c)
    /\ UNCHANGED <<busVars, sendVars, page, printed>>

\* No page, no libusb context or no device list: unlink and return 1.
TestGivesUp(c) ==
    /\ tpc[c] = "off"
    /\ UnlinkPage(c)
    /\ UNCHANGED <<busVars, sendVars, page, printed>>

TestList(c) ==
    /\ rpc[c] = "done" /\ code[c] = 0
    /\ Test(c, "off", "scan")
    /\ list' = [list EXCEPT ![c] = {[dev |-> p, live |-> TRUE] :
                    p \in {q \in plugged : ProductOf[q] = "002a"}}]
    /\ \E n \in 1..MaxZjs : zjs' = [zjs EXCEPT ![c] = n]
    /\ undo' = [undo EXCEPT ![c] = FALSE]
    /\ UNCHANGED <<plugged, driver, owner, handle, renderVars, unread,
                   unsent, taken, total_sent, outcome, page, printed>>

-----------------------------------------------------------------------------
(* open_p1102. *)

TestSkips(c, from) == Test(c, from, "scan") /\ CloseHandle(c)

TestOpen(c) ==
    /\ \E r \in list[c] :
          /\ list' = [list EXCEPT ![c] = @ \ {r}]
          /\ \/ r.live /\ Test(c, "scan", "active")
                       /\ handle' = [handle EXCEPT ![c] = r]
             \/ TestSkips(c, "scan")
    /\ UNCHANGED <<plugged, driver, owner, renderVars, undo, zjs, unread,
                   unsent, taken, total_sent, outcome, page, printed>>

\* "Could not open and claim": unlink and return 1.
TestNoPrinter(c) ==
    /\ list[c] = {}
    /\ Test(c, "scan", "off")
    /\ UnlinkPage(c)
    /\ UNCHANGED <<busVars, undo, zjs, unread, unsent, taken, total_sent,
                   outcome, page, printed>>

TestDriver(c) ==
    /\ \/ /\ Live(c)
          /\ Test(c, "active",
                  IF driver[Printer(c)] = "usblp" THEN "detach" ELSE "claim")
          /\ UNCHANGED handle
       \/ TestSkips(c, "active")
    /\ UNCHANGED <<plugged, driver, owner, list, renderVars, undo, zjs,
                   unread, unsent, taken, total_sent, outcome, page, printed>>

TestDetach(c) ==
    /\ \/ /\ Test(c, "detach", "claim")
          /\ DetachDriver(c)
          /\ undo' = [undo EXCEPT ![c] = TRUE]
          /\ UNCHANGED handle
       \/ TestSkips(c, "detach") /\ UNCHANGED <<driver, undo>>
    /\ UNCHANGED <<plugged, owner, list, renderVars, zjs, unread, unsent,
                   taken, total_sent, outcome, page, printed>>

TestClaim(c) ==
    /\ \/ /\ Test(c, "claim", "open")
          /\ ClaimInterface(c)
          /\ list' = [list EXCEPT ![c] = {}]
          /\ page' = [page EXCEPT ![c] = Blank]
          /\ UNCHANGED handle
       \/ /\ undo[c]
          /\ Test(c, "claim", "undo")
          /\ UNCHANGED <<owner, handle, list, page>>
       \/ /\ ~undo[c]
          /\ TestSkips(c, "claim")
          /\ UNCHANGED <<owner, list, page>>
    /\ UNCHANGED <<plugged, driver, renderVars, undo, zjs, unread, unsent,
                   taken, total_sent, outcome, printed>>

TestUndo(c) ==
    /\ TestSkips(c, "undo")
    /\ AttachDriver(c)
    /\ undo' = [undo EXCEPT ![c] = FALSE]
    /\ UNCHANGED <<plugged, owner, list, renderVars, zjs, unread, unsent,
                   taken, total_sent, outcome, page, printed>>

-----------------------------------------------------------------------------
(* send_file. *)

SendFails(c, from) ==
    /\ Test(c, from, "release")
    /\ outcome' = [outcome EXCEPT ![c] = "failed"]

OpenZjs(c) ==
    /\ \/ /\ Test(c, "open", "read")
          /\ unread' = [unread EXCEPT ![c] = zjs[c]]
          /\ total_sent' = [total_sent EXCEPT ![c] = 0]
          /\ page' = [page EXCEPT ![c].sent = zjs[c]]
          /\ UNCHANGED outcome
       \/ SendFails(c, "open") /\ UNCHANGED <<unread, total_sent, page>>
    /\ UNCHANGED <<busVars, renderVars, undo, zjs, unsent, taken, printed>>

\* A read takes the next bytes, as many as it likes, or fails.
ReadZjs(c) ==
    /\ \/ \E n \in 1..Smaller(BufferSize, unread[c]) :
             /\ Test(c, "read", "send")
             /\ unsent' = [unsent EXCEPT ![c] = n]
             /\ unread' = [unread EXCEPT ![c] = @ - n]
             /\ UNCHANGED outcome
       \/ SendFails(c, "read") /\ UNCHANGED <<unread, unsent>>
    /\ UNCHANGED <<busVars, renderVars, undo, zjs, taken, total_sent, page,
                   printed>>

\* End of file: the page is sent if its size has been sent.
EndOfZjs(c) ==
    /\ unread[c] = 0
    /\ Test(c, "read", "release")
    /\ outcome' = [outcome EXCEPT ![c] = IF total_sent[c] = zjs[c]
                                         THEN "sent" ELSE "failed"]
    /\ UNCHANGED <<busVars, renderVars, undo, zjs, unread, unsent, taken,
                   total_sent, page, printed>>

\* The printer takes the next byte of the libusb_bulk_transfer in flight.
TestByte(c) ==
    /\ tpc[c] = "send"
    /\ Live(c)
    /\ owner[Printer(c)] = c
    /\ taken[c] < unsent[c]
    /\ taken' = [taken EXCEPT ![c] = @ + 1]
    /\ page' = [page EXCEPT ![c].got =
                  Append(@, zjs[c] - unread[c] - unsent[c] + taken[c] + 1)]
    /\ printed' = printed \cup {Printer(c)}
    /\ UNCHANGED <<busVars, renderVars, tpc, undo, zjs, unread, unsent,
                   total_sent, outcome>>

\* Mutant: the rest of a short transfer is not sent.
OffsetToEnd(c) ==
    /\ unsent' = [unsent EXCEPT ![c] = 0]
    /\ taken' = [taken EXCEPT ![c] = 0]
    /\ total_sent' = [total_sent EXCEPT ![c] = @ + unsent[c]]
    /\ UNCHANGED <<busVars, renderVars, undo, zjs, unread, page, printed>>

\* Mutant: a transfer counts as a whole chunk.
OffsetByChunk(c) ==
    /\ unsent' = [unsent EXCEPT ![c] = @ - BufferSize]
    /\ taken' = [taken EXCEPT ![c] = 0]
    /\ total_sent' = [total_sent EXCEPT ![c] = @ + BufferSize]
    /\ UNCHANGED <<busVars, renderVars, undo, zjs, unread, page, printed>>

\* offset and total_sent advance by what the transfer took.
Offset(c) ==
    /\ unsent' = [unsent EXCEPT ![c] = @ - taken[c]]
    /\ taken' = [taken EXCEPT ![c] = 0]
    /\ total_sent' = [total_sent EXCEPT ![c] = @ + taken[c]]
    /\ UNCHANGED <<busVars, renderVars, undo, zjs, unread, page, printed>>

SendOk(c) ==
    /\ taken[c] > 0
    /\ Offset(c)
    /\ Test(c, "send", IF unsent'[c] = 0 THEN "read" ELSE "send")
    /\ UNCHANGED outcome

\* Mutant: the job is sent again after a transfer that failed.
SendAgain(c) ==
    /\ Test(c, "send", "open")
    /\ Offset(c)
    /\ UNCHANGED outcome

\* Any error, or a success that moved nothing: "NOT retried automatically".
SendError(c) ==
    /\ SendFails(c, "send")
    /\ Offset(c)

\* Mutant: usblp gets the interface back, as from the other programs.
ReleaseAndAttach(c) ==
    /\ Test(c, "release", "off")
    /\ ReleaseInterface(c)
    /\ IF undo[c] /\ Live(c)
       THEN driver' = [driver EXCEPT ![Printer(c)] = "usblp"]
       ELSE UNCHANGED driver
    /\ CloseHandle(c)
    /\ UnlinkPage(c)
    /\ UNCHANGED <<plugged, list, undo, zjs, unread, unsent, taken,
                   total_sent, outcome, page, printed>>

\* Mutant: a job that failed is kept on disk.
ReleaseKeepsPage(c) ==
    /\ Test(c, "release", "off")
    /\ ReleaseInterface(c)
    /\ CloseHandle(c)
    /\ IF outcome[c] = "sent" THEN UnlinkPage(c) ELSE KeepPage(c)
    /\ UNCHANGED <<plugged, driver, list, undo, zjs, unread, unsent, taken,
                   total_sent, outcome, page, printed>>

\* Release, close, unlink; "kernel-driver-reattach=skipped".
TestRelease(c) ==
    /\ Test(c, "release", "off")
    /\ ReleaseInterface(c)
    /\ CloseHandle(c)
    /\ UnlinkPage(c)
    /\ UNCHANGED <<plugged, driver, list, undo, zjs, unread, unsent, taken,
                   total_sent, outcome, page, printed>>

-----------------------------------------------------------------------------
PageTears(p) ==
    page' = [c \in Clients |-> [page[c] EXCEPT !.torn =
               @ \/ (handle[c] = [dev |-> p, live |-> TRUE]
                       /\ page[c].got # <<>>)]]

Leaves(p) ==
    /\ Unplug(p)
    /\ printed' = printed \ {p}
    /\ PageTears(p)
    /\ UNCHANGED <<renderVars, sendVars>>

Arrives(p) == Plug(p) /\ UNCHANGED <<testVars, printed>>

TestStep(c) ==
    \/ TestRender(c) \/ TestGivesUp(c) \/ TestList(c) \/ TestOpen(c)
    \/ TestNoPrinter(c) \/ TestDriver(c) \/ TestDetach(c) \/ TestClaim(c)
    \/ TestUndo(c) \/ OpenZjs(c) \/ ReadZjs(c) \/ EndOfZjs(c) \/ TestByte(c)
    \/ SendOk(c) \/ SendError(c) \/ TestRelease(c)

Init == BusInit /\ TestInit /\ printed = {}

Next ==
    \/ \E p \in Printers : Leaves(p) \/ Arrives(p)
    \/ \E c \in Clients : TestStart(c) \/ TestStep(c)

\* System and libusb calls return (a transfer within USB_TIMEOUT_MS), and
\* foo2zjs-wrapper ends.
Spec == Init /\ [][Next]_vars /\ \A c \in Clients : WF_vars(TestStep(c))

-----------------------------------------------------------------------------
(* What the print test promises. *)

Off(c) == tpc[c] = "off" /\ rpc[c] = "idle"

\* send_file is a job stream of one write.
Phase(c) ==
    CASE tpc[c] = "open"             -> "idle"
      [] tpc[c] \in {"read", "send"} -> "busy"
      [] tpc[c] = "release"          -> IF outcome[c] = "sent"
                                           \/ page[c].sent = 0
                                        THEN "idle" ELSE "dead"
      [] OTHER                       -> "closed"

\* The test page as a job stream: each byte once and in order, all of them when
\* the page counts as sent, none after the printer left (98-170).
Stream(c) == INSTANCE JobStream WITH
    phase <- Phase(c),
    sent  <- page[c].sent,
    got   <- page[c].got,
    torn  <- page[c].torn

StreamStep(c) == [Stream(c)!SNext]_(Stream(c)!streamVars)

ImplementsJobStream ==
    /\ \A c \in Clients : Stream(c)!SInit
    /\ [][\A c \in Clients : StreamStep(c)]_vars

\* A test that has ended leaves no temporary file, no open handle and no
\* claim, wherever it failed (184-234).
NothingLeft ==
    \A c \in Clients : Off(c) =>
        /\ files[c] = {} /\ fds[c] = {}
        /\ handle[c] = NoRef
        /\ \A p \in Printers : owner[p] # c

\* A P1102 that took a byte of the page is not handed back to usblp (214-221).
NoUsblpAfterPage == \A p \in printed : driver[p] # "usblp"

\* A test that was started ends: nothing is retried (133-145).
TestEnds == \A c \in Clients : ~Off(c) ~> Off(c)
=============================================================================
