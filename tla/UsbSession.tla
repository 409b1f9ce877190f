----------------------------- MODULE UsbSession -----------------------------
(***************************************************************************)
(* The transport session of src/usb_transport.c: hplp_usb_session_open,    *)
(* hplp_usb_session_write with its reconnect before the first byte, and    *)
(* hplp_usb_session_close, as hplp_device_open, hplp_device_write and      *)
(* hplp_device_close of src/pappl_device.c drive them, while printers come *)
(* and go and other sessions contend for them.                             *)
(*                                                                         *)
(* The bytes of a job are its positions 1, 2, 3, ...: the caller hands     *)
(* them over in order, a few per write.  "job" is a history variable: how  *)
(* many bytes were handed over, the positions the printer took, the printer*)
(* the URI named, whether a write has failed, and whether the printer left *)
(* after taking a byte.                                                    *)
(***************************************************************************)
EXTENDS ClaimDevice, Sequences

CONSTANTS
    ChunkSize,          \* HPLP_USB_CHUNK_SIZE
    ReconnectAttempts,  \* HPLP_USB_RECONNECT_ATTEMPTS
    MaxWrite,           \* bound: bytes in one write call
    MaxJob,             \* bound: bytes in one session
    WritesAfterFailure  \* does the caller go on writing after a -1?

ASSUME SessionAssumption ==
    /\ ChunkSize \in Nat \ {0}
    /\ ReconnectAttempts \in Nat \ {0}
    /\ MaxWrite \in Nat
    /\ MaxJob \in Nat
    /\ WritesAfterFailure \in BOOLEAN

VARIABLES
    pc,       \* the call each client is in
    left,     \* bytes - offset of the write call
    begun,    \* offset > 0: part of this call's buffer has been taken
    wire,     \* what the printer took of the bulk transfer in flight
    attempt,  \* reconnect_before_first_byte's loop counter
    job,      \* history, see above
    printed   \* history: the printers whose enumeration has taken a byte

callVars == <<pc, left, begun, wire, attempt>>
history  == <<job, printed>>
vars     == <<busVars, claimVars, callVars, history>>

NewJob(p) == [to |-> p, sent |-> 0, got |-> <<>>, failed |-> FALSE,
              torn |-> FALSE]

Pcs    == {"none", "opening", "ready", "transfer", "reconnect", "closing"}
JobRec == [to : Serials, sent : Nat, got : Seq(Nat), failed : BOOLEAN,
           torn : BOOLEAN]

SessionTypeOK ==
    /\ pc \in [Clients -> Pcs]
    /\ left \in [Clients -> Nat]
    /\ begun \in [Clients -> BOOLEAN]
    /\ wire \in [Clients -> Nat]
    /\ attempt \in [Clients -> Nat]
    /\ job \in [Clients -> JobRec]
    /\ printed \subseteq Printers

TypeOK == BusTypeOK /\ ClaimTypeOK /\ SessionTypeOK

Init ==
    /\ BusInit
    /\ ClaimInit
    /\ pc = [c \in Clients |-> "none"]
    /\ left = [c \in Clients |-> 0]
    /\ begun = [c \in Clients |-> FALSE]
    /\ wire = [c \in Clients |-> 0]
    /\ attempt = [c \in Clients |-> 0]
    /\ job = [c \in Clients |-> NewJob(NoPrinter)]
    /\ printed = {}

Call(c, from, to) ==
    /\ pc[c] = from
    /\ pc' = [pc EXCEPT ![c] = to]

SameProduct(p) == {q \in Printers : ProductOf[q] = ProductOf[p]}

-----------------------------------------------------------------------------
(* hplp_usb_session_open.  A URI names a product and a serial; a product   *)
(* without a verified profile is refused before anything is touched.       *)

Open(c, p) ==
    /\ Call(c, "none", "opening")
    /\ p \in Serialised
    /\ ProfileVerified(ProductOf[p])
    /\ StartWalk(c, "idle", p, SameProduct(p))
    /\ sess' = [sess EXCEPT ![c] = ClosedSession]
    /\ job' = [job EXCEPT ![c] = NewJob(p)]
    /\ UNCHANGED <<left, begun, wire, attempt, printed>>

OpenDone(c) ==
    /\ Call(c, "opening", IF result[c] = "SUCCESS" THEN "ready" ELSE "none")
    /\ Goto(c, "done", "idle")
    /\ UNCHANGED <<busVars, want, try, result, sess, left, begun, wire,
                   attempt, history>>

-----------------------------------------------------------------------------
(* hplp_usb_session_write. *)

\* Mutant: a replay looks at this write call only, not at the whole session.
ReplayThisCall(c) == ~begun[c]

\* Replaying is safe only before the printer has accepted any byte.
ReplaySafe(c) == sess[c].accepted = 0

Write(c, n) ==
    /\ job[c].failed => WritesAfterFailure
    /\ job[c].sent + n <= MaxJob
    /\ left' = [left EXCEPT ![c] = n]
    /\ begun' = [begun EXCEPT ![c] = FALSE]
    /\ attempt' = [attempt EXCEPT ![c] = 0]
    /\ \/ /\ sess[c].held
          /\ Call(c, "ready", "transfer")
          /\ sess' = [sess EXCEPT ![c].last_error = "SUCCESS"]
          /\ job' = [job EXCEPT ![c].sent = @ + n]
       \/ /\ ~sess[c].held
          /\ Call(c, "ready", IF ReplaySafe(c) THEN "reconnect" ELSE "ready")
          /\ sess' = [sess EXCEPT ![c].last_error = "NO_DEVICE"]
          /\ job' = [job EXCEPT ![c].sent = @ + n,
                                ![c].failed = @ \/ ~ReplaySafe(c)]
    /\ UNCHANGED <<busVars, cpc, want, try, result, wire, printed>>

\* The printer takes the next byte of the libusb_bulk_transfer in flight.
TakeByte(c) ==
    /\ pc[c] = "transfer"
    /\ Live(c)
    /\ owner[Printer(c)] = c
    /\ wire[c] < left[c]
    /\ wire[c] < ChunkSize
    /\ wire' = [wire EXCEPT ![c] = @ + 1]
    /\ job' = [job EXCEPT ![c].got =
                 Append(@, job[c].sent - left[c] + wire[c] + 1)]
    /\ printed' = printed \cup {Printer(c)}
    /\ UNCHANGED <<busVars, claimVars, pc, left, begun, attempt>>

\* Mutant: a short transfer is sent again from its first byte.
AdvanceAgain(c) ==
    /\ begun' = [begun EXCEPT ![c] = @ \/ wire[c] > 0]
    /\ wire' = [wire EXCEPT ![c] = 0]
    /\ UNCHANGED <<busVars, cpc, want, try, result, printed, left>>

\* The transfer returns: offset and bytes_accepted advance by what it took.
Advance(c) ==
    /\ left' = [left EXCEPT ![c] = @ - wire[c]]
    /\ begun' = [begun EXCEPT ![c] = @ \/ wire[c] > 0]
    /\ wire' = [wire EXCEPT ![c] = 0]
    /\ UNCHANGED <<busVars, cpc, want, try, result, printed>>

\* Mutant: one successful transfer ends the write, however short.
TransferOkOnce(c) ==
    /\ wire[c] > 0
    /\ Call(c, "transfer", "ready")
    /\ sess' = [sess EXCEPT ![c].accepted = @ + wire[c]]
    /\ Advance(c)
    /\ UNCHANGED <<job, attempt>>

\* Mutant: the claim is given up between the writes.
TransferOkReleases(c) ==
    /\ wire[c] > 0
    /\ Call(c, "transfer", IF left[c] = wire[c] THEN "ready" ELSE "transfer")
    /\ sess' = [sess EXCEPT ![c].accepted = @ + wire[c]]
    /\ ReleaseInterface(c)
    /\ left' = [left EXCEPT ![c] = @ - wire[c]]
    /\ begun' = [begun EXCEPT ![c] = TRUE]
    /\ wire' = [wire EXCEPT ![c] = 0]
    /\ UNCHANGED <<plugged, driver, handle, list, cpc, want, try, result,
                   printed, job, attempt>>

TransferOk(c) ==
    /\ wire[c] > 0
    /\ Call(c, "transfer", IF left[c] = wire[c] THEN "ready" ELSE "transfer")
    /\ sess' = [sess EXCEPT ![c].accepted = @ + wire[c]]
    /\ Advance(c)
    /\ UNCHANGED <<job, attempt>>

\* Mutant: what a failed transfer moved is not added to bytes_accepted.
TransferErrorUncounted(c) ==
    /\ Call(c, "transfer", "ready")
    /\ sess' = [sess EXCEPT ![c].last_error = "ERROR"]
    /\ job' = [job EXCEPT ![c].failed = TRUE]
    /\ Advance(c)
    /\ UNCHANGED attempt

\* Any error (a timeout, a stall, a printer on its way out), or a success that
\* moved nothing: return -1.
TransferError(c) ==
    /\ Call(c, "transfer", "ready")
    /\ sess' = [sess EXCEPT ![c].accepted = @ + wire[c],
                            ![c].last_error = "ERROR"]
    /\ job' = [job EXCEPT ![c].failed = TRUE]
    /\ Advance(c)
    /\ UNCHANGED attempt

\* NO_DEVICE: reconnect if nothing was accepted, else return -1.
TransferGone(c) ==
    /\ ~Live(c)
    /\ LET again == ReplaySafe(c) /\ ~begun[c] /\ wire[c] = 0
       IN  /\ Call(c, "transfer", IF again THEN "reconnect" ELSE "ready")
           /\ sess' = [sess EXCEPT ![c].accepted = @ + wire[c],
                                   ![c].last_error =
                                       IF again THEN @ ELSE "NO_DEVICE"]
           /\ job' = [job EXCEPT ![c].failed = @ \/ ~again]
    /\ Advance(c)
    /\ attempt' = [attempt EXCEPT ![c] = 0]

-----------------------------------------------------------------------------
(* reconnect_before_first_byte and reopen_exact_device.                    *)

\* close_session_handle(session, 0), which returns at once without a handle.
Reopen(c) ==
    /\ pc[c] = "reconnect"
    /\ Goto(c, "idle", IF sess[c].held THEN "release" ELSE "closed")
    /\ UNCHANGED <<busVars, want, try, result, sess, callVars, history>>

ReopenWalk(c) ==
    /\ pc[c] = "reconnect"
    /\ StartWalk(c, "closed", sess[c].serial, SameProduct(sess[c].serial))
    /\ UNCHANGED <<sess, callVars, history>>

ReopenOk(c) ==
    /\ result[c] = "SUCCESS"
    /\ Call(c, "reconnect", "transfer")
    /\ Goto(c, "done", "idle")
    /\ UNCHANGED <<busVars, want, try, result, sess, left, begun, wire,
                   attempt, history>>

\* Mutant: the attempts are not counted.
ReopenForever(c) ==
    /\ result[c] # "SUCCESS"
    /\ pc[c] = "reconnect"
    /\ Goto(c, "done", "idle")
    /\ UNCHANGED <<busVars, want, try, result, sess, callVars, history>>

\* Sleep a second and try again.
ReopenRetry(c) ==
    /\ result[c] # "SUCCESS"
    /\ attempt[c] + 1 < ReconnectAttempts
    /\ pc[c] = "reconnect"
    /\ Goto(c, "done", "idle")
    /\ attempt' = [attempt EXCEPT ![c] = @ + 1]
    /\ UNCHANGED <<busVars, want, try, result, sess, pc, left, begun, wire,
                   history>>

\* Out of attempts: return -1.  A call that began without a handle keeps the
\* NO_DEVICE it recorded on entry; one that lost it reports the last rc.
ReopenFail(c) ==
    /\ result[c] # "SUCCESS"
    /\ attempt[c] + 1 >= ReconnectAttempts
    /\ Call(c, "reconnect", "ready")
    /\ Goto(c, "done", "idle")
    /\ sess' = [sess EXCEPT ![c].last_error =
                  IF @ = "NO_DEVICE" THEN @ ELSE result[c]]
    /\ job' = [job EXCEPT ![c].failed = TRUE]
    /\ UNCHANGED <<busVars, want, try, result, left, begun, wire, attempt,
                   printed>>

-----------------------------------------------------------------------------
(* hplp_usb_session_close: usblp comes back only for a model without the   *)
(* no-reattach quirk.                                                      *)

\* Mutant: the quirk is not looked up.
RestoreAlways(c) == TRUE

RestoreOnClose(c) ==
    ~hplp_model_lookup(ProductOf[sess[c].serial]).no_reattach

Close(c) ==
    /\ Call(c, "ready", "closing")
    /\ Goto(c, "idle", IF sess[c].held THEN "release" ELSE "closed")
    /\ UNCHANGED <<busVars, want, try, result, sess, left, begun, wire,
                   attempt, history>>

CloseDone(c) ==
    /\ Call(c, "closing", "none")
    /\ Goto(c, "closed", "idle")
    /\ UNCHANGED <<busVars, want, try, result, sess, left, begun, wire,
                   attempt, history>>

CloseHandleStep(c) ==
    /\ \/ Release(c, pc[c] = "closing" /\ RestoreOnClose(c))
       \/ AttachBack(c)
    /\ UNCHANGED <<callVars, history>>

WalkStep(c) == Walk(c) /\ UNCHANGED <<callVars, history>>

-----------------------------------------------------------------------------
(* The environment: an unplug ends the enumeration and, for a session that *)
(* was printing on it, tears the job.                                      *)

PrinterLeaves(p) ==
    /\ Unplug(p)
    /\ printed' = printed \ {p}
    /\ job' = [c \in Clients |->
                 [job[c] EXCEPT !.torn =
                    @ \/ (handle[c] = [dev |-> p, live |-> TRUE]
                            /\ job[c].got # <<>>)]]
    /\ UNCHANGED <<claimVars, callVars>>

PrinterArrives(p) == Plug(p) /\ UNCHANGED <<claimVars, callVars, history>>

Environment == \E p \in Printers : PrinterLeaves(p) \/ PrinterArrives(p)

\* What the caller decides to do.
Caller(c) ==
    \/ \E p \in Printers : Open(c, p)
    \/ \E n \in 1..MaxWrite : Write(c, n)
    \/ Close(c)

\* What the code does inside a call.
Session(c) ==
    \/ OpenDone(c) \/ WalkStep(c) \/ CloseHandleStep(c) \/ CloseDone(c)
    \/ TakeByte(c) \/ TransferOk(c) \/ TransferError(c) \/ TransferGone(c)
    \/ Reopen(c) \/ ReopenWalk(c) \/ ReopenOk(c) \/ ReopenRetry(c)
    \/ ReopenFail(c)

Next == Environment \/ \E c \in Clients : Caller(c) \/ Session(c)

\* A call that has begun keeps running: libusb calls return (a bulk transfer
\* within HPLP_USB_TIMEOUT_MS) and sleep_one_second ends.
Fairness == \A c \in Clients : WF_vars(Session(c))

Spec == Init /\ [][Next]_vars /\ Fairness

-----------------------------------------------------------------------------
(* What a session promises. *)

Idle(c) == pc[c] \in {"none", "ready"}

\* What the call a session is in means to its caller.
Phase(c) ==
    CASE pc[c] \in {"none", "opening", "closing"} -> "closed"
      [] pc[c] = "ready" -> IF job[c].failed THEN "dead" ELSE "idle"
      [] pc[c] \in {"transfer", "reconnect"} ->
            IF job[c].failed THEN "again" ELSE "busy"

\* A session's projection is a job stream (lines 459-540): in order, once
\* each, complete when a write returns success, nothing after a tear; and in
\* order and once each also for a caller that writes on after a failure.
Stream(c) == INSTANCE JobStream WITH
    phase <- Phase(c),
    sent  <- job[c].sent,
    got   <- job[c].got,
    torn  <- job[c].torn

\* (TLC wants the box outside: this is \A c \in Clients : Stream(c)!SSpec.)
StreamStep(c) == [Stream(c)!SNext]_(Stream(c)!streamVars)

ImplementsJobStream ==
    /\ \A c \in Clients : Stream(c)!SInit
    /\ [][\A c \in Clients : StreamStep(c)]_vars

\* However the caller behaves, and whatever reconnects happened, no byte of a
\* job reaches a printer twice or behind a later one (the comment at 518-522).
NoByteTwice ==
    \A c \in Clients : \A i \in 2..Len(job[c].got) :
        job[c].got[i - 1] < job[c].got[i]

\* bytes_accepted, which decides whether a replay is safe, counts every byte
\* the printer took, those of failed transfers included (505-508).
AcceptedCounts ==
    \A c \in Clients : Len(job[c].got) = sess[c].accepted + wire[c]

\* Once a job has bytes in a printer, its session stays on that enumeration:
\* no later write, reconnect or replug adds a byte to a torn job.
NoByteAfterTear ==
    [][\A c \in Clients :
          job[c].torn /\ job[c].got # <<>> /\ job'[c].got # <<>>
              => job'[c].got = job[c].got]_vars

\* Of several identical printers, a session only ever claims the one whose
\* serial number the URI names, on open and on every reconnect (194-204).
RightPrinter ==
    \A c \in Clients : sess[c].held => Printer(c) = job[c].to

\* A session that can transfer to a live handle is the one client that claims
\* its printer; two sessions never feed one printer (222-230).
Exclusive ==
    \A c \in Clients :
        pc[c] \in {"ready", "transfer"} /\ sess[c].held /\ Live(c)
            => owner[Printer(c)] = c

\* A session that is closed, or failed to open, or lost its printer for good,
\* keeps neither an open handle nor a claim (153-175, 197-229, 450-456).
NothingLeaked ==
    \A c \in Clients : Idle(c) /\ ~sess[c].held =>
        handle[c] = NoRef /\ \A p \in Printers : owner[p] # c

\* A printer with the no-reattach quirk that has printed is not handed back to
\* usblp while it stays plugged (models.h 26-29, usb_transport.c 552-555).
NoReattachAfterJob ==
    \A p \in printed :
        hplp_model_lookup(ProductOf[p]).no_reattach => driver[p] # "usblp"

\* Open, write and close return, once printers stop leaving the bus: a
\* reconnect gives up after its attempts and a transfer never repeats for ever.
CallReturns ==
    <>[][\A p \in Printers : ~PrinterLeaves(p)]_vars
        => \A c \in Clients : ~Idle(c) ~> Idle(c)

=============================================================================
