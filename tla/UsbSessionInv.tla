--------------------------- MODULE UsbSessionInv ---------------------------
(***************************************************************************)
(* The inductive invariant of UsbSession.  It is here, and not beside the  *)
(* proofs, so that TLC can check it too.                                   *)
(***************************************************************************)
EXTENDS UsbSession

\* Inside claim_device, with a handle open.
Opened == {"serial", "active", "detach", "claim", "undo"}

Walking == Opened \cup {"scan", "done"}

\* Which libusb call a client can be at, given the session call it is in.
Control(c) ==
    /\ pc[c] \in {"none", "ready", "transfer"} => cpc[c] = "idle"
    /\ pc[c] = "opening"   => cpc[c] \in Walking
    /\ pc[c] = "reconnect" =>
          cpc[c] \in Walking \cup {"idle", "release", "closed"}
    /\ pc[c] = "closing"   => cpc[c] \in {"release", "attach", "closed"}

\* When the session record has a handle, and when the client has one open.
Holding(c) ==
    /\ pc[c] = "none" => ~sess[c].held
    /\ pc[c] = "transfer" => sess[c].held
    /\ pc[c] = "ready" /\ ~job[c].failed => sess[c].held
    /\ cpc[c] \in Opened \cup {"scan"} =>
          ~sess[c].held /\ result[c] # "SUCCESS"
    /\ cpc[c] = "closed" => ~sess[c].held
    /\ cpc[c] \in {"release", "attach"} => sess[c].held
    /\ cpc[c] = "done" => (sess[c].held <=> result[c] = "SUCCESS")
    /\ cpc[c] \in Opened => Printer(c) \in Printers
    /\ cpc[c] \notin Opened /\ ~sess[c].held => handle[c] = NoRef

\* The serial number asked for, on its way from the URI to the session.
Target(c) ==
    /\ pc[c] # "none" => job[c].to \in Printers
    /\ pc[c] \in {"opening", "reconnect"} /\ cpc[c] \in Walking
           => want[c] = job[c].to
    /\ cpc[c] \in {"active", "detach", "claim", "undo"}
           => try[c].serial = job[c].to /\ Printer(c) = job[c].to
    /\ sess[c].held => Printer(c) = job[c].to /\ sess[c].serial = job[c].to
    /\ pc[c] \in {"ready", "transfer", "reconnect", "closing"}
           => sess[c].serial = job[c].to

\* A claim belongs to a session that holds the live handle it was made with.
Claimed(c) ==
    /\ sess[c].held /\ Live(c) /\ cpc[c] # "attach" => owner[Printer(c)] = c
    /\ \A p \in Printers : owner[p] = c =>
          /\ sess[c].held /\ cpc[c] # "attach"
          /\ Printer(c) = p /\ Live(c)

\* The counters of a write against what the printer took.
Counters(c) ==
    /\ Len(job[c].got) = sess[c].accepted + wire[c]
    /\ pc[c] # "transfer" => wire[c] = 0
    /\ pc[c] \in {"transfer", "reconnect"} =>
          wire[c] <= left[c] /\ left[c] <= job[c].sent
    /\ pc[c] \in {"opening", "reconnect"} => sess[c].accepted = 0
    /\ pc[c] = "opening" =>
          job[c].sent = 0 /\ ~job[c].failed /\ ~job[c].torn
    /\ pc[c] = "reconnect" => ~begun[c]

\* What was taken is below the next byte to send, in increasing order.
Increasing(c) ==
    /\ \A i \in 1..Len(job[c].got) :
          job[c].got[i] <= IF pc[c] = "transfer"
                           THEN job[c].sent - left[c] + wire[c]
                           ELSE job[c].sent
    /\ \A i, j \in 1..Len(job[c].got) : i < j => job[c].got[i] < job[c].got[j]

\* A torn job's session has lost its handle.
TornIsDead(c) ==
    job[c].torn =>
        /\ job[c].got # <<>>
        /\ pc[c] \in {"ready", "transfer"} => ~Live(c)

\* Until a write fails: no gaps, and nothing missing.
Complete(c) ==
    ~job[c].failed =>
        /\ \A i \in 1..Len(job[c].got) : job[c].got[i] = i
        /\ pc[c] \in {"transfer", "reconnect"} =>
              job[c].sent - left[c] = sess[c].accepted
        /\ pc[c] = "ready" => job[c].sent = sess[c].accepted

ClientInv(c) ==
    /\ Control(c) /\ Holding(c) /\ Target(c) /\ Claimed(c)
    /\ Counters(c) /\ Increasing(c) /\ TornIsDead(c) /\ Complete(c)

\* The inductive invariant behind every theorem about a session: the session
\* record, the libusb call, the bus and the bytes of the job agree.
SessionInv == TypeOK /\ \A c \in Clients : ClientInv(c)

-----------------------------------------------------------------------------
(* Who may hand a printer back to usblp.                                   *)

Quirk(p) == hplp_model_lookup(ProductOf[p]).no_reattach

\* A live handle or reference is to a printer on the bus, usblp is never bound
\* under a claim, and a close attaches only where there is no quirk.
HandBackInv ==
    /\ \A c \in Clients : Live(c) => Printer(c) \in plugged
    /\ \A c \in Clients : \A r \in list[c] : r.live => r.dev \in plugged
    /\ \A p \in Printers : owner[p] # NoClient => driver[p] = "none"
    /\ printed \subseteq plugged
    /\ \A c \in Clients : cpc[c] = "attach" => ~Quirk(Printer(c))

\* Only a walk that claimed nothing hands a printer with the quirk that has
\* printed back to usblp, and its session has not had a byte taken: no close
\* does, and no session that printed (usb_transport.c 222-227, 552-555).
HandsBackUnprinted ==
    [][\A p \in printed :
          /\ p \in printed' /\ Quirk(p)
          /\ driver[p] # "usblp" /\ driver'[p] = "usblp"
          => \E c \in Clients :
                Undo(c) /\ Printer(c) = p /\ job[c].got = <<>>]_vars

\* Has detached usblp, or is about to: its walk may still hand it back.
MayUndo(c) ==
    \/ cpc[c] = "detach"
    \/ cpc[c] \in {"active", "claim", "undo"} /\ try[c].detached

\* What holds besides when no session overtakes another.
AloneInv ==
    /\ NoReattachAfterJob
    /\ \A c \in Clients : cpc[c] = "undo" => try[c].detached
    /\ \A c \in Clients : Live(c) /\ MayUndo(c) =>
          ~(Quirk(Printer(c)) /\ Printer(c) \in printed)
=============================================================================
