--------------------------- MODULE TransportWatch ---------------------------
(***************************************************************************)
(* hplp_usb_transport_watch of src/usb_transport.c: a loop that claims the *)
(* first supported printer it can, once a second checks that this printer  *)
(* is still on the bus, lets go of it when it is not, and on SIGINT or     *)
(* SIGTERM gives the printer back to usblp and stops.                      *)
(*                                                                         *)
(* A libusb call is a step, as in ClaimDevice; the one-second sleep is the *)
(* stuttering between two turns of the loop.                               *)
(***************************************************************************)
EXTENDS ClaimDevice

VARIABLES
    wpc,         \* where in the loop each watch is
    running,     \* transport_running
    last_state,  \* -1, 0 disconnected, 1 ready: the last STATE line printed
    was_live,    \* at the last device list, was the handle's device in it?
    original     \* history: the driver bound to each enumeration when the
                 \* watch first opened it, "unseen" before

watchVars == <<wpc, running, last_state, was_live, original>>
vars      == <<busVars, claimVars, watchVars>>

WatchTypeOK ==
    /\ BusTypeOK
    /\ ClaimTypeOK
    /\ wpc \in [Clients -> {"loop", "open", "look", "gone", "exit", "stopped"}]
    /\ running \in [Clients -> BOOLEAN]
    /\ last_state \in [Clients -> {-1, 0, 1}]
    /\ was_live \in [Clients -> BOOLEAN]
    /\ original \in [Printers -> Drivers \cup {"unseen"}]

Init ==
    /\ BusInit
    /\ ClaimInit
    /\ wpc = [c \in Clients |-> "loop"]
    /\ running = [c \in Clients |-> TRUE]
    /\ last_state = [c \in Clients |-> -1]
    /\ was_live = [c \in Clients |-> FALSE]
    /\ original = [p \in Printers |-> "unseen"]

Turn(c, from, to) ==
    /\ wpc[c] = from
    /\ wpc' = [wpc EXCEPT ![c] = to]

Supported == {p \in Printers : ProfileVerified(ProductOf[p])}

-----------------------------------------------------------------------------
(* open_first_supported.  Its result keeps a NO_DEVICE that the other walks *)
(* drop; its caller only asks whether a printer was claimed.               *)

\* Mutant: the search goes on after a signal.
OpenFirstStubborn(c) ==
    /\ ~sess[c].held
    /\ Turn(c, "loop", "open")
    /\ StartWalk(c, "idle", NoPrinter, Supported)
    /\ UNCHANGED <<sess, running, last_state, was_live, original>>

OpenFirst(c) ==
    /\ running[c] /\ ~sess[c].held
    /\ Turn(c, "loop", "open")
    /\ StartWalk(c, "idle", NoPrinter, Supported)
    /\ UNCHANGED <<sess, running, last_state, was_live, original>>

\* Mutant: last_state takes the result code, LIBUSB_ERROR_NO_DEVICE for one.
OpenFirstDoneCode(c) ==
    /\ Turn(c, "open", "loop")
    /\ Goto(c, "done", "idle")
    /\ last_state' = [last_state EXCEPT
                        ![c] = IF result[c] = "SUCCESS" THEN 1 ELSE -4]
    /\ UNCHANGED <<busVars, want, try, result, sess, running, was_live,
                   original>>

\* READY after a claim, DISCONNECTED unless that was the last line.
OpenFirstDone(c) ==
    /\ Turn(c, "open", "loop")
    /\ Goto(c, "done", "idle")
    /\ last_state' = [last_state EXCEPT
                        ![c] = IF result[c] = "SUCCESS" THEN 1 ELSE 0]
    /\ UNCHANGED <<busVars, want, try, result, sess, running, was_live,
                   original>>

WatchWalk(c) ==
    /\ Walk(c)
    /\ original' = [p \in Printers |->
                      IF /\ original[p] = "unseen"
                         /\ handle'[c] = [dev |-> p, live |-> TRUE]
                      THEN driver[p] ELSE original[p]]
    /\ UNCHANGED <<wpc, running, last_state, was_live>>

-----------------------------------------------------------------------------
(* session_still_present and same_physical_device. *)

ListDevices(c) ==
    /\ running[c] /\ sess[c].held
    /\ \/ /\ Turn(c, "loop", "look")
          /\ list' = [list EXCEPT ![c] =
                {[dev |-> p, live |-> TRUE] :
                    p \in {q \in plugged : ProductOf[q] =
                                           ProductOf[Printer(c)]}}]
          /\ was_live' = [was_live EXCEPT ![c] = Live(c)]
          /\ UNCHANGED <<cpc, last_state>>
       \/ /\ Turn(c, "loop", "gone")       \* no list: taken for absent
          /\ Goto(c, "idle", "release")
          /\ last_state' = [last_state EXCEPT ![c] = 0]
          /\ UNCHANGED <<list, was_live>>
    /\ UNCHANGED <<plugged, driver, owner, handle, want, try, result, sess,
                   running, original>>

\* The same bus number and device address: the same enumeration.
SameAddress(c, r) == was_live[c] /\ r.dev = Printer(c)

\* Mutant: any printer of the same product will do.
SameProductIsEnough(c, r, readable) == TRUE

\* By serial number when both have one and this one can be read now.
SamePhysicalDevice(c, r, readable) ==
    IF sess[c].serial # NoPrinter /\ readable
    THEN r.dev = sess[c].serial
    ELSE SameAddress(c, r)

Look(c) ==
    /\ \E r \in list[c] :
       \E readable \in {FALSE, r.live /\ r.dev \in Serialised} :
          IF SamePhysicalDevice(c, r, readable)
          THEN Turn(c, "look", "loop") /\ list' = [list EXCEPT ![c] = {}]
          ELSE Turn(c, "look", "look") /\ list' = [list EXCEPT ![c] = @ \ {r}]
    /\ UNCHANGED <<plugged, driver, owner, handle, claimVars, running,
                   last_state, was_live, original>>

\* Mutant: the lost printer does not change the state that was printed.
NotPresentSilent(c) ==
    /\ list[c] = {}
    /\ Turn(c, "look", "gone")
    /\ Goto(c, "idle", "release")
    /\ UNCHANGED <<busVars, want, try, result, sess, running, last_state,
                   was_live, original>>

\* Not on the bus: print DISCONNECTED and close_session_handle(&session, 0).
NotPresent(c) ==
    /\ list[c] = {}
    /\ Turn(c, "look", "gone")
    /\ Goto(c, "idle", "release")
    /\ last_state' = [last_state EXCEPT ![c] = 0]
    /\ UNCHANGED <<busVars, want, try, result, sess, running, was_live,
                   original>>

LetGo(c) ==
    /\ Turn(c, "gone", "loop")
    /\ Goto(c, "closed", "idle")
    /\ UNCHANGED <<busVars, want, try, result, sess, running, last_state,
                   was_live, original>>

-----------------------------------------------------------------------------
(* transport_signal, and the way out: close_session_handle(&session, 1).   *)

Signal(c) ==
    /\ running[c]
    /\ running' = [running EXCEPT ![c] = FALSE]
    /\ UNCHANGED <<busVars, claimVars, wpc, last_state, was_live, original>>

\* Mutant: the way out skips close_session_handle.
ExitOpen(c) ==
    /\ ~running[c]
    /\ Turn(c, "loop", "exit")
    /\ Goto(c, "idle", "closed")
    /\ UNCHANGED <<busVars, want, try, result, sess, running, last_state,
                   was_live, original>>

Exit(c) ==
    /\ ~running[c]
    /\ Turn(c, "loop", "exit")
    /\ Goto(c, "idle", IF sess[c].held THEN "release" ELSE "closed")
    /\ UNCHANGED <<busVars, want, try, result, sess, running, last_state,
                   was_live, original>>

\* Prints "original kernel-driver state restored", whatever happened.
Stop(c) ==
    /\ Turn(c, "exit", "stopped")
    /\ Goto(c, "closed", "idle")
    /\ UNCHANGED <<busVars, want, try, result, sess, running, last_state,
                   was_live, original>>

CloseStep(c) ==
    /\ Release(c, wpc[c] = "exit") \/ AttachBack(c)
    /\ UNCHANGED watchVars

-----------------------------------------------------------------------------
Leaves(p) ==
    /\ Unplug(p)
    /\ original' = [original EXCEPT ![p] = "unseen"]
    /\ UNCHANGED <<claimVars, wpc, running, last_state, was_live>>

Arrives(p) == Plug(p) /\ UNCHANGED <<claimVars, watchVars>>

Watch(c) ==
    \/ OpenFirst(c) \/ OpenFirstDone(c) \/ WatchWalk(c)
    \/ ListDevices(c) \/ Look(c) \/ NotPresent(c) \/ LetGo(c)
    \/ Exit(c) \/ CloseStep(c) \/ Stop(c)

Next ==
    \/ \E p \in Printers : Leaves(p) \/ Arrives(p)
    \/ \E c \in Clients : Watch(c) \/ Signal(c)

\* The loop wakes up after each sleep, and libusb calls return.
Spec == Init /\ [][Next]_vars /\ \A c \in Clients : WF_vars(Watch(c))

-----------------------------------------------------------------------------
(* What the watch promises. *)

\* What was printed last agrees with what the watch holds, at every turn of
\* its loop: READY with a claimed handle, otherwise not (627-650).
ReportsWhatItHolds ==
    \A c \in Clients :
        wpc[c] = "loop" => (last_state[c] = 1) = sess[c].held

\* A stopped watch holds no handle and no claim (661).
StopsClean ==
    \A c \in Clients : wpc[c] = "stopped" =>
        handle[c] = NoRef /\ \A p \in Printers : owner[p] # c

\* No watch binds usblp to a printer that had no driver when the first of them
\* opened it: a watch undoes its own detach only (164-168, 222-227).
LeavesUnboundAlone ==
    \A p \in Printers : original[p] = "none" => driver[p] = "none"

\* A signal stops the watch whatever the printers do (627, 655-665).
StopsOnSignal ==
    \A c \in Clients : ~running[c] ~> wpc[c] = "stopped"

\* A printer that has left for good is let go (639-650).
NoticesUnplug ==
    \A p \in Printers : \A c \in Clients :
        [](p \notin plugged => <>(p \in plugged \/ Printer(c) # p))

\* A stale handle is closed, and the watch waits for a newly enumerated
\* device (the comment at 643-647), also when the printer is back at once.
ClosesStaleHandle ==
    \A c \in Clients :
        sess[c].held /\ ~Live(c) ~> ~(sess[c].held /\ ~Live(c))

\* "original kernel-driver state restored" (664): a stopped watch leaves usblp
\* bound where it found it bound.
OriginalStateRestored ==
    \A c \in Clients : wpc[c] = "stopped" =>
        \A p \in plugged : original[p] = "usblp" => driver[p] = "usblp"
=============================================================================
