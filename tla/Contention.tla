----------------------------- MODULE Contention -----------------------------
(***************************************************************************)
(* The programs that drive the printers, side by side on one bus: the      *)
(* transport sessions of the PAPPL server (UsbSession), the claim checks   *)
(* (ClaimCheck) and the print tests (PrintTest).  They share no lock; what *)
(* keeps them apart is the claim that usbfs gives to one of them, and each *)
(* has a claim walk of its own that takes usblp off and puts it back.      *)
(***************************************************************************)
EXTENDS UsbSession

CONSTANTS
    MayRun,                        \* bound: the programs each client may be
    PageBytes, BufferSize, MaxZjs  \* see PrintTest

ASSUME ContentionAssumption ==
    /\ MayRun \in [Clients -> SUBSET {"session", "check", "test"}]
    /\ PageBytes \in Nat \ {0} /\ BufferSize \in Nat \ {0} /\ MaxZjs \in Nat

VARIABLES
    program,                                                \* what it is
    kpc, detached, failed, found, claimed, original, lost,  \* see ClaimCheck
    rpc, written, files, fds, wrapper, code,                \* see RenderTest
    tpc, undo, zjs, unread, unsent, taken, total_sent,
    outcome, page                                           \* see PrintTest

K == INSTANCE ClaimCheck
T == INSTANCE PrintTest WITH Processes <- Clients

sessionVars == <<claimVars, callVars>>
checkVars   == <<kpc, detached, failed, found, claimed, original, lost>>
testVars    == <<rpc, written, files, fds, wrapper, code, tpc, undo, zjs,
                 unread, unsent, taken, total_sent, outcome, page>>
allVars     == <<program, vars, checkVars, testVars>>

AllInit ==
    /\ Init /\ K!CheckInit /\ T!TestInit
    /\ program \in [Clients -> UNION {MayRun[c] : c \in Clients}]
    /\ \A c \in Clients : program[c] \in MayRun[c]

-----------------------------------------------------------------------------
PrinterGoes(p) ==
    PrinterLeaves(p) /\ K!CheckUnplugged(p) /\ T!PageTears(p)
    /\ UNCHANGED <<rpc, written, files, fds, wrapper, code, tpc, undo, zjs,
                   unread, unsent, taken, total_sent, outcome>>

PrinterComes(p) == PrinterArrives(p) /\ UNCHANGED <<checkVars, testVars>>

Acts(c) ==
    \/ /\ program[c] = "session"
       /\ Caller(c) \/ Session(c)
       /\ UNCHANGED <<checkVars, testVars>>
    \/ /\ program[c] = "check"
       /\ K!CheckStart(c) \/ K!Check(c)
       /\ UNCHANGED <<sessionVars, history, testVars>>
    \/ /\ program[c] = "test"
       /\ T!TestStart(c) \/ T!TestStep(c)
       /\ UNCHANGED <<sessionVars, job, checkVars>>

AllNext ==
    /\ \/ \E p \in Printers : PrinterGoes(p) \/ PrinterComes(p)
       \/ \E c \in Clients : Acts(c)
    /\ UNCHANGED program

AllSpec == AllInit /\ [][AllNext]_allVars

-----------------------------------------------------------------------------
(* What the programs promise each other. *)

\* The printer has taken a part of a job, is still there, and the job is
\* neither closed nor given up.
MidJob(c) ==
    /\ Live(c)
    /\ \/ program[c] = "session" /\ pc[c] \in {"ready", "transfer"}
            /\ sess[c].held /\ job[c].got # <<>>
       \/ program[c] = "test" /\ tpc[c] \in {"read", "send"}
            /\ page[c].got # <<>>

\* While a printer is in the middle of a job nothing else reaches it: its
\* interface stays with the client that prints, between the writes too, and
\* no other walk, check or close has bound usblp to it.  (ARCHITECTURE.md:
\* "Never allow concurrent writers to one physical printer.")
OneWriter ==
    \A c \in Clients : MidJob(c) =>
        /\ owner[Printer(c)] = c /\ driver[Printer(c)] = "none"
        /\ \A d \in Clients \ {c} : MidJob(d) => Printer(d) # Printer(c)

\* Each session and each test page stays a job stream whatever the other
\* programs do between its calls.
EveryJobAStream ==
    [][\A c \in Clients : /\ program[c] = "session" => StreamStep(c)
                          /\ program[c] = "test" => T!StreamStep(c)]_allVars

\* Binds usblp to the printer it has open, after taking it off itself: in the
\* undo of a claim that failed, or at the end of a claim check.
HandsBack(c) ==
    \/ Undo(c) /\ try[c].detached /\ job[c].got = <<>>
    \/ K!CheckAttach(c) /\ detached[c]
    \/ T!TestUndo(c) /\ undo[c]

\* A printer with the no-reattach quirk that has printed is bound to usblp
\* again only by a program that took usblp off before, and that has claimed the
\* printer in vain or sends nothing: never by a close, and by no session that
\* has printed (usb_transport.c 222-227, 552-555; usb_claim.c 77-92;
\* print_test.c 72-76).
OnlyTakerHandsBack ==
    [][\A p \in printed :
          /\ p \in printed'
          /\ hplp_model_lookup(ProductOf[p]).no_reattach
          /\ driver[p] # "usblp" /\ driver'[p] = "usblp"
          => \E c \in Clients : Printer(c) = p /\ HandsBack(c)]_allVars
=============================================================================
