----------------------------- MODULE JobStream -----------------------------
(***************************************************************************)
(* What a transport session promises its caller, with no USB in it.  The   *)
(* caller hands over the bytes 1, 2, 3, ...; the printer takes them in     *)
(* order, each once.  A write that returns success has delivered all the   *)
(* session was given.  When the printer leaves after it took a byte, the   *)
(* job is torn, and it never takes another byte of that job.               *)
(*                                                                         *)
(* After a write that failed nothing is complete any more.  A caller that  *)
(* writes on all the same may get bytes printed, but only behind those that*)
(* are, in order, and never on a torn job.                                 *)
(***************************************************************************)
EXTENDS Naturals, Sequences

VARIABLES
    phase,   \* "closed", "idle", "busy" in a write; "dead" after a failure,
             \* "again" in a write behind one
    sent,    \* bytes handed over
    got,     \* bytes taken
    torn

streamVars == <<phase, sent, got, torn>>

Fresh == sent' = 0 /\ got' = <<>> /\ torn' = FALSE

SInit == phase = "closed" /\ sent = 0 /\ got = <<>> /\ torn = FALSE

SOpen == phase = "closed" /\ phase' \in {"closed", "idle"} /\ Fresh

SWrite ==
    /\ phase = "idle" /\ phase' = "busy"
    /\ sent' \in Nat /\ sent' > sent
    /\ UNCHANGED <<got, torn>>

STake ==
    /\ phase = "busy" /\ ~torn /\ Len(got) < sent
    /\ got' = Append(got, Len(got) + 1)
    /\ UNCHANGED <<phase, sent, torn>>

SDone ==
    /\ phase = "busy" /\ got = [i \in 1..sent |-> i] /\ phase' = "idle"
    /\ UNCHANGED <<sent, got, torn>>

SFail ==
    /\ phase \in {"busy", "again"} /\ phase' = "dead"
    /\ UNCHANGED <<sent, got, torn>>

SWriteOn ==
    /\ phase = "dead" /\ phase' \in {"again", "dead"}
    /\ sent' \in Nat /\ sent' > sent
    /\ UNCHANGED <<got, torn>>

STakeBehind ==
    /\ phase = "again" /\ ~torn
    /\ \E b \in 1..sent :
          /\ \A i \in 1..Len(got) : got[i] < b
          /\ got' = Append(got, b)
    /\ UNCHANGED <<phase, sent, torn>>

STear ==
    /\ got # <<>> /\ torn' = TRUE
    /\ UNCHANGED <<phase, sent, got>>

SClose ==
    /\ phase \in {"idle", "dead"} /\ phase' = "closed"
    /\ UNCHANGED <<sent, got, torn>>

SNext ==
    \/ SOpen \/ SWrite \/ STake \/ SDone \/ SFail \/ STear \/ SClose
    \/ SWriteOn \/ STakeBehind

SSpec == SInit /\ [][SNext]_streamVars
=============================================================================
