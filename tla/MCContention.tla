---------------------------- MODULE MCContention ----------------------------
(***************************************************************************)
(* An instance of Contention for TLC.                                      *)
(***************************************************************************)
EXTENDS Contention, TLC

CONSTANTS p1

One == (p1 :> "002a")

\* The server, and a user who tries one of the other programs.
ServerAndUser == ("server" :> {"session"}) @@ ("user" :> {"check", "test"})
=============================================================================
