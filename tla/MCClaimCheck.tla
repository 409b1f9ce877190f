---------------------------- MODULE MCClaimCheck ----------------------------
(***************************************************************************)
(* An instance of ClaimCheck for TLC.                                      *)
(***************************************************************************)
EXTENDS ClaimCheck, TLC

CONSTANTS p1, p2

\* A P1102, which is verified, and a P1006, which is not.
Family == (p1 :> "002a") @@ (p2 :> "3e17")
=============================================================================
