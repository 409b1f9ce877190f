-------------------------- MODULE MCTransportWatch --------------------------
(***************************************************************************)
(* Instances of TransportWatch for TLC.                                    *)
(***************************************************************************)
EXTENDS TransportWatch, TLC

CONSTANTS p1, p2

Twins == (p1 :> "002a") @@ (p2 :> "002a")
=============================================================================
