---------------------------- MODULE MCPrintTest ----------------------------
(***************************************************************************)
(* Instances of PrintTest for TLC.                                         *)
(***************************************************************************)
EXTENDS PrintTest, TLC

CONSTANTS p1, p2

Twins == (p1 :> "002a") @@ (p2 :> "002a")
=============================================================================
