---------------------------- MODULE MCUsbSession ----------------------------
(***************************************************************************)
(* Instances of UsbSession for TLC: one session or two, on two printers.   *)
(***************************************************************************)
EXTENDS UsbSessionInv, TLC

CONSTANTS p1, p2

\* Two LaserJet P1102, told apart by their serial numbers only.
Twins == (p1 :> "002a") @@ (p2 :> "002a")

\* A printer whose row has no no-reattach quirk.
Quirkless == (p1 :> "new") @@ (p2 :> "002a")

\* The table with one verified row more.
GrownTable ==
    ("new" :> [P1102 EXCEPT !.no_reattach = FALSE]) @@ hplp_models
=============================================================================
