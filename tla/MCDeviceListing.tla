-------------------------- MODULE MCDeviceListing --------------------------
(***************************************************************************)
(* An instance of DeviceListing for TLC.                                   *)
(***************************************************************************)
EXTENDS DeviceListing, TLC

CONSTANTS p1, p2, p3, p4

\* A P1102, a P1006, a device of another kind and a second P1102: of the first,
\* the second and the fourth devices.cfg gives a serial number to two, so that
\* one is verified and can be named, one is not verified, and one has no name.
Bus == (p1 :> "002a") @@ (p2 :> "3e17") @@ (p3 :> "mouse") @@ (p4 :> "002a")

\* Up to three characters of: space, '%', '/', '0', '2', '5'.
ShortStrings == SeqOf({32, 37, 47, 48, 50, 53}, 3)

\* Up to three of: "%20", "%2F", "%2f", "%00", "%G0", "%", "2", a space; and
\* four of: "%20", "2".  A space may stand in front, where it is skipped, and
\* behind, where it ends the scan.
Pieces == {<<37, 50, 48>>, <<37, 50, 70>>, <<37, 50, 102>>, <<37, 48, 48>>,
           <<37, 71, 48>>, <<37>>, <<50>>, <<32>>}

Written ==
    {FlattenSeq(s) : s \in SeqOf(Pieces, 3)}
    \cup {FlattenSeq(s) : s \in [1..4 -> {<<37, 50, 48>>, <<50>>}]}
=============================================================================
