---------------------------- MODULE MCRasterJob ----------------------------
(***************************************************************************)
(* An instance of RasterJob for TLC: one header the callbacks take and one *)
(* for each reason they refuse a page or a line.                           *)
(***************************************************************************)
EXTENDS RasterJob

A4 == [bits |-> 1, paper |-> 9, geometry |-> 1, height |-> 2, wide |-> FALSE]

SomeHeaders == {
    A4,
    [A4 EXCEPT !.height = 1],
    [A4 EXCEPT !.geometry = 2],
    [A4 EXCEPT !.paper = 11],
    [A4 EXCEPT !.paper = 0],
    [A4 EXCEPT !.bits = 8],
    [A4 EXCEPT !.wide = TRUE] }
=============================================================================
