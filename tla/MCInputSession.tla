--------------------------- MODULE MCInputSession ---------------------------
(***************************************************************************)
(* Instances of InputSession for TLC.  A 3 x 3 screen has every kind of    *)
(* position: the edges HarmonyOS refuses, the far edges, and the inside.   *)
(***************************************************************************)
EXTENDS InputSession

Corners == {<<0, 0>>, <<2, 1>>}
Steps == {-2, 1}
=============================================================================
