----------------------------- MODULE MCCarrier -----------------------------
(***************************************************************************)
(* Instances of Carrier for TLC: two servers, connected to with automatic  *)
(* reconnection on for both, or on for one and off for the other.          *)
(***************************************************************************)
EXTENDS Carrier

BothOn == {<<"a", TRUE>>, <<"b", TRUE>>}
OneOff == {<<"a", TRUE>>, <<"b", FALSE>>}
=============================================================================
