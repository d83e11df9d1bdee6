---------------------------- MODULE MCCheckout ----------------------------
(***************************************************************************)
(* Instances of Checkout for TLC.                                          *)
(***************************************************************************)
EXTENDS Checkout

CONSTANTS r1, r2, s1

TwoRequests   == {r1, r2}
OneSession    == {s1}
=============================================================================
