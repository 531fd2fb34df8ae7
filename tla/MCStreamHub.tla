----------------------------- MODULE MCStreamHub ------------------------------
(***************************************************************************)
(* StreamHub for TLC: two streams of one account.                          *)
(***************************************************************************)
EXTENDS StreamHub, TLC

CONSTANTS c1, c2, a1

OfOne == c1 :> a1 @@ c2 :> a1
===============================================================================
