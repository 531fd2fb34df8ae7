-------------------------------- MODULE MCGuard --------------------------------
(***************************************************************************)
(* Guard for TLC: one sender and two group handles, of which one may be    *)
(* pinged twice a day, a cap of one group handle a day, two tokens an      *)
(* hour.  Requests are interchangeable.                                    *)
(***************************************************************************)
EXTENDS Guard, TLC

CONSTANTS s1, t1, t2

Caps == [stage \in {"hour", "day", "target"} |-> 2]
Hourly == {<<"hour", s1>>}
LimitsOne == t1 :> 2
Limits == (t1 :> 2) @@ (t2 :> 1)
Symmetry == Permutations(Request)
===============================================================================
