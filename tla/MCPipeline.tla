------------------------------ MODULE MCPipeline ------------------------------
(***************************************************************************)
(* Instances of Pipeline for TLC: the pings of each run and who they are   *)
(* addressed to.                                                           *)
(***************************************************************************)
EXTENDS Pipeline, TLC

CONSTANTS p1, p2, p3, a1, a2

\* Two pings to one recipient and one to another.
ToTwoAndOne == p1 :> a1 @@ p2 :> a1 @@ p3 :> a2

\* One ping to each of two recipients.
ToEach == p1 :> a1 @@ p2 :> a2
===============================================================================
