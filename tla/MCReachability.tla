---------------------------- MODULE MCReachability -----------------------------
(***************************************************************************)
(* Reachability for TLC: handles are interchangeable, and no definition    *)
(* tells two of them apart.                                                *)
(***************************************************************************)
EXTENDS Reachability, TLC

Symmetry == Permutations(Handle)
===============================================================================
