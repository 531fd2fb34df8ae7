------------------------------- MODULE MCGroups --------------------------------
(***************************************************************************)
(* GroupGate for TLC.  The accounts that do not ping are interchangeable,  *)
(* and so are the codes; no property tells one of them from another.       *)
(***************************************************************************)
EXTENDS GroupGate, TLC

Symmetry == Permutations(Account \ Sender) \cup Permutations(Code)
===============================================================================
