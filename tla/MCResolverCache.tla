--------------------------- MODULE MCResolverCache ----------------------------
(***************************************************************************)
(* ResolverCache for TLC.  The targets that change are interchangeable,    *)
(* and so are the others, and the requests: no definition tells two of     *)
(* them apart, and only invariants are checked.                            *)
(***************************************************************************)
EXTENDS ResolverCache, TLC

Symmetry ==
  Permutations(Changing) \cup Permutations(Key \ Changing) \cup Permutations(Caller)
===============================================================================
