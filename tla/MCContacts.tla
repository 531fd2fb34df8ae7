------------------------------ MODULE MCContacts -------------------------------
(***************************************************************************)
(* Contacts for TLC: pages and syncs are interchangeable.                  *)
(***************************************************************************)
EXTENDS Contacts, TLC

Symmetry == Permutations(Device) \cup Permutations(Sync)
===============================================================================
