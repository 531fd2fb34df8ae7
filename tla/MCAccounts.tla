------------------------------ MODULE MCAccounts -------------------------------
(***************************************************************************)
(* Accounts for TLC.  Log-ins, deletions, addresses and people are         *)
(* interchangeable; tokens and ids are numbers.                            *)
(***************************************************************************)
EXTENDS Accounts, TLC

Symmetry == Permutations(Login) \cup Permutations(Deleter) \cup Permutations(Address) \cup Permutations(Person)
===============================================================================
