------------------------------- MODULE MCDesk -------------------------------
(* Instance of Desk for TLC.  Users and transactions are interchangeable.     *)
EXTENDS Desk, TLC

Symmetry == Permutations(Users) \cup Permutations(TxIds)
============================================================================
