------------------------------ MODULE MCBackup ------------------------------
(* Instance of Backup for TLC.  Keys are interchangeable.                     *)
EXTENDS Backup, TLC

KeySymmetry == Permutations(Keys)
============================================================================
