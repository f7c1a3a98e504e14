------------------------------ MODULE MCLedger ------------------------------
(* Instance of Ledger for TLC.  Two MCP callers are interchangeable, as are  *)
(* row ids and column values.                                                *)
EXTENDS Ledger, TLC

Symmetry == Permutations(Ids) \cup Permutations(Values)
                \cup Permutations(Sessions \ UiSessions) \cup Permutations(UiSessions)
============================================================================
