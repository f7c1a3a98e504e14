--------------------------- MODULE AuditedLedger ---------------------------
(***************************************************************************)
(* What core/repository.py promises of transactions, with no sessions in   *)
(* it: every write of a row happens together with exactly one audit entry, *)
(* an entry's differences are exactly what the write did to the row, and   *)
(* an idempotency key names at most one row for ever.                      *)
(***************************************************************************)
EXTENDS LedgerData

VARIABLES
    rows,       \* primary key -> row of `transactions`, or NoRow
    audit       \* audit_log, in the order its entries became visible

vars == <<rows, audit>>

Unused(k) == k # NoKey => \A i \in Ids : rows[i] # NoRow => rows[i].key # k

Init ==
    /\ rows = [i \in Ids |-> NoRow]
    /\ audit = << >>

(* create_transaction, as its caller sees it *)
Record(e, k) ==
    /\ e.action = "create"
    /\ rows[e.id] = NoRow
    /\ Unused(k)
    /\ ~e.after.deleted
    /\ rows' = [rows EXCEPT ![e.id] = [key |-> k, data |-> e.after.data, deleted |-> FALSE]]
    /\ audit' = Append(audit, e)

(* update_transaction and soft_delete_transaction, as their callers see them.   *)
(* Only a delete changes deleted_at, and only from NULL.                        *)
Amend(e) ==
    /\ e.action \in {"update", "delete"}
    /\ rows[e.id] # NoRow
    /\ ~e.before.deleted
    /\ e.after.deleted = (e.action = "delete")
    /\ rows' = [rows EXCEPT ![e.id] = Patched(rows[e.id], e.before, e.after)]
    /\ audit' = Append(audit, e)

(* One entry is appended, and the rows change as it says.                       *)
Next ==
    LET e == audit'[Len(audit) + 1] IN
    /\ Len(audit') = Len(audit) + 1
    /\ e \in Entry
    /\ Amend(e) \/ \E k \in Keys \cup {NoKey} : Record(e, k)

Spec == Init /\ [][Next]_vars
----------------------------------------------------------------------------
TypeOK ==
    /\ rows \in [Ids -> Row \cup {NoRow}]
    /\ audit \in Seq(Entry)

(* An entry that created row i, and one that set column c of it.               *)
Creates(e, i) == e.id = i /\ e.action = "create"
Sets(e, i, c) == e.id = i /\ (e.action = "create" \/ c \in Changed(e.before, e.after))

(* Replaying the differences the audit log records, in the order the entries    *)
(* became visible, gives the ledger: a column of a row holds what the last      *)
(* entry that changed it says, and a row is there exactly when it has a create  *)
(* entry, and deleted exactly when it has a delete entry.                       *)
Replay ==
    /\ \A i \in Ids : rows[i] # NoRow <=> \E n \in DOMAIN audit : Creates(audit[n], i)
    /\ \A i \in Ids : rows[i] # NoRow =>
          (rows[i].deleted <=> \E n \in DOMAIN audit :
                                   audit[n].id = i /\ audit[n].action = "delete")
    /\ \A n \in DOMAIN audit : \A c \in Columns :
          LET i == audit[n].id IN
          /\ Sets(audit[n], i, c)
          /\ \A m \in DOMAIN audit : m > n => ~Sets(audit[m], i, c)
          => rows[i].data[c] = audit[n].after.data[c]
============================================================================
