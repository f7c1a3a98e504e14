---------------------------- MODULE LedgerData ----------------------------
(***************************************************************************)
(* The values the transaction ledger is made of: rows of `transactions`,   *)
(* the snapshots repository._snapshot takes of them, and the rows of       *)
(* `audit_log`.  Shared by AuditedLedger (what the ledger promises) and    *)
(* Ledger (database sessions that interleave).                             *)
(***************************************************************************)
EXTENDS Naturals, Sequences

CONSTANTS
    Ids,        \* primary keys, uuid4: each is used for at most one row
    Keys,       \* idempotency keys callers choose
    NoKey,      \* idempotency_key IS NULL
    Columns,    \* the audited columns other than deleted_at
    Values,     \* what a column can hold
    NoRow       \* no row with this primary key

ASSUME NoKeyAssumption == NoKey \notin Keys
ASSUME NoRowAssumption ==
    NoRow \notin [key : Keys \cup {NoKey}, data : [Columns -> Values], deleted : BOOLEAN]

Data == [Columns -> Values]

(* models.Transaction.  The timestamps other than deleted_at, the source   *)
(* and the raw input never influence another statement and are left out.   *)
Row == [key : Keys \cup {NoKey}, data : Data, deleted : BOOLEAN]

(* repository._snapshot: every audited column and whether the row is deleted. *)
Snapshot == [data : Data, deleted : BOOLEAN]
SnapshotOf(row) == [data |-> row.data, deleted |-> row.deleted]

(* models.AuditLog.  `at` has the server default now(), which in PostgreSQL is  *)
(* the time the transaction STARTED: here the number of the transaction in the  *)
(* order they began.  A create entry has only a "new" snapshot; before repeats  *)
(* it.                                                                          *)
Entry == [id : Ids, action : {"create", "update", "delete"}, at : Nat,
          before : Snapshot, after : Snapshot]

(* The columns on which an entry's two snapshots differ.  They are also the     *)
(* columns of the UPDATE the ORM emits: it writes what differs from the values  *)
(* it loaded and nothing else.                                                  *)
Changed(before, after) == {c \in Columns : before.data[c] # after.data[c]}

(* What an UPDATE of the columns that differ between two snapshots makes of a   *)
(* row, whatever the row holds by then.                                         *)
Patched(row, before, after) ==
    [key |-> row.key,
     data |-> [c \in Columns |-> IF c \in Changed(before, after)
                                 THEN after.data[c] ELSE row.data[c]],
     deleted |-> IF before.deleted = after.deleted THEN row.deleted ELSE after.deleted]
============================================================================
