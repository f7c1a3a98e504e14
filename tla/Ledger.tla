------------------------------- MODULE Ledger -------------------------------
(***************************************************************************)
(* core/repository.py on transactions, as run by concurrent callers of     *)
(* core/db.session_scope: MCP tool calls and requests of the internal UI.  *)
(*                                                                         *)
(* A session is one database transaction at PostgreSQL's default isolation *)
(* level, READ COMMITTED: a SELECT sees what is committed when it runs, an *)
(* UPDATE waits for the lock of its row and then writes a new version of   *)
(* the row AS COMMITTED BY THEN, an INSERT waits for an open transaction   *)
(* that inserted the same unique key, and nothing is visible before COMMIT.*)
(* Between its SELECT and its UPDATE a session works on the copy in its    *)
(* identity map.                                                           *)
(***************************************************************************)
EXTENDS LedgerData

CONSTANTS
    Sessions,    \* callers, each running one database transaction at a time
    UiSessions,  \* those that serve a request of the internal UI
    MaxBegun     \* bound on the number of transactions begun

ASSUME UiSessionsAssumption == UiSessions \subseteq Sessions
ASSUME MaxBegunAssumption == MaxBegun \in Nat

VARIABLES
    rows,       \* `transactions` as committed: primary key -> row or NoRow
    audit,      \* `audit_log` as committed, in commit order
    sess,       \* what each caller's session is doing
    replies,    \* every answer a caller has been sent
    begun       \* database transactions begun so far: the clock of now()

vars == <<rows, audit, sess, replies, begun>>

Idle == [pc |-> "idle"]

(* A call and its database transaction: "open" after its SELECT, "flushed" after *)
(* the INSERT or UPDATE, "answered" when its HTTP response has left and the      *)
(* commit is still to come, "committed" when the transaction of an MCP tool is   *)
(* over and its answer is still to come.  before and after are the snapshots for *)
(* its audit entry, tuple the row version it wrote, NoRow if it wrote none.      *)
Tx == [pc : {"open", "flushed", "answered", "committed"},
       op : {"create", "update", "delete"}, at : Nat, id : Ids, key : Keys \cup {NoKey},
       before : Snapshot, after : Snapshot, tuple : Row \cup {NoRow}]

(* An answer: what was asked and in which transaction.  "existing" is the       *)
(* answer to a retry that found its row, "missing" the None of an update or the *)
(* False of a delete, "raised" an exception out of the call.                    *)
Reply == [status : {"ok", "existing", "missing", "raised"}, session : Sessions,
          at : Nat, id : Ids, key : Keys \cup {NoKey}]

Init ==
    /\ rows = [i \in Ids |-> NoRow]
    /\ audit = << >>
    /\ sess = [s \in Sessions |-> Idle]
    /\ replies = {}
    /\ begun = 0

IsOpen(s) == sess[s].pc \in {"open", "flushed", "answered"}
HasFlushed(s) == sess[s].pc \in {"flushed", "answered"}
Wrote(s) == HasFlushed(s) /\ sess[s].tuple # NoRow

(* Mutant: an id that is only known not to be in the table.                      *)
NotInTable(i) == rows[i] = NoRow

(* uuid4 never repeats: the id is neither a row's nor that of a row being made.  *)
Fresh(i) == /\ rows[i] = NoRow
            /\ \A s \in Sessions : IsOpen(s) => sess[s].id # i

(* Mutant: uniqueness among rows that are not deleted.                           *)
TakenByLive(k) == \E i \in Ids : rows[i] # NoRow /\ rows[i].key = k /\ k # NoKey
                                /\ ~rows[i].deleted

(* What the UNIQUE constraint sees: deleted rows too.                            *)
Taken(k) == k # NoKey /\ \E i \in Ids : rows[i] # NoRow /\ rows[i].key = k

(* What create_transaction looks up: rows that are not deleted.                  *)
Finds(k, i) == /\ k # NoKey
               /\ rows[i] # NoRow
               /\ rows[i].key = k
               /\ ~rows[i].deleted

Live(i) == rows[i] # NoRow /\ ~rows[i].deleted

Answer(s, status, t) ==
    replies' = replies \cup
        {[status |-> status, session |-> s, at |-> t.at, id |-> t.id, key |-> t.key]}

Starts(s) == /\ sess[s] = Idle
             /\ begun < MaxBegun
             /\ begun' = begun + 1
----------------------------------------------------------------------------
(* create_transaction with a key some live row has: that row, unchanged.  The    *)
(* transaction only read.  The UI's form has no idempotency key.                 *)
ReturnExisting(s) ==
    /\ s \notin UiSessions
    /\ Starts(s)
    /\ \E k \in Keys, i \in Ids :
          /\ Finds(k, i)
          /\ Answer(s, "existing", [at |-> begun, id |-> i, key |-> k])
    /\ UNCHANGED <<rows, audit, sess>>

(* create_transaction up to the flush: no live row has the key.                  *)
BeginCreate(s) ==
    /\ Starts(s)
    /\ \E k \in Keys \cup {NoKey}, i \in Ids, d \in Data :
          /\ s \in UiSessions => k = NoKey
          /\ \A j \in Ids : ~Finds(k, j)
          /\ Fresh(i)
          /\ LET new == [data |-> d, deleted |-> FALSE] IN
             sess' = [sess EXCEPT ![s] =
                 [pc |-> "open", op |-> "create", at |-> begun, id |-> i, key |-> k,
                  before |-> new, after |-> new, tuple |-> NoRow]]
    /\ UNCHANGED <<rows, audit, replies>>

(* session.get and the assignments of update_transaction or of                   *)
(* soft_delete_transaction, made on the session's own copy of the row.  An       *)
(* update may set any columns to anything, including to what they held.  Only    *)
(* the UI deletes: there is no MCP tool for it.                                  *)
BeginChange(s, op) ==
    /\ Starts(s)
    /\ \E i \in Ids, d \in Data :
          /\ Live(i)
          /\ op = "delete" => s \in UiSessions /\ d = rows[i].data
          /\ sess' = [sess EXCEPT ![s] =
                 [pc |-> "open", op |-> op, at |-> begun, id |-> i, key |-> rows[i].key,
                  before |-> SnapshotOf(rows[i]),
                  after |-> [data |-> d, deleted |-> (op = "delete")], tuple |-> NoRow]]
    /\ UNCHANGED <<rows, audit, replies>>

(* The same two calls on a row that is deleted: None, or False.                  *)
RefuseChange(s) ==
    /\ Starts(s)
    /\ \E i \in Ids :
          /\ rows[i] # NoRow /\ rows[i].deleted
          /\ Answer(s, "missing", [at |-> begun, id |-> i, key |-> NoKey])
    /\ UNCHANGED <<rows, audit, sess>>
----------------------------------------------------------------------------
(* Mutants: an INSERT that waits for nobody, or for all who mean to insert.      *)
InsertsAtOnce(s) == FALSE
InsertWaitsForOpen(s) ==
    \E u \in Sessions \ {s} :
        /\ IsOpen(u) /\ sess[u].op = "create"
        /\ sess[u].key # NoKey /\ sess[u].key = sess[s].key

(* Another open transaction has inserted the same idempotency key: the unique    *)
(* index makes this INSERT wait for that transaction's outcome.                  *)
InsertWaits(s) ==
    \E u \in Sessions \ {s} :
        /\ Wrote(u) /\ sess[u].op = "create"
        /\ sess[u].key # NoKey /\ sess[u].key = sess[s].key

(* Mutant: rows are not locked.                                                  *)
UpdatesAtOnce(s) == FALSE

(* An open transaction has written the same row.                                 *)
UpdateWaits(s) ==
    \E u \in Sessions : Wrote(u) /\ sess[u].op # "create" /\ sess[u].id = sess[s].id

(* The row an INSERT adds.                                                       *)
NewRow(t) == [key |-> t.key, data |-> t.after.data, deleted |-> FALSE]

(* Mutant: every column of the session's copy is written back.                   *)
WholeCopy(t) == [key |-> t.key, data |-> t.after.data, deleted |-> t.after.deleted]

(* The version an UPDATE writes: the columns this session changed, over the row  *)
(* as it is committed when the lock is granted.                                  *)
NewVersion(t) == Patched(rows[t.id], t.before, t.after)

FlushInsert(s) ==
    /\ sess[s].pc = "open" /\ sess[s].op = "create"
    /\ ~InsertWaits(s)
    /\ ~Taken(sess[s].key)
    /\ sess' = [sess EXCEPT ![s].pc = "flushed", ![s].tuple = NewRow(sess[s])]
    /\ UNCHANGED <<rows, audit, replies, begun>>

(* The key has been taken, by a row the lookup did not see (deleted) or by one   *)
(* committed since: IntegrityError, session_scope rolls back and re-raises.      *)
FlushInsertFails(s) ==
    /\ sess[s].pc = "open" /\ sess[s].op = "create"
    /\ ~InsertWaits(s)
    /\ Taken(sess[s].key)
    /\ sess' = [sess EXCEPT ![s] = Idle]
    /\ Answer(s, "raised", sess[s])
    /\ UNCHANGED <<rows, audit, begun>>

FlushUpdate(s) ==
    /\ sess[s].pc = "open" /\ sess[s].op # "create"
    /\ sess[s].before # sess[s].after
    /\ ~UpdateWaits(s)
    /\ sess' = [sess EXCEPT ![s].pc = "flushed", ![s].tuple = NewVersion(sess[s])]
    /\ UNCHANGED <<rows, audit, replies, begun>>

(* Nothing differs from what was loaded: the ORM emits no UPDATE, so nothing is  *)
(* locked, but the audit entry is still added.                                   *)
FlushNothing(s) ==
    /\ sess[s].pc = "open" /\ sess[s].op # "create"
    /\ sess[s].before = sess[s].after
    /\ sess' = [sess EXCEPT ![s].pc = "flushed"]
    /\ UNCHANGED <<rows, audit, replies, begun>>

Flush(s) == FlushInsert(s) \/ FlushInsertFails(s) \/ FlushUpdate(s) \/ FlushNothing(s)
----------------------------------------------------------------------------
(* The handler of a UI request has returned: its redirect is sent, and the       *)
(* dependency get_db, which commits, is only torn down after that.               *)
AnswerUi(s) ==
    /\ s \in UiSessions
    /\ sess[s].pc = "flushed"
    /\ sess' = [sess EXCEPT ![s].pc = "answered"]
    /\ Answer(s, "ok", sess[s])
    /\ UNCHANGED <<rows, audit, begun>>

(* Mutant: the row itself instead of a snapshot of it.                           *)
EntryOfTuple(t) == [id |-> t.id, action |-> t.op, at |-> t.at,
                    before |-> t.before, after |-> t.tuple]

EntryOf(t) == [id |-> t.id, action |-> t.op, at |-> t.at,
               before |-> t.before, after |-> t.after]

(* A UI request is over with its commit; an MCP tool has yet to answer.          *)
Ends(s) == sess' = IF s \in UiSessions THEN [sess EXCEPT ![s] = Idle]
                   ELSE [sess EXCEPT ![s].pc = "committed"]

CommitRows(t) == IF t.tuple = NoRow THEN rows ELSE [rows EXCEPT ![t.id] = t.tuple]

(* session_scope's commit: INSERT of the audit entry and COMMIT.                 *)
Commit(s) ==
    /\ sess[s].pc = (IF s \in UiSessions THEN "answered" ELSE "flushed")
    /\ rows' = CommitRows(sess[s])
    /\ audit' = Append(audit, EntryOf(sess[s]))
    /\ Ends(s)
    /\ UNCHANGED <<replies, begun>>

(* Mutant: the tool answers first and commits afterwards, as the UI does.        *)
AnswersFirst(s) ==
    /\ s \notin UiSessions
    /\ sess[s].pc = "flushed"
    /\ Answer(s, "ok", sess[s])
    /\ UNCHANGED <<rows, audit, sess, begun>>

(* An MCP tool answers after its session_scope has closed.                       *)
AnswerChat(s) ==
    /\ sess[s].pc = "committed"
    /\ sess' = [sess EXCEPT ![s] = Idle]
    /\ Answer(s, "ok", sess[s])
    /\ UNCHANGED <<rows, audit, begun>>

(* The server dies, or its pipe is gone, after the commit: nobody is told.       *)
AnswerLost(s) ==
    /\ sess[s].pc = "committed"
    /\ sess' = [sess EXCEPT ![s] = Idle]
    /\ UNCHANGED <<rows, audit, replies, begun>>

(* Any other exception, the process dying or the connection being lost: the      *)
(* database rolls back, and no answer was sent (or only the UI's, earlier).      *)
Abort(s) ==
    /\ IsOpen(s)
    /\ sess' = [sess EXCEPT ![s] = Idle]
    /\ UNCHANGED <<rows, audit, replies, begun>>

Step(s) == Flush(s) \/ AnswerUi(s) \/ Commit(s) \/ AnswerChat(s)

Next == \E s \in Sessions :
    \/ ReturnExisting(s) \/ BeginCreate(s) \/ RefuseChange(s)
    \/ \E op \in {"update", "delete"} : BeginChange(s, op)
    \/ Step(s) \/ Abort(s) \/ AnswerLost(s)

(* A session runs to its end: nothing in it waits but the two lock waits, and    *)
(* PostgreSQL grants a lock once its holder is gone.  Nobody must call.          *)
Fairness == \A s \in Sessions : WF_vars(Step(s))

Spec == Init /\ [][Next]_vars
FairSpec == Spec /\ Fairness
----------------------------------------------------------------------------
TypeOK ==
    /\ rows \in [Ids -> Row \cup {NoRow}]
    /\ audit \in Seq(Entry)
    /\ sess \in [Sessions -> Tx \cup {Idle}]
    /\ replies \subseteq Reply
    /\ begun \in Nat

(* Viewed without its sessions, the ledger does only what AuditedLedger allows:  *)
(* rows change exactly as the entry appended with them says, entries are never   *)
(* altered, a key is never given to a second row (repository.py:8-10).           *)
Audited == INSTANCE AuditedLedger WITH rows <- rows, audit <- audit
ImplementsAuditedLedger == Audited!Spec

(* Replaying the log's differences in commit order gives the ledger, although    *)
(* every snapshot in it was taken from a session's possibly stale copy.          *)
LedgerReplaysFromAudit == Audited!Replay

(* The idempotency key is never on two rows, not even counting a row an open     *)
(* transaction has inserted (models.py:97, repository.py:48-56).                 *)
KeyOf(i, k) == \/ rows[i] # NoRow /\ rows[i].key = k
               \/ \E s \in Sessions : /\ Wrote(s) /\ sess[s].op = "create"
                                      /\ sess[s].id = i /\ sess[s].key = k
OneRowPerKey == \A k \in Keys, i, j \in Ids : KeyOf(i, k) /\ KeyOf(j, k) => i = j

(* However often record_transaction is retried with one key, and whatever        *)
(* happens to the row in between, all the answers that name a row name the same. *)
Named(r) == r.status \in {"ok", "existing"} /\ r.key # NoKey
OneAnswerPerKey ==
    \A r, q \in replies : Named(r) /\ Named(q) /\ r.key = q.key => r.id = q.id

(* What an MCP tool told its caller is true of the log, whatever was lost,       *)
(* retried or overlapped: "ok" is one committed write, in the log once, of the   *)
(* row it names; "existing" names a row that an earlier call recorded under the  *)
(* key; a call that raised or found no row has left nothing (server.py:132-146). *)
EntriesOf(at) == {n \in DOMAIN audit : audit[n].at = at}
TrueOfTheLog(r) ==
    /\ r.status = "ok" => \E n \in DOMAIN audit : EntriesOf(r.at) = {n} /\ audit[n].id = r.id
    /\ r.status = "existing" =>
          /\ rows[r.id] # NoRow /\ rows[r.id].key = r.key
          /\ \E n \in DOMAIN audit : /\ audit[n].id = r.id /\ audit[n].action = "create"
                                     /\ audit[n].at < r.at
    /\ r.status # "ok" => EntriesOf(r.at) = {}
ChatAnswersAreTrue == \A r \in replies : r.session \notin UiSessions => TrueOfTheLog(r)

(* A row's history page (entries ordered by `at`) starts with its creation, and  *)
(* the row is created once.                                                      *)
HistoryStartsWithCreate ==
    \A m, n \in DOMAIN audit :
        audit[m].id = audit[n].id /\ audit[m].action = "create" /\ m # n
            => m < n /\ audit[n].action # "create" /\ audit[m].at < audit[n].at

(* A deleted row is never live again and never loses its key, even when an       *)
(* update that read it before the delete commits after it.                       *)
DeletedForEver ==
    [][\A i \in Ids : rows[i] # NoRow /\ rows[i].deleted =>
          rows'[i] # NoRow /\ rows'[i].deleted /\ rows'[i].key = rows[i].key]_vars

(* The sessions that s has to wait for before its statement is executed: those   *)
(* that inserted its key, or have written its row.                               *)
Holders(s) ==
    {u \in Sessions \ {s} :
        /\ Wrote(u) /\ sess[s].pc = "open"
        /\ IF sess[s].op = "create"
           THEN /\ sess[u].op = "create"
                /\ sess[u].key # NoKey /\ sess[u].key = sess[s].key
           ELSE /\ sess[s].before # sess[s].after
                /\ sess[u].op # "create" /\ sess[u].id = sess[s].id}

(* A session that waits, for a key or for a row, waits for one other, which has  *)
(* written, waits for nobody and only has to answer and commit: lock waits have  *)
(* no cycles and no chains.                                                      *)
OneHolderWhoGoesOn ==
    \A s \in Sessions : Holders(s) # {} =>
        \E u \in Sessions : /\ Holders(s) = {u} /\ Holders(u) = {}
                            /\ sess[u].pc \in {"flushed", "answered"}

(* Every call ends: no cycle of lock waits, no session left waiting for a lock   *)
(* nobody holds, no answer left unsent.                                          *)
EverySessionEnds == \A s \in Sessions : sess[s] # Idle ~> sess[s] = Idle
----------------------------------------------------------------------------
(* The inductive invariant behind these properties.                              *)

(* What an open session holds still fits the committed rows: nobody else has     *)
(* created its row, or changed the row since this session locked it.             *)
Fits(s) ==
    LET t == sess[s] IN
    /\ t.at < begun
    /\ t.pc = "open" => t.tuple = NoRow
    /\ t.op = "create" =>
          /\ rows[t.id] = NoRow
          /\ s \in UiSessions => t.key = NoKey
          /\ t.before = t.after /\ ~t.after.deleted
          /\ HasFlushed(s) => t.tuple = NewRow(t) /\ ~Taken(t.key)
    /\ t.op # "create" =>
          /\ rows[t.id] # NoRow /\ rows[t.id].key = t.key
          /\ ~t.before.deleted /\ t.after.deleted = (t.op = "delete")
          /\ HasFlushed(s) =>
                t.tuple = IF t.before = t.after THEN NoRow ELSE NewVersion(t)
PendingFits == \A s \in Sessions : IsOpen(s) => Fits(s)

(* No two open sessions make the same row, have written the same row, or have    *)
(* inserted the same key.                                                        *)
OneWriterEach ==
    \A s, u \in Sessions : s # u /\ IsOpen(s) /\ IsOpen(u) =>
        /\ sess[s].op = "create" => sess[u].id # sess[s].id
        /\ Wrote(s) /\ Wrote(u) => sess[s].id # sess[u].id
        /\ Wrote(s) /\ Wrote(u) /\ sess[s].op = "create" /\ sess[u].op = "create"
              => sess[s].key = NoKey \/ sess[s].key # sess[u].key

KeysUnique ==
    \A i, j \in Ids : rows[i] # NoRow /\ rows[j] # NoRow /\ rows[i].key = rows[j].key
                         => rows[i].key = NoKey \/ i = j

(* Everything the proofs carry from step to step.                                *)
IInv == TypeOK /\ PendingFits /\ OneWriterEach /\ KeysUnique
----------------------------------------------------------------------------
(* What the documents say of the program and it does not do.                     *)

(* ADR-0003: "The ledger and its history can never disagree", and the history is *)
(* "served straight from this table": on the page, ordered by `at`, the last     *)
(* entry that changes a column shows what the column holds.                      *)
HistoryPageEndsWithTheRow ==
    \A n \in DOMAIN audit : \A c \in Columns :
        LET i == audit[n].id IN
        /\ Audited!Sets(audit[n], i, c)
        /\ \A m \in DOMAIN audit : audit[m].at > audit[n].at => ~Audited!Sets(audit[m], i, c)
        => rows[i].data[c] = audit[n].after.data[c]

(* server.py: errors are "never a raised exception surfaced to the client".      *)
RetriesNeverRaise == \A r \in replies : r.status # "raised"
============================================================================
