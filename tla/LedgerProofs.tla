---------------------------- MODULE LedgerProofs ----------------------------
(***************************************************************************)
(* Ledger for any set of sessions, rows, keys, columns and values: its     *)
(* types, the locking invariant, the uniqueness of idempotency keys, that  *)
(* it implements AuditedLedger, what its answers mean, that its history is *)
(* in order, and that its lock waits have no cycles.                       *)
(***************************************************************************)
EXTENDS Ledger, TLAPS

AL == INSTANCE AuditedLedgerProofs WITH rows <- rows, audit <- audit

(* A session is idle, an open database transaction, or one that has committed    *)
(* and not yet answered.                                                         *)
LEMMA SessionKinds ==
    ASSUME TypeOK, NEW s \in Sessions
    PROVE  /\ sess[s] = Idle <=> sess[s].pc = "idle"
           /\ sess[s] # Idle <=> sess[s] \in Tx
           /\ IsOpen(s) => sess[s] # Idle
           /\ ~IsOpen(s) => sess[s] = Idle \/ sess[s].pc = "committed"
  BY DEF TypeOK, IsOpen, Tx, Idle

(* A commit leaves the other sessions alone. *)
LEMMA CommitLeaves ==
    ASSUME TypeOK, NEW s \in Sessions, Commit(s)
    PROVE  begun' = begun /\ \A u \in Sessions \ {s} : sess'[u] = sess[u]
  BY DEF Commit, Ends, TypeOK

(* The transaction of a session is over with its commit. *)
LEMMA EndedSession ==
    ASSUME TypeOK, NEW s \in Sessions, sess[s] \in Tx, Ends(s)
    PROVE  /\ sess' \in [Sessions -> Tx \cup {Idle}]
           /\ ~IsOpen(s)'
           /\ \A u \in Sessions \ {s} : sess'[u] = sess[u]
           /\ s \in UiSessions => sess'[s] = Idle
           /\ s \notin UiSessions => /\ sess'[s].pc = "committed" /\ sess'[s] \in Tx
                                     /\ sess'[s].at = sess[s].at /\ sess'[s].id = sess[s].id
                                     /\ sess'[s].op = sess[s].op /\ sess'[s].key = sess[s].key
<1>1. CASE s \in UiSessions
  BY <1>1 DEF Ends, TypeOK, IsOpen, Idle
<1>2. CASE s \notin UiSessions
  <2> DEFINE t == [sess[s] EXCEPT !.pc = "committed"]
  <2>1. sess' = [sess EXCEPT ![s] = t]
    BY <1>2 DEF Ends, TypeOK
  <2>2. /\ t \in Tx /\ t.pc = "committed" /\ t.at = sess[s].at /\ t.id = sess[s].id
        /\ t.op = sess[s].op /\ t.key = sess[s].key
    BY DEF Tx
  <2> HIDE DEF t
  <2> QED BY <1>2, <2>1, <2>2 DEF TypeOK, IsOpen
<1> QED BY <1>1, <1>2

(* A patched row is a row with the same key. *)
LEMMA PatchedIsRow ==
    ASSUME NEW row \in Row, NEW before \in Snapshot, NEW after \in Snapshot
    PROVE  Patched(row, before, after) \in Row /\ Patched(row, before, after).key = row.key
  BY DEF Patched, Row, Snapshot, Data

(* NoRow is not a row. *)
LEMMA RowIsSome == ASSUME NEW row \in Row PROVE row # NoRow
  BY NoRowAssumption DEF Row, Data

(* The row a session writes is a row: the one it inserts, or the next version of *)
(* the one it updates.                                                           *)
LEMMA WrittenRow ==
    ASSUME TypeOK, NEW t \in Tx
    PROVE  /\ NewRow(t) \in Row /\ NewRow(t) # NoRow /\ NewRow(t).key = t.key
           /\ rows[t.id] # NoRow => /\ NewVersion(t) \in Row
                                    /\ NewVersion(t) # NoRow
                                    /\ NewVersion(t).key = rows[t.id].key
<1>1. NewRow(t) \in Row /\ NewRow(t).key = t.key
  BY DEF NewRow, Tx, Row, Snapshot
<1>2. ASSUME rows[t.id] # NoRow PROVE NewVersion(t) \in Row /\ NewVersion(t).key = rows[t.id].key
  <2>1. rows[t.id] \in Row /\ t.before \in Snapshot /\ t.after \in Snapshot
    BY <1>2 DEF TypeOK, Tx
  <2> QED BY <2>1, PatchedIsRow DEF NewVersion
<1> QED BY <1>1, <1>2, RowIsSome

(* A flush makes one session "flushed" with the row version it wrote. *)
FlushesTo(s, r) == sess' = [sess EXCEPT ![s].pc = "flushed", ![s].tuple = r]

LEMMA FlushedSession ==
    ASSUME TypeOK, NEW s \in Sessions, IsOpen(s), NEW r \in Row \cup {NoRow}, FlushesTo(s, r)
    PROVE  /\ sess' \in [Sessions -> Tx \cup {Idle}]
           /\ sess'[s] \in Tx
           /\ sess'[s].pc = "flushed" /\ sess'[s].tuple = r
           /\ sess'[s].op = sess[s].op /\ sess'[s].at = sess[s].at
           /\ sess'[s].id = sess[s].id /\ sess'[s].key = sess[s].key
           /\ sess'[s].before = sess[s].before /\ sess'[s].after = sess[s].after
           /\ \A u \in Sessions \ {s} : sess'[u] = sess[u]
<1>1. sess[s] \in Tx
  BY SessionKinds
<1>2. sess' = [sess EXCEPT ![s] = [sess[s] EXCEPT !.pc = "flushed", !.tuple = r]]
  BY <1>1 DEF FlushesTo, TypeOK
<1> DEFINE t == [sess[s] EXCEPT !.pc = "flushed", !.tuple = r]
<1>3. /\ t \in Tx /\ t.pc = "flushed" /\ t.tuple = r
      /\ t.op = sess[s].op /\ t.at = sess[s].at /\ t.id = sess[s].id /\ t.key = sess[s].key
      /\ t.before = sess[s].before /\ t.after = sess[s].after
  BY <1>1 DEF Tx
<1> HIDE DEF t
<1>4. sess' = [sess EXCEPT ![s] = t]
  BY <1>2 DEF t
<1> QED BY <1>3, <1>4 DEF TypeOK

(* The answer just sent has the type of an answer. *)
LEMMA AnswerType ==
    ASSUME TypeOK, NEW s \in Sessions, NEW t, t.at \in Nat, t.id \in Ids,
           t.key \in Keys \cup {NoKey},
           NEW status \in {"ok", "existing", "missing", "raised"}, Answer(s, status, t)
    PROVE  replies' \subseteq Reply
  BY DEF TypeOK, Answer, Reply

(* Ledger's type invariant is preserved by every step. *)
LEMMA TypeStep == TypeOK /\ PendingFits /\ [Next]_vars => TypeOK'
<1> SUFFICES ASSUME TypeOK, PendingFits, [Next]_vars PROVE TypeOK'
  OBVIOUS
<1>1. CASE UNCHANGED vars
  BY <1>1 DEF TypeOK, vars
<1>2. ASSUME NEW s \in Sessions, ReturnExisting(s) PROVE TypeOK'
  <2>1. PICK k \in Keys, i \in Ids : Answer(s, "existing", [at |-> begun, id |-> i, key |-> k])
    BY <1>2 DEF ReturnExisting
  <2>2. replies' \subseteq Reply
    BY <2>1, AnswerType DEF TypeOK
  <2> QED BY <1>2, <2>2 DEF ReturnExisting, Starts, TypeOK
<1>3. ASSUME NEW s \in Sessions, RefuseChange(s) PROVE TypeOK'
  <2>1. PICK i \in Ids : Answer(s, "missing", [at |-> begun, id |-> i, key |-> NoKey])
    BY <1>3 DEF RefuseChange
  <2>2. replies' \subseteq Reply
    BY <2>1, AnswerType DEF TypeOK
  <2> QED BY <1>3, <2>2 DEF RefuseChange, Starts, TypeOK
<1>4. ASSUME NEW s \in Sessions, BeginCreate(s) PROVE TypeOK'
  <2>1. PICK k \in Keys \cup {NoKey}, i \in Ids, d \in Data :
           sess' = [sess EXCEPT ![s] =
               [pc |-> "open", op |-> "create", at |-> begun, id |-> i, key |-> k,
                before |-> [data |-> d, deleted |-> FALSE],
                after |-> [data |-> d, deleted |-> FALSE], tuple |-> NoRow]]
    BY <1>4 DEF BeginCreate
  <2>2. sess' \in [Sessions -> Tx \cup {Idle}]
    BY <2>1 DEF TypeOK, Tx, Snapshot
  <2> QED BY <1>4, <2>2 DEF BeginCreate, Starts, TypeOK
<1>5. ASSUME NEW s \in Sessions, NEW op \in {"update", "delete"}, BeginChange(s, op)
      PROVE  TypeOK'
  <2>1. PICK i \in Ids, d \in Data :
           /\ Live(i)
           /\ sess' = [sess EXCEPT ![s] =
               [pc |-> "open", op |-> op, at |-> begun, id |-> i, key |-> rows[i].key,
                before |-> SnapshotOf(rows[i]),
                after |-> [data |-> d, deleted |-> (op = "delete")], tuple |-> NoRow]]
    BY <1>5 DEF BeginChange
  <2>2. rows[i] \in Row
    BY <2>1 DEF Live, TypeOK
  <2>3. SnapshotOf(rows[i]) \in Snapshot /\ rows[i].key \in Keys \cup {NoKey}
    BY <2>2 DEF Row, Snapshot, SnapshotOf
  <2>4. sess' \in [Sessions -> Tx \cup {Idle}]
    BY <2>1, <2>3 DEF TypeOK, Tx, Snapshot
  <2> QED BY <1>5, <2>4 DEF BeginChange, Starts, TypeOK
<1>6. ASSUME NEW s \in Sessions, FlushInsert(s) PROVE TypeOK'
  <2>1. IsOpen(s) /\ sess[s] \in Tx
    BY <1>6, SessionKinds DEF FlushInsert, IsOpen
  <2>2. NewRow(sess[s]) \in Row /\ FlushesTo(s, NewRow(sess[s]))
    BY <1>6, <2>1, WrittenRow DEF FlushInsert, FlushesTo
  <2>3. sess' \in [Sessions -> Tx \cup {Idle}]
    BY <2>1, <2>2, FlushedSession
  <2> QED BY <1>6, <2>3 DEF FlushInsert, TypeOK
<1>7. ASSUME NEW s \in Sessions, FlushInsertFails(s) PROVE TypeOK'
  <2>1. sess[s] \in Tx
    BY <1>7, SessionKinds DEF FlushInsertFails, IsOpen
  <2>2. replies' \subseteq Reply
    BY <1>7, <2>1, AnswerType DEF FlushInsertFails, Tx
  <2> QED BY <1>7, <2>2 DEF FlushInsertFails, TypeOK
<1>8. ASSUME NEW s \in Sessions, FlushUpdate(s) PROVE TypeOK'
  <2>1. IsOpen(s) /\ sess[s] \in Tx /\ rows[sess[s].id] # NoRow
    BY <1>8, SessionKinds DEF FlushUpdate, IsOpen, PendingFits, Fits
  <2>2. NewVersion(sess[s]) \in Row /\ FlushesTo(s, NewVersion(sess[s]))
    BY <1>8, <2>1, WrittenRow DEF FlushUpdate, FlushesTo
  <2>3. sess' \in [Sessions -> Tx \cup {Idle}]
    BY <2>1, <2>2, FlushedSession
  <2> QED BY <1>8, <2>3 DEF FlushUpdate, TypeOK
<1>9. ASSUME NEW s \in Sessions, FlushNothing(s) PROVE TypeOK'
  <2>1. sess[s] \in Tx
    BY <1>9, SessionKinds DEF FlushNothing, IsOpen
  <2>2. sess' \in [Sessions -> Tx \cup {Idle}]
    BY <1>9, <2>1 DEF FlushNothing, TypeOK, Tx
  <2> QED BY <1>9, <2>2 DEF FlushNothing, TypeOK
<1>10. ASSUME NEW s \in Sessions, AnswerUi(s) PROVE TypeOK'
  <2>1. sess[s] \in Tx
    BY <1>10, SessionKinds DEF AnswerUi, IsOpen
  <2>2. sess' \in [Sessions -> Tx \cup {Idle}]
    BY <1>10, <2>1 DEF AnswerUi, TypeOK, Tx
  <2>3. replies' \subseteq Reply
    BY <1>10, <2>1, AnswerType DEF AnswerUi, Tx
  <2> QED BY <1>10, <2>2, <2>3 DEF AnswerUi, TypeOK
<1>11. ASSUME NEW s \in Sessions, Commit(s) PROVE TypeOK'
  <2>1. sess[s] \in Tx
    BY <1>11, SessionKinds DEF Commit, IsOpen
  <2>2. rows' \in [Ids -> Row \cup {NoRow}]
    BY <1>11, <2>1 DEF Commit, CommitRows, TypeOK, Tx
  <2>3. audit' \in Seq(Entry)
    <3>1. EntryOf(sess[s]) \in Entry
      BY <2>1 DEF EntryOf, Entry, Tx
    <3> QED BY <1>11, <3>1 DEF Commit, TypeOK
  <2>4. sess' \in [Sessions -> Tx \cup {Idle}]
    BY <1>11, <2>1, EndedSession DEF Commit
  <2> QED BY <1>11, <2>2, <2>3, <2>4 DEF Commit, TypeOK
<1>12. ASSUME NEW s \in Sessions, Abort(s) \/ AnswerLost(s) PROVE TypeOK'
  BY <1>12 DEF Abort, AnswerLost, TypeOK
<1>13. ASSUME NEW s \in Sessions, AnswerChat(s) PROVE TypeOK'
  <2>1. sess[s] \in Tx
    BY <1>13, SessionKinds DEF AnswerChat
  <2>2. replies' \subseteq Reply
    BY <1>13, <2>1, AnswerType DEF AnswerChat, Tx
  <2> QED BY <1>13, <2>2 DEF AnswerChat, TypeOK
<1> QED
  BY <1>1, <1>2, <1>3, <1>4, <1>5, <1>6, <1>7, <1>8, <1>9, <1>10, <1>11, <1>12, <1>13
     DEF Next, Step, Flush
----------------------------------------------------------------------------
(* The locking invariant. *)
Locking == PendingFits /\ OneWriterEach /\ KeysUnique

(* Steps that leave the rows alone and at most end a session. *)
LEMMA QuietStep ==
    ASSUME TypeOK, Locking, rows' = rows, begun' \in Nat, begun' >= begun,
           \A u \in Sessions : sess'[u] = sess[u] \/ sess'[u] = Idle
    PROVE  Locking'
<1>1. \A u \in Sessions : IsOpen(u)' => IsOpen(u) /\ sess'[u] = sess[u] /\ sess[u].at \in Nat
  BY SessionKinds DEF IsOpen, Idle, Tx
<1>2. PendingFits'
  BY <1>1 DEF TypeOK, Locking, PendingFits, Fits, HasFlushed, NewVersion, NewRow, Taken
<1>3. OneWriterEach'
  BY <1>1 DEF Locking, OneWriterEach, Wrote, HasFlushed
<1>4. KeysUnique'
  BY DEF Locking, KeysUnique
<1> QED BY <1>2, <1>3, <1>4 DEF Locking

(* Beginning: the new session has written nothing. *)
LEMMA BeginStep ==
    ASSUME TypeOK, Locking, NEW s \in Sessions, NEW t \in Tx, Starts(s),
           sess' = [sess EXCEPT ![s] = t], rows' = rows,
           t.pc = "open", t.at = begun, t.tuple = NoRow,
           t.op = "create" => /\ Fresh(t.id) /\ t.before = t.after /\ ~t.after.deleted
                              /\ s \in UiSessions => t.key = NoKey,
           t.op # "create" => /\ rows[t.id] # NoRow /\ rows[t.id].key = t.key
                              /\ ~t.before.deleted /\ t.after.deleted = (t.op = "delete")
    PROVE  Locking'
<1>1. sess'[s] = t /\ \A u \in Sessions \ {s} : sess'[u] = sess[u]
  BY DEF TypeOK
<1>2. begun \in Nat /\ begun' = begun + 1
  BY DEF TypeOK, Starts
<1>3. \A u \in Sessions : IsOpen(u) => sess[u] \in Tx
  BY SessionKinds
<1>4. PendingFits'
  <2> SUFFICES ASSUME NEW u \in Sessions, IsOpen(u)'
               PROVE  Fits(u)'
    BY DEF PendingFits
  <2>1. CASE u = s
    BY <2>1, <1>1, <1>2 DEF Fits, HasFlushed, Fresh
  <2>2. CASE u # s
    <3>1. IsOpen(u) /\ sess'[u] = sess[u] /\ sess[u].at \in Nat /\ Fits(u)
      BY <2>2, <1>1, <1>3 DEF IsOpen, Tx, Locking, PendingFits
    <3>2. sess[u].at < begun'
      BY <3>1, <1>2 DEF Fits
    <3>3. HasFlushed(u)' <=> HasFlushed(u)
      BY <3>1 DEF HasFlushed
    <3>4. Taken(sess[u].key)' <=> Taken(sess[u].key)
      BY <3>1 DEF Taken
    <3>5. NewRow(sess[u])' = NewRow(sess[u]) /\ NewVersion(sess[u])' = NewVersion(sess[u])
      BY <3>1 DEF NewRow, NewVersion
    <3> QED BY <3>1, <3>2, <3>3, <3>4, <3>5 DEF Fits
  <2> QED BY <2>1, <2>2
<1>5. OneWriterEach'
  <2>1. ~HasFlushed(s)'
    BY <1>1 DEF HasFlushed
  <2>2. \A u \in Sessions \ {s} : IsOpen(u)' => /\ IsOpen(u) /\ (Wrote(u)' <=> Wrote(u))
    BY <1>1 DEF IsOpen, Wrote, HasFlushed
  <2>3. \A u \in Sessions \ {s} : IsOpen(u) /\ (sess[u].op = "create" \/ t.op = "create")
                                  => sess[u].id # t.id
    BY <1>3 DEF Fresh, Locking, PendingFits, Fits
  <2> QED BY <1>1, <2>1, <2>2, <2>3 DEF Locking, OneWriterEach, Wrote
<1>6. KeysUnique'
  BY DEF Locking, KeysUnique
<1> QED BY <1>4, <1>5, <1>6 DEF Locking

(* An INSERT takes a key nobody has, in the table or in an open transaction. *)
LEMMA InsertStep ==
    ASSUME TypeOK, Locking, NEW s \in Sessions, FlushInsert(s)
    PROVE  Locking'
<1> DEFINE r == NewRow(sess[s])
<1>1. IsOpen(s) /\ sess[s] \in Tx /\ Fits(s)
  BY SessionKinds DEF FlushInsert, IsOpen, Locking, PendingFits
<1>2. r \in Row /\ r # NoRow /\ FlushesTo(s, r)
  BY <1>1, WrittenRow DEF FlushInsert, FlushesTo
<1> HIDE DEF r
<1>3. /\ sess'[s].pc = "flushed" /\ sess'[s].tuple = r
      /\ sess'[s].op = sess[s].op /\ sess'[s].at = sess[s].at
      /\ sess'[s].id = sess[s].id /\ sess'[s].key = sess[s].key
      /\ sess'[s].before = sess[s].before /\ sess'[s].after = sess[s].after
      /\ \A u \in Sessions \ {s} : sess'[u] = sess[u]
  BY <1>1, <1>2, FlushedSession
<1>4. rows' = rows /\ begun' = begun /\ sess[s].op = "create" /\ ~Taken(sess[s].key)
  BY DEF FlushInsert
<1>5. PendingFits'
  <2> SUFFICES ASSUME NEW u \in Sessions, IsOpen(u)' PROVE Fits(u)'
    BY DEF PendingFits
  <2>1. CASE u = s
    BY <2>1, <1>1, <1>3, <1>4 DEF Fits, HasFlushed, NewRow, Taken, r
  <2>2. CASE u # s
    <3>1. IsOpen(u) /\ sess'[u] = sess[u] /\ Fits(u)
      BY <2>2, <1>3 DEF IsOpen, Locking, PendingFits
    <3> QED BY <3>1, <1>4 DEF Fits, HasFlushed, NewVersion, NewRow, Taken
  <2> QED BY <2>1, <2>2
<1>6. OneWriterEach'
  <2>1. \A u \in Sessions \ {s} : /\ sess'[u] = sess[u]
                                  /\ IsOpen(u)' <=> IsOpen(u)
                                  /\ Wrote(u)' <=> Wrote(u)
    BY <1>3 DEF IsOpen, Wrote, HasFlushed
  <2>2. \A u \in Sessions \ {s} : Wrote(u) /\ sess[u].op = "create"
                                  => sess[u].key = NoKey \/ sess[u].key # sess[s].key
    BY DEF FlushInsert, InsertWaits
  <2>3. \A u \in Sessions \ {s} : IsOpen(u) => sess[u].id # sess[s].id
    BY <1>1, <1>4 DEF Locking, OneWriterEach
  <2> QED BY <1>1, <1>3, <1>4, <2>1, <2>2, <2>3 DEF Locking, OneWriterEach
<1>7. KeysUnique'
  BY <1>4 DEF Locking, KeysUnique
<1> QED BY <1>5, <1>6, <1>7 DEF Locking

(* An UPDATE writes a row no other open transaction has written. *)
LEMMA UpdateStep ==
    ASSUME TypeOK, Locking, NEW s \in Sessions, FlushUpdate(s)
    PROVE  Locking'
<1> DEFINE r == NewVersion(sess[s])
<1>1. IsOpen(s) /\ sess[s] \in Tx /\ Fits(s) /\ rows[sess[s].id] # NoRow
  BY SessionKinds DEF FlushUpdate, IsOpen, Locking, PendingFits, Fits
<1>2. r \in Row /\ r # NoRow /\ FlushesTo(s, r)
  BY <1>1, WrittenRow DEF FlushUpdate, FlushesTo
<1> HIDE DEF r
<1>3. /\ sess'[s].pc = "flushed" /\ sess'[s].tuple = r
      /\ sess'[s].op = sess[s].op /\ sess'[s].at = sess[s].at
      /\ sess'[s].id = sess[s].id /\ sess'[s].key = sess[s].key
      /\ sess'[s].before = sess[s].before /\ sess'[s].after = sess[s].after
      /\ \A u \in Sessions \ {s} : sess'[u] = sess[u]
  BY <1>1, <1>2, FlushedSession
<1>4. /\ rows' = rows /\ begun' = begun
      /\ sess[s].op # "create" /\ sess[s].before # sess[s].after
  BY DEF FlushUpdate
<1>5. PendingFits'
  <2> SUFFICES ASSUME NEW u \in Sessions, IsOpen(u)' PROVE Fits(u)'
    BY DEF PendingFits
  <2>1. CASE u = s
    BY <2>1, <1>1, <1>3, <1>4 DEF Fits, HasFlushed, NewVersion, r
  <2>2. CASE u # s
    <3>1. IsOpen(u) /\ sess'[u] = sess[u] /\ Fits(u)
      BY <2>2, <1>3 DEF IsOpen, Locking, PendingFits
    <3> QED BY <3>1, <1>4 DEF Fits, HasFlushed, NewVersion, NewRow, Taken
  <2> QED BY <2>1, <2>2
<1>6. OneWriterEach'
  <2>1. \A u \in Sessions \ {s} : /\ sess'[u] = sess[u]
                                  /\ IsOpen(u)' <=> IsOpen(u)
                                  /\ Wrote(u)' <=> Wrote(u)
    BY <1>3 DEF IsOpen, Wrote, HasFlushed
  <2>2. \A u \in Sessions \ {s} : Wrote(u) => sess[u].id # sess[s].id
    <3> SUFFICES ASSUME NEW u \in Sessions \ {s}, Wrote(u) PROVE sess[u].id # sess[s].id
      OBVIOUS
    <3>1. CASE sess[u].op = "create"
      BY <3>1, <1>1 DEF Locking, OneWriterEach, Wrote, HasFlushed, IsOpen
    <3>2. CASE sess[u].op # "create"
      BY <3>2 DEF FlushUpdate, UpdateWaits
    <3> QED BY <3>1, <3>2
  <2>3. IsOpen(s)'
    BY <1>3 DEF IsOpen
  <2> QED BY <1>1, <1>3, <1>4, <2>1, <2>2, <2>3 DEF Locking, OneWriterEach
<1>7. KeysUnique'
  BY <1>4 DEF Locking, KeysUnique
<1> QED BY <1>5, <1>6, <1>7 DEF Locking

(* A session whose changes are none, or whose response has been sent, goes on    *)
(* with what it holds.                                                           *)
LEMMA SameHoldingsStep ==
    ASSUME TypeOK, Locking, NEW s \in Sessions, FlushNothing(s) \/ AnswerUi(s)
    PROVE  Locking'
<1>1. IsOpen(s) /\ sess[s] \in Tx /\ Fits(s)
  BY SessionKinds DEF FlushNothing, AnswerUi, IsOpen, Locking, PendingFits
<1>2. PICK pc \in {"flushed", "answered"} : sess' = [sess EXCEPT ![s].pc = pc]
  BY DEF FlushNothing, AnswerUi
<1>3. /\ sess'[s].pc = pc /\ sess'[s].tuple = sess[s].tuple
      /\ sess'[s].op = sess[s].op /\ sess'[s].at = sess[s].at
      /\ sess'[s].id = sess[s].id /\ sess'[s].key = sess[s].key
      /\ sess'[s].before = sess[s].before /\ sess'[s].after = sess[s].after
      /\ \A u \in Sessions \ {s} : sess'[u] = sess[u]
  BY <1>1, <1>2 DEF TypeOK, Tx
<1>4. rows' = rows /\ begun' = begun
  BY DEF FlushNothing, AnswerUi
<1>5. HasFlushed(s) \/ (sess[s].op # "create" /\ sess[s].before = sess[s].after)
  BY DEF FlushNothing, AnswerUi, HasFlushed
<1>6. PendingFits'
  <2> SUFFICES ASSUME NEW u \in Sessions, IsOpen(u)' PROVE Fits(u)'
    BY DEF PendingFits
  <2>1. CASE u = s
    <3>1. CASE HasFlushed(s)
      BY <2>1, <3>1, <1>1, <1>2, <1>3, <1>4 DEF Fits, HasFlushed, NewVersion, NewRow, Taken
    <3>2. CASE sess[s].op # "create" /\ sess[s].before = sess[s].after /\ ~HasFlushed(s)
      <4>1. sess[s].pc = "open"
        BY <3>2, <1>1 DEF IsOpen, HasFlushed
      <4> QED BY <2>1, <3>2, <4>1, <1>1, <1>2, <1>3, <1>4 DEF Fits
    <3> QED BY <3>1, <3>2, <1>5
  <2>2. CASE u # s
    <3>1. IsOpen(u) /\ sess'[u] = sess[u] /\ Fits(u)
      BY <2>2, <1>3 DEF IsOpen, Locking, PendingFits
    <3> QED BY <3>1, <1>4 DEF Fits, HasFlushed, NewVersion, NewRow, Taken
  <2> QED BY <2>1, <2>2
<1>7. OneWriterEach'
  <2>1. \A u \in Sessions : /\ sess'[u].id = sess[u].id /\ sess'[u].key = sess[u].key
                            /\ sess'[u].op = sess[u].op
                            /\ IsOpen(u)' <=> IsOpen(u)
    BY <1>1, <1>3 DEF IsOpen
  <2>2. \A u \in Sessions : Wrote(u)' => Wrote(u)
    <3> SUFFICES ASSUME NEW u \in Sessions, Wrote(u)' PROVE Wrote(u)
      OBVIOUS
    <3>1. CASE u # s
      BY <3>1, <1>3 DEF Wrote, HasFlushed
    <3>2. CASE u = s
      <4>1. sess[s].tuple # NoRow
        BY <3>2, <1>3 DEF Wrote
      <4>2. sess[s].pc # "open"
        BY <4>1, <1>1 DEF Fits
      <4> QED BY <3>2, <4>1, <4>2, <1>1 DEF Wrote, HasFlushed, IsOpen
    <3> QED BY <3>1, <3>2
  <2> QED BY <2>1, <2>2 DEF Locking, OneWriterEach
<1>8. KeysUnique'
  BY <1>4 DEF Locking, KeysUnique
<1> QED BY <1>6, <1>7, <1>8 DEF Locking

(* What a commit does to the rows: it installs the version the session wrote,    *)
(* which is a new row, a new version with the same key, or nothing.              *)
LEMMA CommittedRows ==
    ASSUME TypeOK, Locking, NEW s \in Sessions, Commit(s)
    PROVE  /\ IsOpen(s) /\ sess[s] \in Tx /\ HasFlushed(s) /\ Fits(s)
           /\ sess[s].id \in Ids
           /\ \A i \in Ids : i # sess[s].id => rows'[i] = rows[i]
           /\ sess[s].tuple = NoRow => rows' = rows
           /\ sess[s].tuple # NoRow => rows'[sess[s].id] = sess[s].tuple
           /\ rows'[sess[s].id] # NoRow /\ rows'[sess[s].id].key = sess[s].key
           /\ \A u \in Sessions \ {s} : sess'[u] = sess[u]
           /\ ~IsOpen(s)'
<1>1. IsOpen(s) /\ sess[s] \in Tx /\ HasFlushed(s) /\ Fits(s)
  BY SessionKinds DEF Commit, IsOpen, HasFlushed, Locking, PendingFits
<1>2. sess[s].id \in Ids
  BY <1>1 DEF Tx
<1>3. /\ \A i \in Ids : i # sess[s].id => rows'[i] = rows[i]
      /\ sess[s].tuple = NoRow => rows' = rows
      /\ sess[s].tuple # NoRow => rows'[sess[s].id] = sess[s].tuple
  BY <1>2 DEF Commit, CommitRows, TypeOK
<1>4. rows'[sess[s].id] # NoRow /\ rows'[sess[s].id].key = sess[s].key
  <2>1. CASE sess[s].op = "create"
    BY <2>1, <1>1, <1>3, WrittenRow DEF Fits
  <2>2. CASE sess[s].op # "create" /\ sess[s].before = sess[s].after
    BY <2>2, <1>1, <1>3 DEF Fits
  <2>3. CASE sess[s].op # "create" /\ sess[s].before # sess[s].after
    BY <2>3, <1>1, <1>3, WrittenRow DEF Fits
  <2> QED BY <2>1, <2>2, <2>3
<1>5. ~IsOpen(s)' /\ \A u \in Sessions \ {s} : sess'[u] = sess[u]
  BY <1>1, EndedSession DEF Commit
<1> QED BY <1>1, <1>2, <1>3, <1>4, <1>5

(* A commit changes nothing another open session relies on. *)
LEMMA CommitStep ==
    ASSUME TypeOK, Locking, NEW s \in Sessions, Commit(s)
    PROVE  Locking'
<1> DEFINE i == sess[s].id
<1>1. /\ IsOpen(s) /\ sess[s] \in Tx /\ HasFlushed(s) /\ Fits(s) /\ i \in Ids
      /\ \A j \in Ids : j # i => rows'[j] = rows[j]
      /\ sess[s].tuple = NoRow => rows' = rows
      /\ rows'[i] # NoRow /\ rows'[i].key = sess[s].key
      /\ \A u \in Sessions \ {s} : sess'[u] = sess[u]
      /\ ~IsOpen(s)'
  BY CommittedRows
<1> HIDE DEF i
<1>2. begun' = begun
  BY DEF Commit
<1>3. \A k \in Keys : Taken(k)' => Taken(k) \/ (sess[s].op = "create" /\ sess[s].key = k)
  BY <1>1, NoKeyAssumption DEF Taken, Fits, i
<1>4. PendingFits'
  <2> SUFFICES ASSUME NEW u \in Sessions, IsOpen(u)' PROVE Fits(u)'
    BY DEF PendingFits
  <2>1. u # s /\ sess'[u] = sess[u] /\ IsOpen(u) /\ Fits(u) /\ sess[u] \in Tx
    BY <1>1, SessionKinds DEF IsOpen, Idle, Locking, PendingFits
  <2>2. HasFlushed(u)' <=> HasFlushed(u)
    BY <2>1 DEF HasFlushed
  <2>3. CASE sess[u].op = "create"
    <3>1. sess[u].id # i /\ sess[u].id \in Ids
      BY <2>1, <2>3, <1>1 DEF Locking, OneWriterEach, Tx, i
    <3>2. rows'[sess[u].id] = NoRow
      BY <3>1, <2>1, <2>3, <1>1 DEF Fits
    <3>3. HasFlushed(u) => ~Taken(sess[u].key)'
      <4> SUFFICES ASSUME HasFlushed(u), sess[u].key # NoKey PROVE ~Taken(sess[u].key)'
        BY <2>1 DEF Taken
      <4>1. Wrote(u) /\ ~Taken(sess[u].key) /\ sess[u].key \in Keys
        BY <2>1, <2>3, WrittenRow DEF Fits, Wrote, Tx
      <4>2. sess[s].op = "create" => sess[s].key # sess[u].key
        <5> SUFFICES ASSUME sess[s].op = "create" PROVE sess[s].key # sess[u].key
          OBVIOUS
        <5>1. Wrote(s)
          BY <1>1, WrittenRow DEF Fits, Wrote
        <5> QED BY <5>1, <4>1, <2>1, <2>3, <1>1 DEF Locking, OneWriterEach
      <4> QED BY <4>1, <4>2, <1>3, <2>1
    <3> QED BY <3>2, <3>3, <2>1, <2>2, <2>3, <1>2 DEF Fits, NewRow
  <2>4. CASE sess[u].op # "create"
    <3>1. CASE sess[u].id # i
      <4>1. rows'[sess[u].id] = rows[sess[u].id]
        BY <3>1, <2>1, <1>1 DEF Tx
      <4>2. NewVersion(sess[u])' = NewVersion(sess[u])
        BY <4>1, <2>1 DEF NewVersion
      <4> QED BY <4>1, <4>2, <2>1, <2>2, <2>4, <1>2 DEF Fits
    <3>2. CASE sess[u].id = i
      <4>1. sess[s].op # "create"
        BY <3>2, <2>1, <2>4, <1>1 DEF Locking, OneWriterEach, i
      <4>2. rows'[i] # NoRow /\ rows'[i].key = sess[u].key
        BY <4>1, <3>2, <2>1, <2>4, <1>1 DEF Fits, i
      <4>3. CASE sess[s].tuple = NoRow
        <5>1. rows' = rows
          BY <4>3, <1>1
        <5>2. NewVersion(sess[u])' = NewVersion(sess[u])
          BY <5>1, <2>1 DEF NewVersion
        <5> QED BY <5>1, <5>2, <2>1, <2>2, <2>4, <1>2 DEF Fits
      <4>4. CASE sess[s].tuple # NoRow
        <5>1. ~Wrote(u)
          BY <4>4, <3>2, <2>1, <1>1 DEF Locking, OneWriterEach, Wrote, i
        <5>2. HasFlushed(u) => sess[u].before = sess[u].after
          BY <5>1, <2>1, <2>4, WrittenRow DEF Wrote, Fits
        <5> QED BY <5>2, <4>2, <3>2, <2>1, <2>2, <2>4, <1>2 DEF Fits
      <4> QED BY <4>3, <4>4
    <3> QED BY <3>1, <3>2
  <2> QED BY <2>3, <2>4
<1>5. OneWriterEach'
  <2>1. \A u \in Sessions : IsOpen(u)' => u # s /\ IsOpen(u) /\ sess'[u] = sess[u]
    BY <1>1 DEF IsOpen, Idle
  <2> QED BY <2>1 DEF Locking, OneWriterEach, Wrote, HasFlushed
<1>6. KeysUnique'
  <2> SUFFICES ASSUME NEW j \in Ids, NEW m \in Ids, rows'[j] # NoRow, rows'[m] # NoRow,
                      rows'[j].key = rows'[m].key, rows'[j].key # NoKey
               PROVE  j = m
    BY DEF KeysUnique
  <2>1. \A n \in Ids \ {i} : rows'[n] # NoRow /\ rows'[n].key = sess[s].key
                                => sess[s].key = NoKey
    <3> SUFFICES ASSUME NEW n \in Ids \ {i}, rows'[n] # NoRow, rows'[n].key = sess[s].key,
                        sess[s].key # NoKey
                 PROVE  FALSE
      OBVIOUS
    <3>1. rows[n] # NoRow /\ rows[n].key = sess[s].key
      BY <1>1
    <3>2. CASE sess[s].op = "create"
      BY <3>1, <3>2, <1>1 DEF Fits, Taken
    <3>3. CASE sess[s].op # "create"
      BY <3>1, <3>3, <1>1 DEF Fits, Locking, KeysUnique, i
    <3> QED BY <3>2, <3>3
  <2> QED BY <2>1, <1>1 DEF Locking, KeysUnique
<1> QED BY <1>4, <1>5, <1>6 DEF Locking

(* The locking invariant is preserved by every step. *)
LEMMA LockingStep == TypeOK /\ Locking /\ [Next]_vars => Locking'
<1> SUFFICES ASSUME TypeOK, Locking, [Next]_vars PROVE Locking'
  OBVIOUS
<1>0. begun \in Nat
  BY DEF TypeOK
<1>1. CASE UNCHANGED vars
  BY <1>0, <1>1, QuietStep DEF vars
<1>2. ASSUME NEW s \in Sessions, ReturnExisting(s) \/ RefuseChange(s) PROVE Locking'
  BY <1>0, <1>2, QuietStep DEF ReturnExisting, RefuseChange, Starts
<1>3. ASSUME NEW s \in Sessions,
             FlushInsertFails(s) \/ Abort(s) \/ AnswerChat(s) \/ AnswerLost(s)
      PROVE  Locking'
  <2>1. \A u \in Sessions : sess'[u] = sess[u] \/ sess'[u] = Idle
    BY <1>3 DEF FlushInsertFails, Abort, AnswerChat, AnswerLost, TypeOK
  <2> QED BY <2>1, <1>0, <1>3, QuietStep DEF FlushInsertFails, Abort, AnswerChat, AnswerLost
<1>4. ASSUME NEW s \in Sessions, BeginCreate(s) PROVE Locking'
  <2>1. PICK k \in Keys \cup {NoKey}, i \in Ids, d \in Data :
           /\ s \in UiSessions => k = NoKey
           /\ Fresh(i)
           /\ sess' = [sess EXCEPT ![s] =
               [pc |-> "open", op |-> "create", at |-> begun, id |-> i, key |-> k,
                before |-> [data |-> d, deleted |-> FALSE],
                after |-> [data |-> d, deleted |-> FALSE], tuple |-> NoRow]]
    BY <1>4 DEF BeginCreate
  <2> DEFINE t == [pc |-> "open", op |-> "create", at |-> begun, id |-> i, key |-> k,
                   before |-> [data |-> d, deleted |-> FALSE],
                   after |-> [data |-> d, deleted |-> FALSE], tuple |-> NoRow]
  <2>2. t \in Tx
    BY <1>0 DEF Tx, Snapshot
  <2>3. /\ t.pc = "open" /\ t.at = begun /\ t.tuple = NoRow
        /\ t.op = "create" /\ t.id = i /\ t.key = k
        /\ t.before = t.after /\ ~t.after.deleted
        /\ sess' = [sess EXCEPT ![s] = t]
    BY <2>1
  <2>4. Starts(s) /\ rows' = rows
    BY <1>4 DEF BeginCreate
  <2> HIDE DEF t
  <2> QED BY <2>1, <2>2, <2>3, <2>4, BeginStep
<1>5. ASSUME NEW s \in Sessions, NEW op \in {"update", "delete"}, BeginChange(s, op)
      PROVE  Locking'
  <2>1. PICK i \in Ids, d \in Data :
           /\ Live(i)
           /\ sess' = [sess EXCEPT ![s] =
               [pc |-> "open", op |-> op, at |-> begun, id |-> i, key |-> rows[i].key,
                before |-> SnapshotOf(rows[i]),
                after |-> [data |-> d, deleted |-> (op = "delete")], tuple |-> NoRow]]
    BY <1>5 DEF BeginChange
  <2> DEFINE t == [pc |-> "open", op |-> op, at |-> begun, id |-> i, key |-> rows[i].key,
                   before |-> SnapshotOf(rows[i]),
                   after |-> [data |-> d, deleted |-> (op = "delete")], tuple |-> NoRow]
  <2>2. rows[i] \in Row /\ rows[i] # NoRow /\ ~rows[i].deleted
    BY <2>1 DEF Live, TypeOK
  <2>3. SnapshotOf(rows[i]) \in Snapshot /\ ~SnapshotOf(rows[i]).deleted
    BY <2>2 DEF Row, Snapshot, SnapshotOf
  <2>4. t \in Tx
    BY <1>0, <2>2, <2>3 DEF Tx, Snapshot, Row
  <2>5. /\ t.pc = "open" /\ t.at = begun /\ t.tuple = NoRow
        /\ t.op = op /\ t.op # "create" /\ t.id = i /\ t.key = rows[i].key
        /\ ~t.before.deleted /\ t.after.deleted = (t.op = "delete")
        /\ sess' = [sess EXCEPT ![s] = t]
    BY <2>1, <2>3
  <2>6. Starts(s) /\ rows' = rows
    BY <1>5 DEF BeginChange
  <2> HIDE DEF t
  <2> QED BY <2>2, <2>4, <2>5, <2>6, BeginStep
<1>6. ASSUME NEW s \in Sessions, Flush(s) \/ AnswerUi(s) PROVE Locking'
  BY <1>6, <1>3, InsertStep, UpdateStep, SameHoldingsStep DEF Flush
<1>7. ASSUME NEW s \in Sessions, Commit(s) PROVE Locking'
  BY <1>7, CommitStep
<1> QED BY <1>1, <1>2, <1>3, <1>4, <1>5, <1>6, <1>7 DEF Next, Step

(* Ledger's type invariant and the locking invariant, for every instance.        *)
THEOREM Invariance == Spec => []IInv
<1>1. Init => TypeOK /\ Locking
  BY DEF Init, TypeOK, Locking, PendingFits, OneWriterEach, KeysUnique, IsOpen, Idle
<1>2. TypeOK /\ Locking /\ [Next]_vars => TypeOK' /\ Locking'
  BY TypeStep, LockingStep DEF Locking
<1>3. TypeOK /\ Locking => IInv
  BY DEF Locking, IInv
<1> QED BY <1>1, <1>2, <1>3, PTL DEF Spec

(* Every reachable state is type correct.                                        *)
THEOREM TypeCorrect == Spec => []TypeOK
<1>1. IInv => TypeOK
  BY DEF IInv
<1> QED BY <1>1, Invariance, PTL

(* No two rows, committed or inserted by an open transaction, ever have the same *)
(* idempotency key.                                                              *)
THEOREM KeyUniqueness == Spec => []OneRowPerKey
<1>1. IInv => OneRowPerKey
  <2> SUFFICES ASSUME IInv, NEW k \in Keys, NEW i \in Ids, NEW j \in Ids,
                      KeyOf(i, k), KeyOf(j, k)
               PROVE  i = j
    BY DEF OneRowPerKey
  <2>1. k # NoKey
    BY NoKeyAssumption
  <2>2. \A s \in Sessions : Wrote(s) /\ sess[s].op = "create" /\ sess[s].key = k
                            => IsOpen(s) /\ ~Taken(k)
    BY DEF IInv, PendingFits, Fits, Wrote, HasFlushed, IsOpen
  <2>3. CASE rows[i] # NoRow /\ rows[i].key = k
    BY <2>1, <2>2, <2>3 DEF KeyOf, Taken, IInv, KeysUnique
  <2>4. CASE ~(rows[i] # NoRow /\ rows[i].key = k)
    <3>1. PICK s \in Sessions : /\ Wrote(s) /\ sess[s].op = "create"
                                /\ sess[s].id = i /\ sess[s].key = k
      BY <2>4 DEF KeyOf
    <3>2. PICK u \in Sessions : /\ Wrote(u) /\ sess[u].op = "create"
                                /\ sess[u].id = j /\ sess[u].key = k
      BY <2>2, <3>1, <2>1 DEF KeyOf, Taken
    <3> QED BY <2>1, <2>2, <3>1, <3>2 DEF IInv, OneWriterEach
  <2> QED BY <2>3, <2>4
<1> QED BY <1>1, Invariance, PTL
----------------------------------------------------------------------------
(* Patching a row with two equal snapshots leaves it alone. *)
LEMMA NothingPatched ==
    ASSUME NEW row \in Row, NEW snap \in Snapshot
    PROVE  Patched(row, snap, snap) = row
  BY DEF Patched, Changed, Row, Snapshot, Data

(* Rows and log change by commits alone. *)
LEMMA OnlyCommitsWrite ==
    ASSUME [Next]_vars
    PROVE  (rows' = rows /\ audit' = audit) \/ \E s \in Sessions : Commit(s)
  BY DEF Next, Step, Flush, ReturnExisting, BeginCreate, RefuseChange, BeginChange,
         FlushInsert, FlushInsertFails, FlushUpdate, FlushNothing, AnswerUi, AnswerChat,
         AnswerLost, Abort, vars

(* The clock goes on when a transaction begins. *)
LEMMA ClockRuns == [Next]_vars => begun' = begun \/ begun' = begun + 1
<1>1. [Next]_vars => begun' = begun \/ \E s \in Sessions : Starts(s)
  BY DEF Next, Step, Flush, ReturnExisting, BeginCreate, RefuseChange, BeginChange,
         FlushInsert, FlushInsertFails, FlushUpdate, FlushNothing, AnswerUi, Abort,
         AnswerChat, AnswerLost, Commit, vars
<1> QED BY <1>1 DEF Starts

(* A commit is one audited write: its entry is appended and the row becomes what *)
(* the entry's differences say. *)
LEMMA CommitIsAudited ==
    ASSUME TypeOK, Locking, NEW s \in Sessions, Commit(s)
    PROVE  Audited!Next
<1> DEFINE t == sess[s]
           e == EntryOf(t)
<1>1. IsOpen(s) /\ t \in Tx /\ HasFlushed(s) /\ Fits(s)
  BY CommittedRows
<1>2. /\ e \in Entry /\ e.id = t.id /\ e.action = t.op
      /\ e.before = t.before /\ e.after = t.after
  BY <1>1 DEF EntryOf, Entry, Tx
<1>3. audit' = Append(audit, e) /\ rows' = CommitRows(t)
  BY DEF Commit
<1>4. Len(audit') = Len(audit) + 1 /\ audit'[Len(audit) + 1] = e
  BY <1>2, <1>3 DEF TypeOK
<1>5. e \in Audited!Entry
  BY <1>2 DEF Entry, Snapshot, Data, Audited!Entry, Audited!Snapshot, Audited!Data
<1> HIDE DEF e
<1>6. CASE t.op = "create"
  <2>1. /\ t.tuple = NewRow(t) /\ t.tuple # NoRow
        /\ rows[t.id] = NoRow /\ ~t.after.deleted /\ ~Taken(t.key)
    BY <1>1, <1>6, WrittenRow DEF Fits
  <2>2. rows' = [rows EXCEPT ![e.id] = [key |-> t.key, data |-> e.after.data,
                                        deleted |-> FALSE]]
    BY <1>2, <1>3, <2>1 DEF CommitRows, NewRow
  <2>3. Audited!Unused(t.key)
    BY <2>1 DEF Taken, Audited!Unused
  <2>4. Audited!Record(e, t.key)
    BY <1>2, <1>3, <1>6, <2>1, <2>2, <2>3 DEF Audited!Record
  <2>5. t.key \in Keys \cup {NoKey}
    BY <1>1 DEF Tx
  <2> QED BY <1>4, <1>5, <2>4, <2>5 DEF Audited!Next
<1>7. CASE t.op # "create"
  <2>1. /\ rows[t.id] # NoRow /\ ~t.before.deleted /\ t.after.deleted = (t.op = "delete")
        /\ t.tuple = IF t.before = t.after THEN NoRow ELSE NewVersion(t)
    BY <1>1, <1>7 DEF Fits
  <2>2. /\ rows[t.id] \in Row /\ t.before \in Snapshot /\ t.after \in Snapshot
        /\ t.id \in Ids /\ t.op \in {"update", "delete"}
    BY <1>1, <1>7, <2>1 DEF TypeOK, Tx
  <2>3. rows' = [rows EXCEPT ![e.id] = Patched(rows[e.id], e.before, e.after)]
    <3>1. CASE t.before = t.after
      <4>1. rows' = rows /\ Patched(rows[t.id], t.before, t.after) = rows[t.id]
        BY <3>1, <1>3, <2>1, <2>2, NothingPatched DEF CommitRows
      <4> QED BY <4>1, <1>2, <2>2 DEF TypeOK
    <3>2. CASE t.before # t.after
      <4>1. t.tuple = NewVersion(t) /\ t.tuple # NoRow
        BY <3>2, <1>1, <2>1, WrittenRow
      <4> QED BY <4>1, <1>2, <1>3 DEF CommitRows, NewVersion
    <3> QED BY <3>1, <3>2
  <2>4. Patched(rows[e.id], e.before, e.after) = Audited!Patched(rows[e.id], e.before, e.after)
    BY DEF Patched, Changed, Audited!Patched, Audited!Changed
  <2>5. Audited!Amend(e)
    BY <1>2, <1>3, <2>1, <2>2, <2>3, <2>4 DEF Audited!Amend
  <2> QED BY <1>4, <1>5, <2>5 DEF Audited!Next
<1> QED BY <1>6, <1>7

(* Every other step leaves rows and log alone. *)
LEMMA StepIsAudited == TypeOK /\ Locking /\ [Next]_vars => [Audited!Next]_(Audited!vars)
<1> SUFFICES ASSUME TypeOK, Locking, [Next]_vars PROVE [Audited!Next]_(Audited!vars)
  OBVIOUS
<1>1. CASE rows' = rows /\ audit' = audit
  BY <1>1 DEF Audited!vars
<1>2. ASSUME NEW s \in Sessions, Commit(s) PROVE Audited!Next
  BY <1>2, CommitIsAudited
<1> QED BY <1>1, <1>2, OnlyCommitsWrite

(* The sessions implement the audited ledger: whatever interleaves or fails,     *)
(* rows change only together with the one entry that says how.                   *)
THEOREM Refinement == Spec => ImplementsAuditedLedger
<1>1. Init => Audited!Init
  BY DEF Init, Audited!Init
<1>2. IInv => TypeOK /\ Locking
  BY DEF IInv, Locking
<1>3. IInv /\ [Next]_vars => [Audited!Next]_(Audited!vars)
  BY <1>2, StepIsAudited
<1> QED BY <1>1, <1>3, Invariance, PTL DEF Spec, ImplementsAuditedLedger, Audited!Spec

(* The instance whose proofs are reused is the one the refinement is about. *)
LEMMA SameLedger ==
    /\ Audited!Init <=> AL!Init
    /\ [Audited!Next]_(Audited!vars) <=> [AL!Next]_(AL!vars)
    /\ AL!Replay <=> Audited!Replay
<1>1. Audited!Init <=> AL!Init
  BY DEF Audited!Init, AL!Init
<1>2. Audited!Next <=> AL!Next
  BY DEF Audited!Next, AL!Next, Audited!Amend, AL!Amend, Audited!Record, AL!Record,
         Audited!Unused, AL!Unused, Audited!Entry, AL!Entry, Audited!Snapshot, AL!Snapshot,
         Audited!Data, AL!Data, Audited!Patched, AL!Patched, Audited!Changed, AL!Changed
<1>3. [Audited!Next]_(Audited!vars) <=> [AL!Next]_(AL!vars)
  BY <1>2 DEF Audited!vars, AL!vars
<1>4. AL!Replay <=> Audited!Replay
  BY DEF Audited!Replay, AL!Replay, Audited!Creates, AL!Creates, Audited!Sets, AL!Sets,
         Audited!Changed, AL!Changed
<1> QED BY <1>1, <1>3, <1>4

(* Replaying the audit log's differences in commit order always gives the ledger.*)
THEOREM AuditReplay == Spec => []LedgerReplaysFromAudit
<1>1. AL!Spec => []AL!Replay
  BY AL!ReplayCorrect, NoKeyAssumption, NoRowAssumption
<1>2. ImplementsAuditedLedger => AL!Spec
  BY SameLedger, PTL DEF ImplementsAuditedLedger, Audited!Spec, AL!Spec
<1>3. AL!Replay => LedgerReplaysFromAudit
  BY SameLedger DEF LedgerReplaysFromAudit
<1> QED BY <1>1, <1>2, <1>3, Refinement, PTL

(* No step brings a deleted row back or takes its idempotency key away.          *)
THEOREM DeletionIsFinal == Spec => DeletedForEver
<1> DEFINE Kept(i) == rows[i] # NoRow /\ rows[i].deleted =>
                         rows'[i] # NoRow /\ rows'[i].deleted /\ rows'[i].key = rows[i].key
<1>1. IInv /\ [Next]_vars => [\A i \in Ids : Kept(i)]_vars
  <2> SUFFICES ASSUME TypeOK, Locking, [Next]_vars, NEW i \in Ids,
                      rows[i] # NoRow, rows[i].deleted
               PROVE  rows'[i] # NoRow /\ rows'[i].deleted /\ rows'[i].key = rows[i].key
    BY DEF IInv, Locking
  <2>1. CASE rows' = rows
    BY <2>1
  <2>2. ASSUME NEW s \in Sessions, Commit(s)
        PROVE  rows'[i] # NoRow /\ rows'[i].deleted /\ rows'[i].key = rows[i].key
    <3>1. CASE i # sess[s].id \/ sess[s].tuple = NoRow
      BY <3>1, <2>2, CommittedRows
    <3>2. CASE i = sess[s].id /\ sess[s].tuple # NoRow
      <4>1. /\ sess[s] \in Tx /\ Fits(s) /\ HasFlushed(s)
            /\ rows'[i] = sess[s].tuple /\ rows'[i] # NoRow /\ rows'[i].key = sess[s].key
        BY <3>2, <2>2, CommittedRows
      <4>2. sess[s].op # "create" /\ rows[i].key = sess[s].key
        BY <4>1, <3>2 DEF Fits
      <4>3. /\ sess[s].tuple = Patched(rows[i], sess[s].before, sess[s].after)
            /\ ~sess[s].before.deleted
        BY <4>1, <4>2, <3>2 DEF Fits, NewVersion
      <4>4. rows[i] \in Row /\ sess[s].before \in Snapshot /\ sess[s].after \in Snapshot
        BY <4>1 DEF TypeOK, Tx
      <4>5. sess[s].tuple.deleted
        BY <4>3, <4>4 DEF Patched, Snapshot, Row
      <4> QED BY <4>1, <4>2, <4>5
    <3> QED BY <3>1, <3>2
  <2>3. rows' = rows \/ \E s \in Sessions : Commit(s)
    BY OnlyCommitsWrite
  <2> QED BY <2>1, <2>2, <2>3
<1> QED BY <1>1, Invariance, PTL DEF Spec, DeletedForEver
----------------------------------------------------------------------------
(* Every answer that names a row for a key names a row that has the key, and so  *)
(* does a call that has committed and is about to answer.                        *)
AnswersNameRows ==
    /\ \A r \in replies : Named(r) => rows[r.id] # NoRow /\ rows[r.id].key = r.key
    /\ \A s \in Sessions : sess[s].pc = "committed" =>
          rows[sess[s].id] # NoRow /\ rows[sess[s].id].key = sess[s].key

(* Rows stay, with their keys. *)
LEMMA RowsKeepKeys ==
    ASSUME TypeOK, Locking, [Next]_vars, NEW i \in Ids, rows[i] # NoRow
    PROVE  rows'[i] # NoRow /\ rows'[i].key = rows[i].key
<1>1. rows' = rows \/ \E s \in Sessions : Commit(s)
  BY OnlyCommitsWrite
<1>2. ASSUME NEW s \in Sessions, Commit(s)
      PROVE  rows'[i] # NoRow /\ rows'[i].key = rows[i].key
  BY <1>2, CommittedRows DEF Fits
<1> QED BY <1>1, <1>2

(* Which step sends which answer. *)
LEMMA AnswerSources ==
    ASSUME TypeOK, Locking, [Next]_vars, NEW r \in replies', r \notin replies
    PROVE  \/ /\ r.status = "missing" /\ r.session \in Sessions
              /\ RefuseChange(r.session) /\ r.at = begun
           \/ /\ r.status = "raised" /\ r.session \in Sessions
              /\ FlushInsertFails(r.session) /\ r.at = sess[r.session].at
           \/ /\ r.status = "existing" /\ r.session \in Sessions
              /\ ReturnExisting(r.session) /\ r.at = begun /\ r.id \in Ids
              /\ rows[r.id] # NoRow /\ rows[r.id].key = r.key
           \/ /\ r.status = "ok" /\ r.session \in UiSessions /\ r.session \in Sessions
              /\ AnswerUi(r.session)
              /\ r.id = sess[r.session].id /\ r.key = sess[r.session].key
           \/ /\ r.status = "ok" /\ r.session \in Sessions
              /\ AnswerChat(r.session) /\ r.at = sess[r.session].at
              /\ r.id = sess[r.session].id /\ r.key = sess[r.session].key
<1>1. ASSUME NEW s \in Sessions, ReturnExisting(s)
      PROVE  /\ r.status = "existing" /\ r.session = s /\ r.at = begun /\ r.id \in Ids
             /\ rows[r.id] # NoRow /\ rows[r.id].key = r.key
  BY <1>1 DEF ReturnExisting, Answer, Finds
<1>2. ASSUME NEW s \in Sessions, RefuseChange(s)
      PROVE  r.status = "missing" /\ r.session = s /\ r.at = begun
  BY <1>2 DEF RefuseChange, Answer
<1>3. ASSUME NEW s \in Sessions, FlushInsertFails(s)
      PROVE  r.status = "raised" /\ r.session = s /\ r.at = sess[s].at
  BY <1>3 DEF FlushInsertFails, Answer
<1>4. ASSUME NEW s \in Sessions, AnswerUi(s)
      PROVE  /\ r.status = "ok" /\ r.session = s /\ s \in UiSessions
             /\ r.id = sess[s].id /\ r.key = sess[s].key
  BY <1>4 DEF AnswerUi, Answer
<1>5. ASSUME NEW s \in Sessions, AnswerChat(s)
      PROVE  /\ r.status = "ok" /\ r.session = s
             /\ r.at = sess[s].at /\ r.id = sess[s].id /\ r.key = sess[s].key
  BY <1>5 DEF AnswerChat, Answer
<1>6. ASSUME NEW s \in Sessions,
             \/ BeginCreate(s) \/ Abort(s) \/ FlushInsert(s) \/ FlushUpdate(s)
             \/ FlushNothing(s) \/ \E op \in {"update", "delete"} : BeginChange(s, op)
             \/ Commit(s) \/ AnswerLost(s)
      PROVE  FALSE
  BY <1>6 DEF BeginCreate, BeginChange, Abort, FlushInsert, FlushUpdate, FlushNothing,
              Commit, AnswerLost
<1>7. CASE UNCHANGED vars
  BY <1>7 DEF vars
<1> QED BY <1>1, <1>2, <1>3, <1>4, <1>5, <1>6, <1>7 DEF Next, Step, Flush

(* A call comes to be committed by its commit, and stays what it is. *)
LEMMA CommittedSources ==
    ASSUME TypeOK, [Next]_vars, NEW s \in Sessions, sess'[s].pc = "committed"
    PROVE  \/ Commit(s)
           \/ sess[s].pc = "committed" /\ sess'[s] = sess[s]
<1>0. Idle.pc = "idle"
  BY DEF Idle
<1>1. CASE UNCHANGED vars
  BY <1>1 DEF vars
<1>2. ASSUME NEW u \in Sessions, ReturnExisting(u) \/ RefuseChange(u) PROVE sess' = sess
  BY <1>2 DEF ReturnExisting, RefuseChange
<1>3. ASSUME NEW u \in Sessions,
             BeginCreate(u) \/ (\E op \in {"update", "delete"} : BeginChange(u, op))
      PROVE  sess'[s] = sess[s]
  <2>1. CASE u # s
    BY <1>3, <2>1 DEF BeginCreate, BeginChange, TypeOK
  <2>2. CASE u = s
    BY <1>3, <2>2 DEF BeginCreate, BeginChange, TypeOK
  <2> QED BY <2>1, <2>2
<1>4. ASSUME NEW u \in Sessions,
             FlushInsert(u) \/ FlushUpdate(u) \/ FlushNothing(u) \/ AnswerUi(u)
      PROVE  sess'[s] = sess[s]
  <2>1. CASE u # s
    BY <1>4, <2>1 DEF FlushInsert, FlushUpdate, FlushNothing, AnswerUi, TypeOK
  <2>2. CASE u = s
    <3>1. sess[s] \in Tx
      BY <1>4, <2>2, SessionKinds DEF FlushInsert, FlushUpdate, FlushNothing, AnswerUi
    <3>2. sess'[s].pc \in {"flushed", "answered"}
      BY <1>4, <2>2, <3>1 DEF FlushInsert, FlushUpdate, FlushNothing, AnswerUi, TypeOK, Tx
    <3> QED BY <3>2
  <2> QED BY <2>1, <2>2
<1>5. ASSUME NEW u \in Sessions,
             FlushInsertFails(u) \/ Abort(u) \/ AnswerChat(u) \/ AnswerLost(u)
      PROVE  sess'[s] = sess[s]
  BY <1>0, <1>5 DEF FlushInsertFails, Abort, AnswerChat, AnswerLost, TypeOK
<1>6. ASSUME NEW u \in Sessions, Commit(u) PROVE u = s \/ sess'[s] = sess[s]
  BY <1>6 DEF Commit, Ends, TypeOK
<1> QED BY <1>1, <1>2, <1>3, <1>4, <1>5, <1>6 DEF Next, Step, Flush

(* A new answer names a row that has the key. *)
LEMMA AnswersStep == TypeOK /\ Locking /\ AnswersNameRows /\ [Next]_vars => AnswersNameRows'
<1> SUFFICES ASSUME TypeOK, Locking, AnswersNameRows, [Next]_vars PROVE AnswersNameRows'
  OBVIOUS
<1>1. ASSUME NEW r \in replies', Named(r)
      PROVE  rows'[r.id] # NoRow /\ rows'[r.id].key = r.key
  <2>1. CASE r \in replies
    BY <1>1, <2>1, RowsKeepKeys DEF AnswersNameRows, TypeOK, Reply
  <2>2. CASE r \notin replies /\ r.status = "existing"
    <3>1. r.id \in Ids /\ rows[r.id] # NoRow /\ rows[r.id].key = r.key
      BY <2>2, AnswerSources
    <3> QED BY <3>1, RowsKeepKeys
  <2>3. CASE r \notin replies /\ r.status = "ok" /\ ~AnswerChat(r.session)
    <3> DEFINE s == r.session
    <3>1. /\ s \in Sessions /\ s \in UiSessions /\ AnswerUi(s)
          /\ r.id = sess[s].id /\ r.key = sess[s].key
      BY <2>3, AnswerSources
    <3>2. IsOpen(s) /\ sess[s] \in Tx /\ Fits(s)
      BY <3>1, SessionKinds DEF AnswerUi, IsOpen, Locking, PendingFits
    <3>3. sess[s].op # "create"
      BY <1>1, <3>1, <3>2 DEF Named, Fits
    <3>4. rows[r.id] # NoRow /\ rows[r.id].key = r.key /\ r.id \in Ids
      BY <3>1, <3>2, <3>3 DEF Fits, Tx
    <3> QED BY <3>4, RowsKeepKeys
  <2>4. CASE r \notin replies /\ r.status = "ok" /\ AnswerChat(r.session)
    <3>1. r.session \in Sessions /\ r.id = sess[r.session].id /\ r.key = sess[r.session].key
      BY <2>4, AnswerSources
    <3>2. rows[r.id] # NoRow /\ rows[r.id].key = r.key /\ sess[r.session] \in Tx
      BY <3>1, <2>4, SessionKinds DEF AnswerChat, AnswersNameRows
    <3> QED BY <3>1, <3>2, RowsKeepKeys DEF Tx
  <2> QED BY <1>1, <2>1, <2>2, <2>3, <2>4 DEF Named
<1>2. ASSUME NEW s \in Sessions, sess'[s].pc = "committed"
      PROVE  rows'[sess'[s].id] # NoRow /\ rows'[sess'[s].id].key = sess'[s].key
  <2>1. CASE Commit(s)
    <3>1. sess[s] \in Tx /\ rows'[sess[s].id] # NoRow /\ rows'[sess[s].id].key = sess[s].key
      BY <2>1, CommittedRows
    <3>2. sess'[s].id = sess[s].id /\ sess'[s].key = sess[s].key
      BY <1>2, <2>1, <3>1, EndedSession DEF Commit, Idle
    <3> QED BY <3>1, <3>2
  <2>2. CASE sess[s].pc = "committed" /\ sess'[s] = sess[s]
    BY <2>2, SessionKinds, RowsKeepKeys DEF AnswersNameRows, Tx
  <2> QED BY <1>2, <2>1, <2>2, CommittedSources
<1> QED BY <1>1, <1>2 DEF AnswersNameRows

(* All answers to calls with one idempotency key that name a row name the same   *)
(* row, whatever was retried, aborted or deleted in between.                     *)
THEOREM Idempotence == Spec => []OneAnswerPerKey
<1>1. Init => AnswersNameRows
  BY DEF Init, AnswersNameRows, Idle
<1>2. IInv /\ AnswersNameRows /\ [Next]_vars => AnswersNameRows'
  BY AnswersStep DEF IInv, Locking
<1>3. IInv /\ AnswersNameRows => OneAnswerPerKey
  BY DEF IInv, AnswersNameRows, OneAnswerPerKey, KeysUnique, Named, TypeOK, Reply
<1> QED BY <1>1, <1>2, <1>3, Invariance, PTL DEF Spec

(* A database transaction has at most one entry, known by its time: none while it*)
(* is open, one once it has committed; and no call under way has the time of one *)
(* that was answered.                                                            *)
SessionFits(s) ==
    /\ sess[s].at < begun
    /\ \A u \in Sessions \ {s} : sess[u] # Idle => sess[u].at # sess[s].at
    /\ IsOpen(s) => EntriesOf(sess[s].at) = {}
    /\ ~IsOpen(s) => \E n \in DOMAIN audit : /\ EntriesOf(sess[s].at) = {n}
                                             /\ audit[n].id = sess[s].id
ReplyFits(r) ==
    /\ r.at < begun
    /\ \A s \in Sessions : sess[s] # Idle => sess[s].at # r.at
    /\ TrueOfTheLog(r)
TimesFit ==
    /\ \A n \in DOMAIN audit : audit[n].at < begun
    /\ \A s \in Sessions : sess[s] # Idle => SessionFits(s)
    /\ \A r \in replies : r.session \notin UiSessions => ReplyFits(r)

(* No entry has the time of a transaction that begins now. *)
LEMMA NoEntryYet == TypeOK /\ TimesFit => EntriesOf(begun) = {}
  BY DEF TypeOK, TimesFit, EntriesOf

(* A commit adds the one entry of its transaction. *)
LEMMA CommitEntries ==
    ASSUME TypeOK, Locking, TimesFit, NEW s \in Sessions, Commit(s)
    PROVE  /\ \A at : at # sess[s].at => EntriesOf(at)' = EntriesOf(at)
           /\ \A n \in DOMAIN audit : n \in DOMAIN audit' /\ audit'[n] = audit[n]
           /\ \A at : at = sess[s].at =>
                 \E n \in DOMAIN audit' : EntriesOf(at)' = {n} /\ audit'[n].id = sess[s].id
           /\ \A n \in DOMAIN audit' : audit'[n].at < begun'
<1> DEFINE N == Len(audit) + 1
           e == EntryOf(sess[s])
<1>1. sess[s] \in Tx /\ IsOpen(s) /\ sess[s] # Idle /\ SessionFits(s)
  BY CommittedRows, SessionKinds DEF TimesFit
<1>2. e \in Entry /\ e.id = sess[s].id /\ e.at = sess[s].at
  BY <1>1 DEF EntryOf, Entry, Tx
<1> HIDE DEF e
<1>3. audit' = Append(audit, e) /\ audit \in Seq(Entry) /\ begun' = begun
  BY DEF Commit, TypeOK, e
<1>4. /\ DOMAIN audit' = DOMAIN audit \cup {N} /\ N \notin DOMAIN audit
      /\ \A n \in DOMAIN audit : audit'[n] = audit[n]
      /\ audit'[N] = e
  BY <1>3
<1> HIDE DEF N
<1>5. ASSUME NEW at, at # sess[s].at PROVE EntriesOf(at)' = EntriesOf(at)
  BY <1>2, <1>4, <1>5 DEF EntriesOf
<1>6. EntriesOf(sess[s].at) = {}
  BY <1>1 DEF SessionFits
<1>7. ASSUME NEW at, at = sess[s].at PROVE EntriesOf(at)' = {N}
  BY <1>2, <1>4, <1>6, <1>7 DEF EntriesOf
<1>10. \A n \in DOMAIN audit' : audit'[n].at < begun'
  BY <1>1, <1>2, <1>3, <1>4 DEF TimesFit, SessionFits
<1> QED BY <1>2, <1>4, <1>5, <1>7, <1>10

(* What an answer says stays true of the log. *)
LEMMA TruthStays ==
    ASSUME TypeOK, Locking, TimesFit, [Next]_vars, NEW r,
           r.id \in Ids, r.session \notin UiSessions, ReplyFits(r)
    PROVE  TrueOfTheLog(r)'
<1>1. CASE rows' = rows /\ audit' = audit
  BY <1>1 DEF ReplyFits, TrueOfTheLog, EntriesOf
<1>2. ASSUME NEW s \in Sessions, Commit(s) PROVE TrueOfTheLog(r)'
  <2>1. r.at # sess[s].at
    BY <1>2, CommittedRows, SessionKinds DEF ReplyFits
  <2>2. EntriesOf(r.at)' = EntriesOf(r.at)
    BY <1>2, <2>1, CommitEntries
  <2>3. \A n \in DOMAIN audit : n \in DOMAIN audit' /\ audit'[n] = audit[n]
    BY <1>2, CommitEntries
  <2>4. rows[r.id] # NoRow => rows'[r.id] # NoRow /\ rows'[r.id].key = rows[r.id].key
    BY RowsKeepKeys
  <2> QED BY <2>2, <2>3, <2>4 DEF ReplyFits, TrueOfTheLog
<1> QED BY <1>1, <1>2, OnlyCommitsWrite

(* What becomes of the calls under way, but for the commit: they go on, begin    *)
(* now, or end.                                                                  *)
LEMMA CallSources ==
    ASSUME TypeOK, [Next]_vars, NEW u \in Sessions, sess'[u] # Idle, ~Commit(u)
    PROVE  \/ /\ sess'[u].at = begun /\ begun' = begun + 1 /\ IsOpen(u)'
              /\ \A w \in Sessions \ {u} : sess'[w] = sess[w]
           \/ /\ sess[u] # Idle /\ sess'[u].at = sess[u].at /\ sess'[u].id = sess[u].id
              /\ sess'[u].op = sess[u].op /\ (IsOpen(u)' <=> IsOpen(u))
<1>1. CASE UNCHANGED vars
  BY <1>1 DEF vars, IsOpen
<1>2. ASSUME NEW s \in Sessions, ReturnExisting(s) \/ RefuseChange(s) PROVE sess' = sess
  BY <1>2 DEF ReturnExisting, RefuseChange
<1>3. ASSUME NEW s \in Sessions,
             BeginCreate(s) \/ (\E op \in {"update", "delete"} : BeginChange(s, op))
      PROVE  /\ begun' = begun + 1 /\ \A w \in Sessions \ {s} : sess'[w] = sess[w]
             /\ sess'[s].at = begun /\ sess'[s].pc = "open"
  BY <1>3 DEF BeginCreate, BeginChange, Starts, TypeOK
<1>4. ASSUME NEW s \in Sessions,
             FlushInsert(s) \/ FlushUpdate(s) \/ FlushNothing(s) \/ AnswerUi(s)
      PROVE  /\ sess[s] # Idle /\ sess'[s].at = sess[s].at /\ sess'[s].id = sess[s].id
             /\ sess'[s].op = sess[s].op
             /\ IsOpen(s) /\ IsOpen(s)' /\ \A w \in Sessions \ {s} : sess'[w] = sess[w]
  <2>1. IsOpen(s) /\ sess[s] \in Tx /\ sess[s] # Idle
    BY <1>4, SessionKinds DEF FlushInsert, FlushUpdate, FlushNothing, AnswerUi, IsOpen
  <2> QED BY <1>4, <2>1 DEF FlushInsert, FlushUpdate, FlushNothing, AnswerUi, TypeOK, Tx, IsOpen
<1>5. ASSUME NEW s \in Sessions,
             FlushInsertFails(s) \/ Abort(s) \/ AnswerChat(s) \/ AnswerLost(s)
      PROVE  sess'[s] = Idle /\ \A w \in Sessions \ {s} : sess'[w] = sess[w]
  BY <1>5 DEF FlushInsertFails, Abort, AnswerChat, AnswerLost, TypeOK
<1>6. ASSUME NEW s \in Sessions, Commit(s)
      PROVE  s # u /\ \A w \in Sessions \ {s} : sess'[w] = sess[w]
  BY <1>6, CommitLeaves
<1>7. CASE Next
  BY <1>2, <1>3, <1>4, <1>5, <1>6, <1>7 DEF Next, Step, Flush, IsOpen
<1> QED BY <1>1, <1>7
----------------------------------------------------------------------------
(* A step keeps the times of calls under way apart, and their entries. *)
LEMMA SessionsStep ==
    ASSUME TypeOK, Locking, TimesFit, [Next]_vars, NEW s \in Sessions, sess'[s] # Idle
    PROVE  SessionFits(s)'
<1>0. begun \in Nat /\ EntriesOf(begun) = {} /\ (begun' = begun \/ begun' = begun + 1)
  BY NoEntryYet, ClockRuns DEF TypeOK
<1>1. \A u \in Sessions : sess[u] # Idle => sess[u].at \in Nat /\ SessionFits(u)
  BY SessionKinds DEF TimesFit, Tx
<1>2. ASSUME NEW u \in Sessions, sess'[u] # Idle
      PROVE  \/ /\ sess'[u].at = begun /\ begun' = begun + 1
                /\ \A w \in Sessions \ {u} : sess'[w] = sess[w]
             \/ sess[u] # Idle /\ sess'[u].at = sess[u].at
  <2>1. CASE Commit(u)
    BY <1>2, <2>1, CommittedRows, EndedSession, SessionKinds DEF Commit
  <2> QED BY <1>2, <2>1, CallSources
<1>3. sess'[s].at < begun'
  BY <1>0, <1>1, <1>2 DEF SessionFits
<1>4. \A u \in Sessions \ {s} : sess'[u] # Idle => sess'[u].at # sess'[s].at
  <2> SUFFICES ASSUME NEW u \in Sessions \ {s}, sess'[u] # Idle
               PROVE  sess'[u].at # sess'[s].at
    OBVIOUS
  <2>1. CASE sess'[s].at = begun /\ begun' = begun + 1 /\ sess'[u] = sess[u]
    BY <2>1, <1>1 DEF SessionFits
  <2>2. CASE sess'[u].at = begun /\ begun' = begun + 1 /\ sess'[s] = sess[s]
    BY <2>2, <1>1 DEF SessionFits
  <2>3. CASE sess[s] # Idle /\ sess'[s].at = sess[s].at /\ sess[u] # Idle /\ sess'[u].at = sess[u].at
    BY <2>3, <1>1 DEF SessionFits
  <2> QED BY <2>1, <2>2, <2>3, <1>2
<1>5. CASE Commit(s)
  <2>1. sess[s] \in Tx /\ ~IsOpen(s)'
    BY <1>5, CommittedRows
  <2>2. sess'[s].at = sess[s].at /\ sess'[s].id = sess[s].id
    BY <1>5, <2>1, EndedSession DEF Commit
  <2>3. \E n \in DOMAIN audit' : EntriesOf(sess[s].at)' = {n} /\ audit'[n].id = sess'[s].id
    BY <1>5, <2>2, CommitEntries
  <2> QED BY <1>3, <1>4, <2>1, <2>2, <2>3 DEF SessionFits
<1>6. ASSUME NEW u \in Sessions \ {s}, Commit(u) PROVE SessionFits(s)'
  <2>1. sess'[s] = sess[s] /\ sess[s] # Idle
    BY <1>6, CommitLeaves
  <2>2. sess[u] # Idle
    BY <1>6, CommittedRows, SessionKinds
  <2>3. sess[s].at # sess[u].at
    BY <2>1, <2>2, <1>1 DEF SessionFits
  <2>4. \A at : at = sess[s].at => EntriesOf(at)' = EntriesOf(at)
    BY <1>6, <2>3, CommitEntries
  <2>5. \A n \in DOMAIN audit : n \in DOMAIN audit' /\ audit'[n] = audit[n]
    BY <1>6, CommitEntries
  <2>6. EntriesOf(sess[s].at)' = EntriesOf(sess[s].at)
    BY <2>1, <2>4 DEF EntriesOf
  <2>7. IsOpen(s)' <=> IsOpen(s)
    BY <2>1 DEF IsOpen
  <2> QED BY <1>1, <1>3, <1>4, <2>1, <2>5, <2>6, <2>7 DEF SessionFits
<1>7. CASE rows' = rows /\ audit' = audit /\ ~Commit(s)
  <2>1. \A at : EntriesOf(at)' = EntriesOf(at)
    BY <1>7 DEF EntriesOf
  <2>2. CASE sess'[s].at = begun /\ IsOpen(s)'
    <3>1. EntriesOf(sess[s].at)' = {}
      BY <1>0, <1>7, <2>2 DEF EntriesOf
    <3> QED BY <1>3, <1>4, <2>2, <3>1 DEF SessionFits
  <2>3. CASE /\ sess[s] # Idle /\ sess'[s].at = sess[s].at /\ sess'[s].id = sess[s].id
             /\ IsOpen(s)' <=> IsOpen(s)
    <3>1. EntriesOf(sess[s].at)' = EntriesOf(sess[s].at)
      BY <1>7, <2>3 DEF EntriesOf
    <3> QED BY <1>1, <1>3, <1>4, <1>7, <2>3, <3>1 DEF SessionFits
  <2> QED BY <1>7, <2>2, <2>3, CallSources
<1> QED BY <1>5, <1>6, <1>7, OnlyCommitsWrite

(* Every row has the entry that created it. *)
RowsHaveCreations ==
    \A i \in Ids : rows[i] # NoRow =>
        \E n \in DOMAIN audit : audit[n].id = i /\ audit[n].action = "create"

(* What an MCP tool answers is true when it is sent, and stays so. *)
LEMMA RepliesStep ==
    ASSUME TypeOK, Locking, TimesFit, RowsHaveCreations, [Next]_vars,
           NEW r \in replies', r.session \notin UiSessions
    PROVE  ReplyFits(r)'
<1>0. begun \in Nat /\ EntriesOf(begun) = {} /\ (begun' = begun \/ begun' = begun + 1)
  BY NoEntryYet, ClockRuns DEF TypeOK
<1>1. \A u \in Sessions : sess[u] # Idle => sess[u].at \in Nat /\ SessionFits(u)
  BY SessionKinds DEF TimesFit, Tx
<1>2. ASSUME NEW u \in Sessions, sess'[u] # Idle
      PROVE  \/ sess'[u].at = begun /\ begun' = begun + 1 /\ sess' # sess
             \/ sess[u] # Idle /\ sess'[u].at = sess[u].at
  <2>1. CASE Commit(u)
    BY <1>2, <2>1, CommittedRows, EndedSession, SessionKinds DEF Commit
  <2>2. CASE sess' = sess
    BY <1>2, <2>2
  <2> QED BY <1>2, <2>1, <2>2, CallSources
<1>3. CASE r \in replies
  <2>1. ReplyFits(r) /\ r.at \in Nat /\ r.id \in Ids
    BY <1>3 DEF TimesFit, TypeOK, Reply
  <2>2. r.at < begun' /\ \A u \in Sessions : sess'[u] # Idle => sess'[u].at # r.at
    BY <2>1, <1>0, <1>2 DEF ReplyFits
  <2> QED BY <2>1, <2>2, TruthStays DEF ReplyFits
<1>4. CASE r \notin replies /\ r.status \in {"existing", "missing"}
  <2> DEFINE s == r.session
  <2>1. /\ s \in Sessions /\ r.at = begun /\ (ReturnExisting(s) \/ RefuseChange(s))
        /\ r.status = "existing" => r.id \in Ids /\ rows[r.id] # NoRow /\ rows[r.id].key = r.key
    BY <1>4, AnswerSources
  <2>2. rows' = rows /\ audit' = audit /\ sess' = sess /\ begun' = begun + 1
    BY <2>1 DEF ReturnExisting, RefuseChange, Starts
  <2>3. r.at < begun' /\ \A u \in Sessions : sess'[u] # Idle => sess'[u].at # r.at
    BY <2>1, <2>2, <1>0, <1>1 DEF SessionFits
  <2>4. EntriesOf(r.at)' = {}
    BY <2>1, <2>2, <1>0 DEF EntriesOf
  <2>5. r.status = "existing" =>
           \E n \in DOMAIN audit : /\ audit[n].id = r.id /\ audit[n].action = "create"
                                  /\ audit[n].at < r.at
    BY <2>1 DEF RowsHaveCreations, TimesFit
  <2> QED BY <1>4, <2>1, <2>2, <2>3, <2>4, <2>5 DEF ReplyFits, TrueOfTheLog
<1>5. CASE r \notin replies /\ r.status \in {"ok", "raised"}
  <2> DEFINE s == r.session
  <2>1. /\ s \in Sessions /\ r.at = sess[s].at
        /\ r.status = "ok" => AnswerChat(s) /\ r.id = sess[s].id
        /\ r.status = "raised" => FlushInsertFails(s)
    BY <1>5, AnswerSources
  <2> HIDE DEF s
  <2>2. /\ rows' = rows /\ audit' = audit /\ begun' = begun
        /\ sess' = [sess EXCEPT ![s] = Idle]
        /\ r.status = "ok" => sess[s].pc = "committed"
        /\ r.status = "raised" => sess[s].pc = "open"
    BY <1>5, <2>1 DEF AnswerChat, FlushInsertFails
  <2>3. sess[s] # Idle /\ SessionFits(s) /\ (IsOpen(s) <=> r.status = "raised")
    BY <1>1, <1>5, <2>1, <2>2 DEF Idle, IsOpen
  <2>4. r.at < begun' /\ \A u \in Sessions : sess'[u] # Idle => sess'[u].at # r.at
    BY <2>1, <2>2, <2>3 DEF SessionFits, TypeOK
  <2>5. EntriesOf(r.at)' = EntriesOf(sess[s].at)
    BY <2>1, <2>2 DEF EntriesOf
  <2> QED BY <1>5, <2>1, <2>2, <2>3, <2>4, <2>5 DEF ReplyFits, SessionFits, TrueOfTheLog
<1>6. r.status \in {"ok", "existing", "missing", "raised"}
  BY <1>3, <1>4, <1>5, AnswerSources DEF TypeOK, Reply
<1> QED BY <1>3, <1>4, <1>5, <1>6

(* Whatever an MCP tool told its caller is true of the log, for any callers,     *)
(* crashes and lost answers: "ok" means committed once, "raised" means nothing.  *)
THEOREM ChatAnswersTrue == Spec => []ChatAnswersAreTrue
<1>1. Init => TimesFit
  BY DEF Init, TimesFit, Idle
<1>2. IInv /\ RowsHaveCreations /\ TimesFit /\ [Next]_vars => TimesFit'
  <2> SUFFICES ASSUME TypeOK, Locking, RowsHaveCreations, TimesFit, [Next]_vars PROVE TimesFit'
    BY DEF IInv, Locking
  <2>1. \A n \in DOMAIN audit' : audit'[n].at < begun'
    <3>1. CASE audit' = audit
      <4>1. begun \in Nat /\ \A n \in DOMAIN audit : audit[n].at \in Nat
        <5>1. audit \in Seq(Entry)
          BY DEF TypeOK
        <5>2. \A n \in DOMAIN audit : audit[n] \in Entry
          BY <5>1
        <5> QED BY <5>2 DEF TypeOK, Entry
      <4> QED BY <3>1, <4>1, ClockRuns DEF TimesFit
    <3> QED BY <3>1, CommitEntries, OnlyCommitsWrite
  <2> QED BY <2>1, SessionsStep, RepliesStep DEF TimesFit
<1>3. LedgerReplaysFromAudit /\ TypeOK => RowsHaveCreations
  BY DEF LedgerReplaysFromAudit, Audited!Replay, Audited!Creates, RowsHaveCreations
<1>4. TimesFit => ChatAnswersAreTrue
  BY DEF TimesFit, ReplyFits, ChatAnswersAreTrue
<1>5. IInv => TypeOK
  BY DEF IInv
<1> QED BY <1>1, <1>2, <1>3, <1>4, <1>5, Invariance, AuditReplay, PTL DEF Spec
----------------------------------------------------------------------------
(* Every entry is of a row that is there and of a transaction that began; one    *)
(* that creates a row began before every open transaction that changes the row.  *)
CreatedBefore ==
    /\ \A n \in DOMAIN audit : rows[audit[n].id] # NoRow /\ audit[n].at < begun
    /\ \A n \in DOMAIN audit, s \in Sessions :
          /\ IsOpen(s) /\ sess[s].op # "create"
          /\ audit[n].action = "create" /\ audit[n].id = sess[s].id
          => audit[n].at < sess[s].at

(* What an open session is about was so when it began.                           *)
LEMMA SessionsKeepTheirs ==
    ASSUME TypeOK, [Next]_vars, NEW u \in Sessions, IsOpen(u)'
    PROVE  \/ sess'[u].at = begun
           \/ /\ IsOpen(u) /\ sess'[u].at = sess[u].at
              /\ sess'[u].id = sess[u].id /\ sess'[u].op = sess[u].op
<1>1. sess'[u] # Idle
  BY DEF IsOpen, Idle
<1>2. ASSUME Commit(u) PROVE FALSE
  <2>1. sess[u] \in Tx
    BY <1>2, SessionKinds DEF Commit
  <2> QED BY <1>2, <2>1, EndedSession DEF Commit
<1> QED BY <1>1, <1>2, CallSources

(* A commit adds an entry after the creation of its row, or as its creation.     *)
LEMMA CommitKeepsOrder ==
    ASSUME TypeOK, Locking, HistoryStartsWithCreate, CreatedBefore, NEW s \in Sessions, Commit(s)
    PROVE  (HistoryStartsWithCreate /\ CreatedBefore)'
<1> DEFINE N == Len(audit) + 1
           e == EntryOf(sess[s])
<1>1. /\ sess[s] \in Tx /\ Fits(s) /\ HasFlushed(s) /\ IsOpen(s)
      /\ rows'[sess[s].id] # NoRow
      /\ \A i \in Ids : rows[i] # NoRow => rows'[i] # NoRow
  BY CommittedRows, RowsKeepKeys, SessionKinds DEF Next, Step, HasFlushed, IsOpen
<1>2. e \in Entry /\ e.id = sess[s].id /\ e.action = sess[s].op /\ e.at = sess[s].at
  BY <1>1 DEF EntryOf, Entry, Tx
<1> HIDE DEF e
<1>3. /\ audit' = Append(audit, e) /\ audit \in Seq(Entry) /\ begun' = begun
      /\ begun \in Nat
  BY DEF Commit, TypeOK, e
<1>4. /\ DOMAIN audit' = DOMAIN audit \cup {N} /\ N \notin DOMAIN audit
      /\ \A n \in DOMAIN audit : audit'[n] = audit[n] /\ n < N /\ audit[n] \in Entry
      /\ audit'[N] = e
  BY <1>3
<1> HIDE DEF N
<1>5. \A n \in DOMAIN audit : audit[n].id = e.id =>
         e.action # "create" /\ (audit[n].action = "create" => audit[n].at < e.at)
  BY <1>1, <1>2 DEF CreatedBefore, Fits
<1>6. HistoryStartsWithCreate'
  <2> SUFFICES ASSUME NEW m \in DOMAIN audit', NEW n \in DOMAIN audit',
                      audit'[m].id = audit'[n].id, audit'[m].action = "create", m # n
               PROVE  /\ m < n /\ audit'[n].action # "create" /\ audit'[m].at < audit'[n].at
    BY DEF HistoryStartsWithCreate
  <2>1. CASE m \in DOMAIN audit /\ n \in DOMAIN audit
    BY <1>4, <2>1 DEF HistoryStartsWithCreate
  <2>2. CASE m \in DOMAIN audit /\ n = N
    BY <1>4, <1>5, <2>2
  <2>3. CASE m = N /\ n \in DOMAIN audit
    BY <1>4, <1>5, <2>3
  <2> QED BY <1>4, <2>1, <2>2, <2>3
<1>7. \A n \in DOMAIN audit' : rows'[audit'[n].id] # NoRow /\ audit'[n].at < begun'
  BY <1>1, <1>2, <1>3, <1>4 DEF CreatedBefore, Fits, Entry
<1>8. ASSUME NEW n \in DOMAIN audit', NEW u \in Sessions,
             IsOpen(u)', sess'[u].op # "create",
             audit'[n].action = "create", audit'[n].id = sess'[u].id
      PROVE  audit'[n].at < sess'[u].at
  <2>1. u # s /\ sess'[u] = sess[u] /\ IsOpen(u)
    BY <1>1, <1>8, CommittedRows DEF IsOpen
  <2>2. CASE n \in DOMAIN audit
    BY <1>4, <1>8, <2>1, <2>2 DEF CreatedBefore
  <2>3. CASE n = N
    <3>1. rows[sess[u].id] # NoRow
      BY <1>8, <2>1 DEF Locking, PendingFits, Fits
    <3>2. sess[s].op = "create" /\ rows[sess[s].id] = NoRow /\ sess[s].id = sess[u].id
      BY <1>1, <1>2, <1>4, <1>8, <2>1, <2>3 DEF Fits
    <3> QED BY <3>1, <3>2
  <2> QED BY <1>4, <2>2, <2>3
<1> QED BY <1>6, <1>7, <1>8 DEF CreatedBefore

(* A row's history begins with its creation, by position and by time.            *)
THEOREM HistoryBegins == Spec => []HistoryStartsWithCreate
<1> DEFINE Inv == HistoryStartsWithCreate /\ CreatedBefore
<1>1. Init => Inv
  BY DEF Init, HistoryStartsWithCreate, CreatedBefore
<1>2. IInv /\ Inv /\ [Next]_vars => Inv'
  <2> SUFFICES ASSUME TypeOK, Locking, HistoryStartsWithCreate, CreatedBefore, [Next]_vars
               PROVE  Inv'
    BY DEF IInv, Locking
  <2>1. audit' = audit \/ \E s \in Sessions : Commit(s)
    BY OnlyCommitsWrite
  <2>2. CASE audit' = audit
    <3>1. HistoryStartsWithCreate'
      BY <2>2 DEF HistoryStartsWithCreate
    <3>2. /\ begun' \in Nat /\ begun \in Nat /\ begun' >= begun
          /\ \A n \in DOMAIN audit : audit[n] \in Entry
      <4>1. begun \in Nat /\ audit \in Seq(Entry)
        BY DEF TypeOK
      <4>2. \A n \in DOMAIN audit : audit[n] \in Entry
        BY <4>1
      <4> QED BY <4>1, <4>2, ClockRuns
    <3>3. \A n \in DOMAIN audit' : rows'[audit'[n].id] # NoRow /\ audit'[n].at < begun'
      BY <2>2, <3>2, RowsKeepKeys DEF CreatedBefore, Entry
    <3>4. ASSUME NEW n \in DOMAIN audit', NEW u \in Sessions,
                 IsOpen(u)', sess'[u].op # "create",
                 audit'[n].action = "create", audit'[n].id = sess'[u].id
          PROVE  audit'[n].at < sess'[u].at
      BY <2>2, <3>2, <3>4, SessionsKeepTheirs DEF CreatedBefore
    <3> QED BY <3>1, <3>3, <3>4 DEF CreatedBefore
  <2> QED BY <2>1, <2>2, CommitKeepsOrder
<1> QED BY <1>1, <1>2, Invariance, PTL DEF Spec
----------------------------------------------------------------------------
(* They are what the guards of the flushes are about. *)
LEMMA HoldersAreAwaited ==
    ASSUME NEW s \in Sessions, sess[s].pc = "open"
    PROVE  /\ sess[s].op = "create" => (InsertWaits(s) <=> Holders(s) # {})
           /\ sess[s].op # "create" /\ sess[s].before # sess[s].after
                => (UpdateWaits(s) <=> Holders(s) # {})
  BY DEF Holders, InsertWaits, UpdateWaits, Wrote, HasFlushed

(* No cycle and no chain of lock waits, for any number of sessions and keys.         *)
THEOREM LockWaitsAreShort == Spec => []OneHolderWhoGoesOn
<1>1. ASSUME IInv, NEW s \in Sessions, Holders(s) # {}
      PROVE  \E u \in Sessions : /\ Holders(s) = {u} /\ Holders(u) = {}
                                 /\ sess[u].pc \in {"flushed", "answered"}
  <2>1. PICK u \in Sessions : u \in Holders(s)
    BY <1>1 DEF Holders
  <2>2. ASSUME NEW w \in Holders(s) PROVE w = u
    <3>1. w \in Sessions /\ Wrote(w) /\ Wrote(u) /\ IsOpen(w) /\ IsOpen(u)
      BY <2>1 DEF Holders, Wrote, HasFlushed, IsOpen
    <3>2. CASE sess[s].op = "create"
      BY <1>1, <2>1, <3>1, <3>2 DEF Holders, IInv, OneWriterEach
    <3>3. CASE sess[s].op # "create"
      BY <1>1, <2>1, <3>1, <3>3 DEF Holders, IInv, OneWriterEach
    <3> QED BY <3>2, <3>3
  <2>3. sess[u].pc \in {"flushed", "answered"} /\ Holders(u) = {}
    BY <2>1 DEF Holders, Wrote, HasFlushed
  <2> QED BY <2>1, <2>2, <2>3
<1>2. IInv => OneHolderWhoGoesOn
  BY <1>1 DEF OneHolderWhoGoesOn
<1> QED BY <1>2, Invariance, PTL
============================================================================
