------------------------ MODULE AuditedLedgerProofs ------------------------
(***************************************************************************)
(* AuditedLedger keeps rows and log in agreement, for any number of rows,  *)
(* keys, columns and values.                                               *)
(***************************************************************************)
EXTENDS AuditedLedger, TLAPS

(* Appending to the log keeps its entries and adds one at the end. *)
LEMMA AppendFacts ==
    ASSUME audit \in Seq(Entry), NEW e \in Entry, audit' = Append(audit, e)
    PROVE  /\ audit' \in Seq(Entry)
           /\ Len(audit) \in Nat
           /\ DOMAIN audit = 1 .. Len(audit)
           /\ DOMAIN audit' = DOMAIN audit \cup {Len(audit) + 1}
           /\ \A n \in DOMAIN audit : audit'[n] = audit[n] /\ n < Len(audit) + 1
           /\ \A n \in DOMAIN audit : audit[n] \in Entry
           /\ audit'[Len(audit) + 1] = e
  OBVIOUS

(* A patched row is a row. *)
LEMMA PatchedRow ==
    ASSUME NEW row \in Row, NEW before \in Snapshot, NEW after \in Snapshot
    PROVE  Patched(row, before, after) \in Row
  BY DEF Patched, Row, Snapshot, Data

(* NoRow is not a row. *)
LEMMA RowIsSome == ASSUME NEW row \in Row PROVE row # NoRow
  BY NoRowAssumption DEF Row, Data

(* Every step appends one entry and changes only that entry's row. *)
LEMMA StepShape ==
    ASSUME TypeOK, Next
    PROVE  \E e \in Entry : /\ audit' = Append(audit, e)
                            /\ \/ Amend(e)
                               \/ \E k \in Keys \cup {NoKey} : Record(e, k)
<1> DEFINE e == audit'[Len(audit) + 1]
<1>1. e \in Entry /\ (Amend(e) \/ \E k \in Keys \cup {NoKey} : Record(e, k))
  BY DEF Next
<1>2. audit' = Append(audit, e)
  BY <1>1 DEF Amend, Record
<1> QED BY <1>1, <1>2

(* Type correctness of rows and log. *)
LEMMA TypeStep == TypeOK /\ [Next]_vars => TypeOK'
<1> SUFFICES ASSUME TypeOK, [Next]_vars PROVE TypeOK'
  OBVIOUS
<1>1. CASE UNCHANGED vars
  BY <1>1 DEF TypeOK, vars
<1>2. CASE Next
  <2>1. PICK e \in Entry : /\ audit' = Append(audit, e)
                           /\ \/ Amend(e)
                              \/ \E k \in Keys \cup {NoKey} : Record(e, k)
    BY <1>2, StepShape
  <2>2. audit' \in Seq(Entry)
    BY <2>1, AppendFacts DEF TypeOK
  <2>3. CASE Amend(e)
    <3>1. rows[e.id] \in Row
      BY <2>3 DEF Amend, TypeOK, Entry
    <3>2. Patched(rows[e.id], e.before, e.after) \in Row
      BY <3>1, PatchedRow DEF Entry
    <3> QED BY <2>2, <2>3, <3>2 DEF Amend, TypeOK
  <2>4. ASSUME NEW k \in Keys \cup {NoKey}, Record(e, k) PROVE TypeOK'
    <3>1. [key |-> k, data |-> e.after.data, deleted |-> FALSE] \in Row
      BY DEF Row, Entry, Snapshot
    <3> QED BY <2>2, <2>4, <3>1 DEF Record, TypeOK
  <2> QED BY <2>1, <2>3, <2>4
<1> QED BY <1>1, <1>2 DEF vars

(* Replay is not inductive: that a new row's id has no entry yet needs every     *)
(* entry to be about a row that is there.                                        *)
EntriesHaveRows == \A n \in DOMAIN audit : rows[audit[n].id] # NoRow

(* A step keeps the log replayable: the appended entry is the last one that     *)
(* sets the columns it changes, and no other row or column is touched.          *)
LEMMA ReplayStep ==
    TypeOK /\ Replay /\ EntriesHaveRows /\ [Next]_vars => Replay' /\ EntriesHaveRows'
<1> SUFFICES ASSUME TypeOK, Replay, EntriesHaveRows, [Next]_vars
             PROVE  Replay' /\ EntriesHaveRows'
  OBVIOUS
<1>1. CASE UNCHANGED vars
  BY <1>1 DEF Replay, EntriesHaveRows, vars
<1>2. CASE Next
  <2>1. PICK e \in Entry : /\ audit' = Append(audit, e)
                           /\ \/ Amend(e)
                              \/ \E k \in Keys \cup {NoKey} : Record(e, k)
    BY <1>2, StepShape
  <2> DEFINE last == Len(audit) + 1
  <2>2. /\ DOMAIN audit' = DOMAIN audit \cup {last}
        /\ \A n \in DOMAIN audit : audit'[n] = audit[n] /\ n < last
        /\ audit'[last] = e
        /\ last \in Nat /\ DOMAIN audit \subseteq Nat
        /\ \A n \in DOMAIN audit : audit[n] \in Entry
    BY <2>1, AppendFacts DEF TypeOK
  <2>3. e.id \in Ids /\ e.before \in Snapshot /\ e.after \in Snapshot
    BY DEF Entry
  <2> HIDE DEF last
  <2>4. \A n \in DOMAIN audit : audit[n] \in Entry /\ audit[n].id \in Ids
    BY <2>2 DEF Entry
  <2>5. TypeOK'
    BY TypeStep
  <2>6. CASE Amend(e)
    <3>1. rows[e.id] \in Row
      BY <2>6 DEF Amend, TypeOK, Entry
    <3> DEFINE new == Patched(rows[e.id], e.before, e.after)
    <3>0. new \in Row /\ new # NoRow
      BY <2>3, <3>1, PatchedRow, RowIsSome
    <3>2. new.deleted = (IF e.before.deleted = e.after.deleted THEN rows[e.id].deleted
                         ELSE e.after.deleted)
      BY <2>3, <3>1 DEF Patched, Row, Snapshot
    <3>9. \A c \in Columns : new.data[c] = (IF c \in Changed(e.before, e.after)
                                     THEN e.after.data[c] ELSE rows[e.id].data[c])
      BY <2>3, <3>1 DEF Patched, Row, Snapshot, Data
    <3> HIDE DEF new
    <3>3. /\ rows'[e.id] = new
          /\ \A i \in Ids : i # e.id => rows'[i] = rows[i]
          /\ e.action \in {"update", "delete"}
          /\ ~e.before.deleted /\ e.after.deleted = (e.action = "delete")
          /\ rows[e.id] # NoRow
      BY <2>6, <2>3 DEF Amend, TypeOK, new
    <3>4. \A i \in Ids : rows'[i] # NoRow <=> \E n \in DOMAIN audit' : Creates(audit'[n], i)
      BY <2>2, <3>0, <3>3 DEF Replay, Creates
    <3>5. \A i \in Ids : rows'[i] # NoRow =>
             (rows'[i].deleted <=> \E n \in DOMAIN audit' :
                                       audit'[n].id = i /\ audit'[n].action = "delete")
      <4> SUFFICES ASSUME NEW i \in Ids, rows'[i] # NoRow
                   PROVE  rows'[i].deleted <=> \E n \in DOMAIN audit' :
                                       audit'[n].id = i /\ audit'[n].action = "delete"
        OBVIOUS
      <4>1. CASE i # e.id
        BY <4>1, <2>2, <3>3 DEF Replay
      <4>2. CASE i = e.id /\ e.action = "delete"
        <5>1. new.deleted
          BY <4>2, <3>2, <3>3
        <5> QED BY <5>1, <4>2, <2>2, <3>3
      <4>3. CASE i = e.id /\ e.action # "delete"
        <5>1. new.deleted = rows[e.id].deleted
          <6>1. e.before.deleted = e.after.deleted
            BY <4>3, <3>3, <2>3 DEF Snapshot
          <6> QED BY <6>1, <3>2
        <5> QED BY <5>1, <4>3, <2>2, <3>3 DEF Replay
      <4> QED BY <4>1, <4>2, <4>3
    <3>6. ASSUME NEW n \in DOMAIN audit', NEW c \in Columns,
                 Sets(audit'[n], audit'[n].id, c),
                 \A m \in DOMAIN audit' : m > n => ~Sets(audit'[m], audit'[n].id, c)
          PROVE  rows'[audit'[n].id].data[c] = audit'[n].after.data[c]
      <4>1. CASE n = last
        BY <4>1, <2>2, <3>9, <3>3, <3>6 DEF Sets
      <4>2. CASE n # last
        <5>1. n \in DOMAIN audit /\ audit'[n] = audit[n] /\ last > n
          BY <4>2, <2>2
        <5>2. rows[audit[n].id].data[c] = audit[n].after.data[c]
          BY <5>1, <3>6, <2>2 DEF Replay
        <5>3. ~Sets(e, audit[n].id, c)
          BY <5>1, <3>6, <2>2
        <5>4. CASE audit[n].id = e.id
          BY <5>1, <5>2, <5>3, <5>4, <3>9, <3>3 DEF Sets
        <5>5. CASE audit[n].id # e.id
          BY <5>1, <5>2, <5>5, <2>4, <3>3
        <5> QED BY <5>4, <5>5
      <4> QED BY <4>1, <4>2
    <3>7. EntriesHaveRows'
      BY <2>2, <2>4, <3>0, <3>3 DEF EntriesHaveRows
    <3> QED BY <3>4, <3>5, <3>6, <3>7 DEF Replay
  <2>7. ASSUME NEW k \in Keys \cup {NoKey}, Record(e, k)
        PROVE  Replay' /\ EntriesHaveRows'
    <3> DEFINE new == [key |-> k, data |-> e.after.data, deleted |-> FALSE]
    <3>1. new \in Row /\ new # NoRow /\ new.data = e.after.data /\ ~new.deleted
      BY <2>3, RowIsSome DEF Row, Snapshot
    <3> HIDE DEF new
    <3>2. /\ rows'[e.id] = new
          /\ \A i \in Ids : i # e.id => rows'[i] = rows[i]
          /\ e.action = "create"
          /\ rows[e.id] = NoRow
      BY <2>7, <2>3 DEF Record, TypeOK, new
    <3>3. \A i \in Ids : rows'[i] # NoRow <=> \E n \in DOMAIN audit' : Creates(audit'[n], i)
      BY <2>2, <2>3, <3>1, <3>2 DEF Replay, Creates
    <3>4. \A n \in DOMAIN audit : audit[n].id # e.id
      BY <3>2 DEF EntriesHaveRows
    <3>5. \A i \in Ids : rows'[i] # NoRow =>
             (rows'[i].deleted <=> \E n \in DOMAIN audit' :
                                       audit'[n].id = i /\ audit'[n].action = "delete")
      <4> SUFFICES ASSUME NEW i \in Ids, rows'[i] # NoRow
                   PROVE  rows'[i].deleted <=> \E n \in DOMAIN audit' :
                                       audit'[n].id = i /\ audit'[n].action = "delete"
        OBVIOUS
      <4>1. CASE i # e.id
        BY <4>1, <2>2, <3>2 DEF Replay
      <4>2. CASE i = e.id
        BY <4>2, <2>2, <3>1, <3>2, <3>4
      <4> QED BY <4>1, <4>2
    <3>6. ASSUME NEW n \in DOMAIN audit', NEW c \in Columns,
                 Sets(audit'[n], audit'[n].id, c),
                 \A m \in DOMAIN audit' : m > n => ~Sets(audit'[m], audit'[n].id, c)
          PROVE  rows'[audit'[n].id].data[c] = audit'[n].after.data[c]
      <4>1. CASE n = last
        BY <4>1, <2>2, <3>1, <3>2
      <4>2. CASE n # last
        <5>1. n \in DOMAIN audit /\ audit'[n] = audit[n] /\ audit[n].id # e.id
          BY <4>2, <2>2, <3>4
        <5>2. rows[audit[n].id].data[c] = audit[n].after.data[c]
          BY <5>1, <3>6, <2>2 DEF Replay
        <5> QED BY <5>1, <5>2, <2>4, <3>2
      <4> QED BY <4>1, <4>2
    <3>7. EntriesHaveRows'
      BY <2>2, <2>4, <3>1, <3>2 DEF EntriesHaveRows
    <3> QED BY <3>3, <3>5, <3>6, <3>7 DEF Replay
  <2> QED BY <2>1, <2>6, <2>7
<1> QED BY <1>1, <1>2 DEF vars

(* AuditedLedger's type invariant.                                               *)
THEOREM TypeCorrect == Spec => []TypeOK
<1>1. Init => TypeOK
  BY DEF Init, TypeOK
<1>2. TypeOK /\ [Next]_vars => TypeOK'
  BY TypeStep
<1> QED BY <1>1, <1>2, PTL DEF Spec

(* An audited ledger is always what its log's differences replay to.             *)
THEOREM ReplayCorrect == Spec => []Replay
<1>1. Init => Replay /\ EntriesHaveRows
  BY DEF Init, Replay, EntriesHaveRows, Creates
<1>2. TypeOK /\ Replay /\ EntriesHaveRows /\ [Next]_vars => Replay' /\ EntriesHaveRows'
  BY ReplayStep
<1> QED BY <1>1, <1>2, TypeCorrect, PTL DEF Spec
============================================================================
