---------------------------- MODULE BackupProofs ----------------------------
(***************************************************************************)
(* Theorems about Backup, for any keys, retention and bounds: what is kept *)
(* for how long, that a drill leaves transactions and audit_log alone, and *)
(* that a restore brings rows and history together.                        *)
(***************************************************************************)
EXTENDS Backup, TLAPS

Dump == [rows : Tables, log : SUBSET Entry, whole : BOOLEAN, mixed : BOOLEAN]

LEMMA Numbers ==
    /\ Retention \in Nat /\ MaxDay \in Nat /\ MaxId \in Nat
    /\ MaxVersion \in Nat \ {0} /\ MaxRestores \in Nat
BY NumbersAssumption

(* A table is a function from some of the keys to rows.                          *)
LEMMA TableForm ==
    ASSUME NEW T
    PROVE  T \in Tables <=> DOMAIN T \subseteq Keys /\ T \in [DOMAIN T -> Row]
<1>1. ASSUME T \in Tables
      PROVE  DOMAIN T \subseteq Keys /\ T \in [DOMAIN T -> Row]
    <2>1. PICK K \in SUBSET Keys : T \in [K -> Row]
        BY <1>1 DEF Tables
    <2>2. QED BY <2>1
<1>2. ASSUME DOMAIN T \subseteq Keys, T \in [DOMAIN T -> Row]
      PROVE  T \in Tables
    BY <1>2 DEF Tables
<1>3. QED BY <1>1, <1>2

LEMMA EmptyTable == << >> \in Tables /\ DOMAIN << >> = {}
<1>1. DOMAIN << >> = {} /\ << >> \in [{} -> Row]
    OBVIOUS
<1>2. QED BY <1>1, TableForm

LEMMA WithType ==
    ASSUME NEW T \in Tables, NEW key \in Keys, NEW row \in Row
    PROVE  /\ With(T, key, row) \in Tables
           /\ DOMAIN With(T, key, row) = DOMAIN T \cup {key}
           /\ \A k \in DOMAIN T \cup {key} :
                 With(T, key, row)[k] = IF k = key THEN row ELSE T[k]
BY TableForm DEF With

LEMMA CopiedType ==
    ASSUME NEW T \in Tables, NEW U \in Tables
    PROVE  Copied(T, U) \in Tables
BY TableForm DEF Copied

(* COPY of rows whose keys are all there changes nothing.                        *)
LEMMA CopiedAgain ==
    ASSUME NEW T \in Tables, NEW U, DOMAIN U \subseteq DOMAIN T
    PROVE  Copied(T, U) = T
BY TableForm DEF Copied

LEMMA PartType ==
    ASSUME NEW T \in Tables, NEW K \in SUBSET DOMAIN T
    PROVE  /\ [k \in K |-> T[k]] \in Tables
           /\ DOMAIN [k \in K |-> T[k]] = K
           /\ K = DOMAIN T => [k \in K |-> T[k]] = T
BY TableForm
----------------------------------------------------------------------------
(* Types.                                                                        *)

(* A restore under way holds a table.                                            *)
LEMMA RestoringForm ==
    ASSUME TypeOK
    PROVE  /\ restoring.on \in BOOLEAN
           /\ restoring.on => restoring.rows \in Tables /\ restoring.whole \in BOOLEAN
           /\ ~restoring.on => restoring = NoRestore
<1>1. CASE restoring = NoRestore
    <2>1. restoring.on = FALSE
        BY <1>1 DEF NoRestore
    <2>2. QED BY <1>1, <2>1
<1>2. CASE restoring \in [on : {TRUE}, whole : BOOLEAN, rows : Tables]
    BY <1>2
<1>3. QED BY <1>1, <1>2 DEF TypeOK

LEMMA TypeInit == ASSUME Init PROVE TypeOK
<1>1. DOMAIN dumps = {} /\ rows \in Tables
    BY EmptyTable DEF Init
<1>2. born \in 0 .. MaxId /\ day \in 0 .. MaxDay /\ restores \in 0 .. MaxRestores
    BY Numbers DEF Init
<1>3. QED BY <1>1, <1>2 DEF Init, TypeOK

LEMMA TypePut ==
    ASSUME TypeOK, NEW key \in Keys, NEW row \in Row, Put(key, row), born' \in 0 .. MaxId
    PROVE  TypeOK'
<1>1. rows' \in Tables
    BY WithType DEF TypeOK, Put
<1>2. log' \subseteq Entry
    BY DEF TypeOK, Put, Row, Entry
<1>3. QED BY <1>1, <1>2 DEF TypeOK, Put, files

(* A dump of the tables as they are is a dump.                                   *)
LEMMA TypeDumpBegins == ASSUME TypeOK, DumpBegins PROVE TypeOK'
<1>1. DOMAIN dumps' = DOMAIN dumps \cup {day} /\ day \in 0 .. day
    BY Numbers DEF TypeOK, DumpBegins, With
<1>2. ASSUME NEW d \in DOMAIN dumps' PROVE dumps'[d] \in Dump
    BY <1>1 DEF TypeOK, DumpBegins, With, Dump
<1>3. QED BY <1>1, <1>2 DEF TypeOK, DumpBegins, ledger, Dump

LEMMA TypeDumpEnds == ASSUME TypeOK, DumpEnds PROVE TypeOK'
<1>1. DOMAIN dumps' = DOMAIN dumps /\ day \in 0 .. day
    BY Numbers DEF TypeOK, DumpEnds
<1>2. ASSUME NEW d \in DOMAIN dumps' PROVE dumps'[d] \in Dump
    <2>1. dumps[d] \in Dump
        BY <1>1, <1>2 DEF TypeOK, Dump
    <2>2. dumps'[d] = IF d = day THEN [dumps[d] EXCEPT !.whole = TRUE] ELSE dumps[d]
        BY <1>1, <1>2 DEF DumpEnds
    <2>3. QED BY <2>1, <2>2 DEF Dump
<1>3. QED BY <1>1, <1>2 DEF TypeOK, DumpEnds, ledger, Dump

LEMMA TypePrune == ASSUME TypeOK, Prune PROVE TypeOK'
BY DEF TypeOK, Prune, ledger, Expired

(* The other steps of the container.                                             *)
LEMMA TypeService ==
    ASSUME TypeOK, NextDay \/ DumpBreaksOff \/ Stops \/ Starts
    PROVE  TypeOK'
<1>1. CASE NextDay
    <2>1. day' \in 0 .. MaxDay /\ 0 .. day \subseteq 0 .. day'
        BY <1>1, Numbers DEF TypeOK, NextDay
    <2>2. service' \in {"due", "dumping", "pruning", "asleep", "stopped"}
        BY <1>1 DEF NextDay
    <2>3. completed' \subseteq 0 .. day' /\ DOMAIN dumps' \subseteq 0 .. day'
        BY <1>1, <2>1 DEF TypeOK, NextDay
    <2>4. QED BY <1>1, <2>1, <2>2, <2>3 DEF TypeOK, NextDay, ledger
<1>2. CASE DumpBreaksOff
    BY <1>2 DEF TypeOK, DumpBreaksOff, ledger
<1>3. CASE Stops
    BY <1>3 DEF TypeOK, Stops, ledger
<1>4. CASE Starts
    BY <1>4 DEF TypeOK, Starts, ledger
<1>5. QED BY <1>1, <1>2, <1>3, <1>4

LEMMA TypeRestoreLog ==
    ASSUME TypeOK, NEW d \in 0 .. MaxDay, RestoreLog(d)
    PROVE  TypeOK'
<1>1. dumps[d] \in Dump
    BY DEF TypeOK, RestoreLog, Dump
<1>2. PICK part \in SUBSET dumps[d].log :
         /\ log' = CopiedLog(part)
         /\ restoring' = [on |-> TRUE, whole |-> dumps[d].whole, rows |->
                             IF part = dumps[d].log THEN dumps[d].rows ELSE << >>]
    BY DEF RestoreLog
<1>3. log' \subseteq Entry
    BY <1>1, <1>2 DEF TypeOK, CopiedLog, Dump
<1>4. restoring' \in [on : {TRUE}, whole : BOOLEAN, rows : Tables]
    BY <1>1, <1>2, EmptyTable DEF Dump
<1>5. mixed' \in BOOLEAN
    BY <1>1 DEF RestoreLog, TypeOK, Dump, RerecordedSince
<1>6. QED BY <1>3, <1>4, <1>5, Numbers DEF TypeOK, RestoreLog, files

LEMMA TypeRestoreRows == ASSUME TypeOK, RestoreRows PROVE TypeOK'
<1>1. restoring.rows \in Tables
    BY RestoringForm DEF RestoreRows
<1>2. rows' \in Tables
    BY <1>1, PartType, CopiedType DEF TypeOK, RestoreRows
<1>3. QED BY <1>2 DEF TypeOK, RestoreRows, files

LEMMA TypeStep == ASSUME TypeOK, [Next]_vars PROVE TypeOK'
<1>1. ASSUME NEW key \in Keys, Record(key) PROVE TypeOK'
    <2>1. [id |-> born + 1, version |-> 1] \in Row
        <3>1. born + 1 \in 1 .. MaxId /\ 1 \in 1 .. MaxVersion
            BY <1>1, Numbers DEF Record, TypeOK
        <3>2. QED BY <3>1 DEF Row
    <2>2. born' \in 0 .. MaxId
        BY <1>1, Numbers DEF Record, TypeOK
    <2>3. QED BY <1>1, <2>1, <2>2, TypePut DEF Record
<1>2. ASSUME NEW key \in Keys, Change(key) PROVE TypeOK'
    <2>1. rows[key] \in Row
        BY <1>2, TableForm DEF TypeOK, Change
    <2>2. [rows[key] EXCEPT !.version = @ + 1] \in Row
        BY <1>2, <2>1, Numbers DEF Row, Change
    <2>3. QED BY <1>2, <2>2, TypePut DEF Change, TypeOK
<1>3. CASE Loss
    BY <1>3, EmptyTable, RestoringForm DEF TypeOK, Loss, files
<1>4. CASE UNCHANGED vars
    BY <1>4 DEF TypeOK, vars, files
<1>5. QED
    BY <1>1, <1>2, <1>3, <1>4, TypeDumpBegins, TypeDumpEnds, TypePrune, TypeService,
       TypeRestoreLog, TypeRestoreRows DEF Next

(* The database, the container and its files stay in their types.                *)
THEOREM TypeCorrect == Spec => []TypeOK
<1>1. QED BY TypeInit, TypeStep, PTL DEF Spec
----------------------------------------------------------------------------
(* Retention.  A dump is due only on a day without one, so that the one under    *)
(* way never takes the place of one that was completed.                          *)
ServiceFits ==
    /\ service = "due" => day \notin DOMAIN dumps
    /\ service \in {"dumping", "pruning"} => day \in DOMAIN dumps

RetentionInv == TypeOK /\ ServiceFits /\ RetentionHolds

LEMMA RetentionOfDump == ASSUME RetentionInv, DumpBegins PROVE (ServiceFits /\ RetentionHolds)'
<1>1. DOMAIN dumps' = DOMAIN dumps \cup {day} /\ (\A d \in DOMAIN dumps : dumps'[d] = dumps[d])
    BY DEF RetentionInv, ServiceFits, DumpBegins, With
<1>2. day \notin completed
    BY Numbers DEF RetentionInv, TypeOK, ServiceFits, RetentionHolds, DumpBegins
<1>3. QED BY <1>1, <1>2 DEF RetentionInv, ServiceFits, RetentionHolds, DumpBegins

LEMMA RetentionOfEnd == ASSUME RetentionInv, DumpEnds PROVE (ServiceFits /\ RetentionHolds)'
<1>1. DOMAIN dumps' = DOMAIN dumps /\ day \in DOMAIN dumps
    BY DEF RetentionInv, ServiceFits, DumpEnds
<1>2. ASSUME NEW d \in DOMAIN dumps
      PROVE  dumps'[d].whole = IF d = day THEN TRUE ELSE dumps[d].whole
    <2>1. dumps[d] \in Dump
        BY <1>2 DEF RetentionInv, TypeOK, Dump
    <2>2. dumps'[d] = IF d = day THEN [dumps[d] EXCEPT !.whole = TRUE] ELSE dumps[d]
        BY <1>2 DEF DumpEnds
    <2>3. QED BY <2>1, <2>2 DEF Dump
<1>3. QED BY <1>1, <1>2 DEF RetentionInv, ServiceFits, RetentionHolds, DumpEnds

LEMMA RetentionOfPrune == ASSUME RetentionInv, Prune PROVE (ServiceFits /\ RetentionHolds)'
<1>1. day \in Nat /\ \A d \in DOMAIN dumps \cup completed : d \in Nat
    <2>1. day \in 0 .. MaxDay /\ DOMAIN dumps \cup completed \subseteq 0 .. day
        BY DEF RetentionInv, TypeOK
    <2>2. QED BY <2>1, Numbers
<1>2. DOMAIN dumps' = {d \in DOMAIN dumps : ~Expired(d)}
      /\ \A d \in DOMAIN dumps' : dumps'[d] = dumps[d]
    BY DEF Prune
<1>3. \A d \in DOMAIN dumps \cup completed : Expired(d) <=> ~(day - d <= Retention)
    BY <1>1, Numbers DEF Expired
<1>4. QED BY <1>2, <1>3 DEF RetentionInv, ServiceFits, RetentionHolds, Prune

(* A day more only expires dumps.                                                *)
LEMMA RetentionOfDay == ASSUME RetentionInv, NextDay PROVE (ServiceFits /\ RetentionHolds)'
<1>1. day' = day + 1 /\ day' \notin DOMAIN dumps
    BY Numbers DEF RetentionInv, TypeOK, NextDay
<1>2. \A d \in completed : day' - d <= Retention => day - d <= Retention
    BY <1>1, Numbers DEF RetentionInv, TypeOK
<1>3. service' \in {"due", "stopped"}
    BY DEF NextDay
<1>4. QED BY <1>1, <1>2, <1>3 DEF RetentionInv, ServiceFits, RetentionHolds, NextDay

LEMMA RetentionStep == ASSUME RetentionInv, [Next]_vars PROVE RetentionInv'
<1>1. TypeOK'
    BY TypeStep DEF RetentionInv
<1>2. ASSUME UNCHANGED <<day, service, dumps, completed>>
      PROVE  (ServiceFits /\ RetentionHolds)'
    BY <1>2 DEF RetentionInv, ServiceFits, RetentionHolds
<1>3. CASE DumpBreaksOff \/ Stops \/ Starts
    BY <1>1, <1>3 DEF RetentionInv, ServiceFits, RetentionHolds, DumpBreaksOff, Stops, Starts
<1>4. CASE Next
    <2>1. ASSUME NEW key \in Keys, Record(key) \/ Change(key)
          PROVE  UNCHANGED <<day, service, dumps, completed>>
        BY <2>1 DEF Record, Change, Put, files
    <2>2. ASSUME Loss PROVE UNCHANGED <<day, service, dumps, completed>>
        BY <2>2 DEF Loss, files
    <2>3. ASSUME NEW d \in 0 .. MaxDay, RestoreLog(d)
          PROVE  UNCHANGED <<day, service, dumps, completed>>
        BY <2>3 DEF RestoreLog, files
    <2>4. ASSUME RestoreRows PROVE UNCHANGED <<day, service, dumps, completed>>
        BY <2>4 DEF RestoreRows, files
    <2>5. (ServiceFits /\ RetentionHolds)'
        <3>1. CASE UNCHANGED <<day, service, dumps, completed>>
            BY <1>2, <3>1
        <3>2. CASE DumpBreaksOff \/ Stops \/ Starts
            BY <1>3, <3>2 DEF RetentionInv
        <3>3. CASE NextDay \/ DumpBegins \/ DumpEnds \/ Prune
            BY <3>3, RetentionOfDump, RetentionOfEnd, RetentionOfPrune, RetentionOfDay
        <3>4. QED BY <1>4, <2>1, <2>2, <2>3, <2>4, <3>1, <3>2, <3>3 DEF Next
    <2>6. QED BY <1>1, <2>5 DEF RetentionInv
<1>5. CASE UNCHANGED vars
    BY <1>1, <1>2, <1>5 DEF RetentionInv, vars, files
<1>6. QED BY <1>4, <1>5

LEMMA RetentionInit == ASSUME Init PROVE RetentionInv
<1>1. DOMAIN dumps = {}
    BY EmptyTable DEF Init
<1>2. QED BY <1>1, TypeInit DEF Init, RetentionInv, ServiceFits, RetentionHolds

(* For any retention: a dump that was completed is whole and there as long, and  *)
(* after a run of the script none is older, whatever dumps failed in between.    *)
THEOREM Retained == Spec => []RetentionHolds
<1>1. RetentionInv => RetentionHolds
    BY DEF RetentionInv
<1>2. QED BY <1>1, RetentionInit, RetentionStep, PTL DEF Spec
----------------------------------------------------------------------------
(* The drill.  While nothing was lost, what a dump or a restore under way holds  *)
(* is still there: COPY conflicts with it, or has nothing to load.               *)
NothingToLoad ==
    /\ \A d \in DOMAIN dumps : dumps[d].log \subseteq log /\ DOMAIN dumps[d].rows \subseteq DOMAIN rows
    /\ restoring.on => DOMAIN restoring.rows \subseteq DOMAIN rows

DrillInv == TypeOK /\ (~lost => NothingToLoad)

LEMMA DrillOfRestoreLog ==
    ASSUME DrillInv, ~lost, NEW d \in 0 .. MaxDay, RestoreLog(d)
    PROVE  UNCHANGED <<rows, log>> /\ NothingToLoad'
<1>1. PICK part \in SUBSET dumps[d].log :
         /\ log' = CopiedLog(part)
         /\ restoring' = [on |-> TRUE, whole |-> dumps[d].whole, rows |->
                             IF part = dumps[d].log THEN dumps[d].rows ELSE << >>]
    BY DEF RestoreLog
<1>2. part \subseteq log
    BY DEF DrillInv, NothingToLoad, RestoreLog
<1>3. log' = log
    BY <1>1, <1>2 DEF CopiedLog
<1>4. DOMAIN restoring'.rows \subseteq DOMAIN rows
    BY <1>1, EmptyTable DEF DrillInv, NothingToLoad, RestoreLog
<1>5. QED BY <1>3, <1>4 DEF DrillInv, NothingToLoad, RestoreLog, files

LEMMA DrillOfRestoreRows ==
    ASSUME DrillInv, ~lost, RestoreRows
    PROVE  UNCHANGED <<rows, log>> /\ NothingToLoad'
<1>1. PICK K \in SUBSET DOMAIN restoring.rows :
         rows' = Copied(rows, [k \in K |-> restoring.rows[k]])
    BY DEF RestoreRows
<1>2. rows \in Tables /\ K \subseteq DOMAIN rows
    BY DEF DrillInv, NothingToLoad, RestoreRows, TypeOK
<1>3. rows' = rows
    BY <1>1, <1>2, CopiedAgain
<1>4. restoring'.on = FALSE
    BY DEF RestoreRows, NoRestore
<1>5. QED BY <1>3, <1>4 DEF DrillInv, NothingToLoad, RestoreRows, files

LEMMA DrillOfPut ==
    ASSUME DrillInv, ~lost, NEW key \in Keys, Record(key) \/ Change(key)
    PROVE  NothingToLoad' /\ restoring' = restoring
<1>1. PICK row : Put(key, row)
    BY DEF Record, Change
<1>2. DOMAIN rows \subseteq DOMAIN rows' /\ log \subseteq log'
    BY <1>1 DEF Put, With
<1>3. QED BY <1>1, <1>2 DEF DrillInv, NothingToLoad, Put, files

(* A file holds the tables as they are now, or what it held.                     *)
LEMMA DumpsKept ==
    ASSUME TypeOK,
           NextDay \/ DumpBegins \/ DumpEnds \/ DumpBreaksOff \/ Prune \/ Stops \/ Starts,
           NEW d \in DOMAIN dumps'
    PROVE  \/ /\ dumps'[d].log = log /\ dumps'[d].rows = rows
              /\ dumps'[d].mixed = (mixed \/ restoring.on)
           \/ /\ d \in DOMAIN dumps
              /\ dumps'[d].log = dumps[d].log /\ dumps'[d].rows = dumps[d].rows
              /\ dumps'[d].mixed = dumps[d].mixed
<1>1. CASE DumpBegins
    BY <1>1 DEF DumpBegins, With
<1>2. CASE DumpEnds
    <2>1. d \in DOMAIN dumps /\ dumps[d] \in Dump
        BY <1>2 DEF DumpEnds, TypeOK, Dump
    <2>2. dumps'[d] = IF d = day THEN [dumps[d] EXCEPT !.whole = TRUE] ELSE dumps[d]
        BY <2>1, <1>2 DEF DumpEnds
    <2>3. QED BY <2>1, <2>2 DEF Dump
<1>3. CASE Prune
    BY <1>3 DEF Prune
<1>4. CASE NextDay \/ DumpBreaksOff \/ Stops \/ Starts
    BY <1>4 DEF NextDay, DumpBreaksOff, Stops, Starts
<1>5. QED BY <1>1, <1>2, <1>3, <1>4

LEMMA DrillOfService ==
    ASSUME DrillInv, ~lost,
           NextDay \/ DumpBegins \/ DumpEnds \/ DumpBreaksOff \/ Prune \/ Stops \/ Starts
    PROVE  NothingToLoad' /\ restoring' = restoring
<1>1. UNCHANGED <<rows, log, restoring>>
    BY DEF NextDay, DumpBegins, DumpEnds, DumpBreaksOff, Prune, Stops, Starts, ledger
<1>2. ASSUME NEW d \in DOMAIN dumps'
      PROVE  dumps'[d].log \subseteq log /\ DOMAIN dumps'[d].rows \subseteq DOMAIN rows
    BY <1>2, DumpsKept DEF DrillInv, NothingToLoad
<1>3. QED BY <1>1, <1>2 DEF DrillInv, NothingToLoad

LEMMA DrillStep ==
    ASSUME DrillInv, [Next]_vars
    PROVE  DrillInv' /\ (~lost /\ restoring' # restoring => UNCHANGED <<rows, log>>)
<1>1. TypeOK'
    BY TypeStep DEF DrillInv
<1>2. CASE lost
    <2>1. lost'
        BY <1>2 DEF Next, vars, Record, Change, Put, Loss, NextDay, DumpBegins, DumpEnds,
                    DumpBreaksOff, Prune, Stops, Starts, RestoreLog, RestoreRows
    <2>2. QED BY <1>1, <1>2, <2>1 DEF DrillInv
<1>3. CASE ~lost /\ Next
    <2>1. CASE Loss
        BY <1>1, <2>1 DEF Loss, DrillInv
    <2>2. CASE ~Loss
        BY <1>1, <1>3, <2>2, DrillOfRestoreLog, DrillOfRestoreRows, DrillOfPut, DrillOfService
           DEF Next, DrillInv
    <2>3. QED BY <2>1, <2>2
<1>4. CASE UNCHANGED vars
    BY <1>1, <1>4 DEF vars, files, DrillInv, NothingToLoad
<1>5. QED BY <1>2, <1>3, <1>4

LEMMA DrillInit == ASSUME Init PROVE DrillInv
<1>1. DOMAIN dumps = {} /\ restoring.on = FALSE
    BY EmptyTable DEF Init, NoRestore
<1>2. QED BY <1>1, TypeInit DEF DrillInv, NothingToLoad

(* As long as the database was never lost, no restore, be it of a truncated dump, *)
(* changes transactions or audit_log: a drill loses and doubles nothing of them.  *)
THEOREM DrillLeavesLedgerAlone == Spec => DrillLeavesLedger
<1>1. DrillInv /\ [Next]_vars
      => [~lost /\ restoring' # restoring => UNCHANGED <<rows, log>>]_vars
    BY DrillStep
<1>2. QED BY <1>1, DrillInit, DrillStep, PTL DEF Spec, DrillLeavesLedger
----------------------------------------------------------------------------
(* History and rows.                                                             *)
History(T) == UNION {{<<T[k].id, v>> : v \in 1 .. T[k].version} : k \in DOMAIN T}

LEMMA InHistory ==
    ASSUME NEW T, NEW e
    PROVE  e \in History(T)
             <=> \E k \in DOMAIN T : \E v \in 1 .. T[k].version : e = <<T[k].id, v>>
BY DEF History

LEMMA HistoryOfEmpty == History(<< >>) = {}
BY EmptyTable DEF History

(* COPY of a log and of the rows it is about agree whether they load.            *)
LEMMA HistoryOfCopied ==
    ASSUME NEW T \in Tables, NEW U \in Tables,
           \A k \in DOMAIN T, j \in DOMAIN U : T[k].id = U[j].id => k = j,
           \A k \in DOMAIN T \cap DOMAIN U : T[k].id = U[k].id
    PROVE  History(Copied(T, U))
             = IF History(T) \cap History(U) # {} THEN History(T) ELSE History(T) \cup History(U)
<1>1. \A k \in DOMAIN T : T[k] \in Row
    BY TableForm
<1>2. \A k \in DOMAIN U : U[k] \in Row
    BY TableForm
<1>3. CASE DOMAIN T \cap DOMAIN U # {}
    <2>1. PICK k \in DOMAIN T \cap DOMAIN U : TRUE
        BY <1>3
    <2>2. 1 \in 1 .. T[k].version /\ 1 \in 1 .. U[k].version
        BY <1>1, <1>2, <2>1, Numbers DEF Row
    <2>3. <<T[k].id, 1>> \in History(T) /\ <<U[k].id, 1>> \in History(U)
        BY <2>1, <2>2, InHistory
    <2>4. History(T) \cap History(U) # {}
        BY <2>1, <2>3
    <2>5. Copied(T, U) = T
        BY <1>3 DEF Copied
    <2>6. QED BY <2>4, <2>5
<1>4. CASE DOMAIN T \cap DOMAIN U = {}
    <2>1. ASSUME NEW e \in History(T) \cap History(U) PROVE FALSE
        <3>1. PICK k \in DOMAIN T : \E v \in 1 .. T[k].version : e = <<T[k].id, v>>
            BY <2>1, InHistory
        <3>2. PICK j \in DOMAIN U : \E v \in 1 .. U[j].version : e = <<U[j].id, v>>
            BY <2>1, InHistory
        <3>3. T[k].id = U[j].id
            BY <3>1, <3>2
        <3>4. QED BY <1>4, <3>3
    <2>2. DEFINE C == Copied(T, U)
    <2>3. /\ DOMAIN C = DOMAIN T \cup DOMAIN U
          /\ \A k \in DOMAIN T : C[k] = T[k]
          /\ \A k \in DOMAIN U : C[k] = U[k]
        BY <1>4 DEF Copied
    <2>4. ASSUME NEW e PROVE e \in History(C) <=> e \in History(T) \cup History(U)
        BY <2>3, InHistory
    <2>5. QED BY <2>1, <2>4
<1>5. QED BY <1>3, <1>4

(* An id was given to one key, wherever there is a row with it.                  *)
Holds(T, k, id) == k \in DOMAIN T /\ T[k].id = id
Given(k, id) ==
    \/ Holds(rows, k, id)
    \/ \E d \in DOMAIN dumps : Holds(dumps[d].rows, k, id)
    \/ restoring.on /\ Holds(restoring.rows, k, id)
IdsFit ==
    \A k, j \in Keys, id \in 1 .. MaxId :
        Given(k, id) => id <= born /\ (Given(j, id) => k = j)

HistoryInv ==
    /\ TypeOK /\ IdsFit
    /\ ~mixed /\ ~restoring.on => log = History(rows)
    /\ ~mixed /\ restoring.on =>
          restoring.whole /\ log = History(Copied(rows, restoring.rows))
    /\ \A d \in DOMAIN dumps : ~dumps[d].mixed => dumps[d].log = History(dumps[d].rows)

LEMMA IdsStay ==
    ASSUME IdsFit, born' = born,
           \A k \in Keys, id \in 1 .. MaxId : Given(k, id)' => Given(k, id)
    PROVE  IdsFit'
BY DEF IdsFit

LEMMA IdsOfRecord ==
    ASSUME TypeOK, IdsFit, NEW key \in Keys, Record(key)
    PROVE  IdsFit'
<1>1. DEFINE row == [id |-> born + 1, version |-> 1]
<1>2. rows' = With(rows, key, row) /\ born' = born + 1 /\ born \in Nat
    BY Numbers DEF Record, Put, TypeOK
<1>3. /\ DOMAIN rows' = DOMAIN rows \cup {key}
      /\ \A k \in DOMAIN rows' : rows'[k] = IF k = key THEN row ELSE rows[k]
    BY <1>2 DEF With
<1>4. UNCHANGED <<dumps, restoring>>
    BY DEF Record, Put, files
<1>5. ASSUME NEW k \in Keys, NEW id \in 1 .. MaxId, Given(k, id)'
      PROVE  Given(k, id) \/ (k = key /\ id = born + 1)
    <2>1. CASE Holds(rows', k, id)
        BY <1>3, <2>1 DEF Holds, Given
    <2>2. CASE ~Holds(rows', k, id)
        BY <1>4, <1>5, <2>2 DEF Given
    <2>3. QED BY <2>1, <2>2
<1>6. ASSUME NEW k \in Keys, NEW j \in Keys, NEW id \in 1 .. MaxId, Given(k, id)'
      PROVE  id <= born' /\ (Given(j, id)' => k = j)
    <2>1. CASE id = born + 1
        <3>1. ~Given(k, id) /\ ~Given(j, id)
            BY <1>2, <2>1 DEF IdsFit
        <3>2. QED BY <1>2, <1>5, <1>6, <2>1, <3>1
    <2>2. CASE id # born + 1
        <3>1. Given(k, id) /\ (Given(j, id)' => Given(j, id))
            BY <1>5, <1>6, <2>2
        <3>2. id <= born /\ (Given(j, id) => k = j)
            BY <3>1 DEF IdsFit
        <3>3. QED BY <1>2, <3>1, <3>2
    <2>3. QED BY <2>1, <2>2
<1>7. QED BY <1>6 DEF IdsFit

LEMMA IdsOfChange ==
    ASSUME TypeOK, IdsFit, NEW key \in Keys, Change(key)
    PROVE  IdsFit'
<1>1. rows[key] \in Row /\ key \in DOMAIN rows
    BY TableForm DEF TypeOK, Change
<1>2. /\ DOMAIN rows' = DOMAIN rows
      /\ \A k \in DOMAIN rows : rows'[k].id = rows[k].id
    BY <1>1 DEF Change, Put, With, Row
<1>3. UNCHANGED <<dumps, restoring, born>>
    BY DEF Change, Put, files
<1>4. QED BY <1>2, <1>3, IdsStay DEF Given, Holds

LEMMA IdsOfRestore ==
    ASSUME TypeOK, IdsFit, RestoreRows \/ (\E d \in 0 .. MaxDay : RestoreLog(d))
    PROVE  IdsFit'
<1>1. CASE RestoreRows
    <2>1. PICK K \in SUBSET DOMAIN restoring.rows :
             rows' = Copied(rows, [k \in K |-> restoring.rows[k]])
        BY <1>1 DEF RestoreRows
    <2>2. /\ DOMAIN rows' \subseteq DOMAIN rows \cup DOMAIN restoring.rows
          /\ \A k \in DOMAIN rows' :
                \/ k \in DOMAIN rows /\ rows'[k] = rows[k]
                \/ k \in DOMAIN restoring.rows /\ rows'[k] = restoring.rows[k]
        BY <2>1 DEF Copied
    <2>3. UNCHANGED <<dumps, born>> /\ restoring.on /\ restoring'.on = FALSE
        BY <1>1 DEF RestoreRows, files, NoRestore
    <2>4. QED BY <2>2, <2>3, IdsStay DEF Given, Holds
<1>2. ASSUME NEW d \in 0 .. MaxDay, RestoreLog(d) PROVE IdsFit'
    <2>1. restoring'.rows \in {dumps[d].rows, << >>} /\ d \in DOMAIN dumps
        BY <1>2 DEF RestoreLog
    <2>2. UNCHANGED <<rows, dumps, born>>
        BY <1>2 DEF RestoreLog, files
    <2>3. QED BY <2>1, <2>2, EmptyTable, IdsStay DEF Given, Holds
<1>3. QED BY <1>1, <1>2

LEMMA IdsStep == ASSUME TypeOK, IdsFit, [Next]_vars PROVE IdsFit'
<1>1. CASE Loss
    <2>1. DOMAIN rows' = {} /\ UNCHANGED <<dumps, restoring, born>>
        BY <1>1, EmptyTable DEF Loss, files
    <2>2. QED BY <2>1, IdsStay DEF Given, Holds
<1>2. CASE NextDay \/ DumpBegins \/ DumpEnds \/ DumpBreaksOff \/ Prune \/ Stops \/ Starts
    <2>1. UNCHANGED <<rows, restoring, born>>
        BY <1>2 DEF NextDay, DumpBegins, DumpEnds, DumpBreaksOff, Prune, Stops, Starts, ledger
    <2>2. ASSUME NEW d \in DOMAIN dumps'
          PROVE  dumps'[d].rows = rows \/ (d \in DOMAIN dumps /\ dumps'[d].rows = dumps[d].rows)
        BY <1>2, <2>2, DumpsKept
    <2>3. QED BY <2>1, <2>2, IdsStay DEF Given, Holds
<1>3. CASE UNCHANGED vars
    BY <1>3, IdsStay DEF vars, files, Given, Holds
<1>4. QED BY <1>1, <1>2, <1>3, IdsOfRecord, IdsOfChange, IdsOfRestore DEF Next

(* One version more of a row is one entry more.                                  *)
LEMMA HistoryOfWith ==
    ASSUME NEW T \in Tables, NEW key \in Keys, NEW row \in Row,
           \/ key \notin DOMAIN T /\ row.version = 1
           \/ /\ key \in DOMAIN T /\ row.id = T[key].id
              /\ row.version = T[key].version + 1
    PROVE  History(With(T, key, row)) = History(T) \cup {<<row.id, row.version>>}
<1>1. DEFINE W == With(T, key, row)
<1>2. DOMAIN W = DOMAIN T \cup {key} /\ \A k \in DOMAIN W : W[k] = IF k = key THEN row ELSE T[k]
    <2>1. DOMAIN W = DOMAIN T \cup {key}
        BY DEF With
    <2>2. QED BY <2>1 DEF With
<1>3. \A k \in DOMAIN T : T[k].version \in Nat
    BY TableForm, Numbers DEF Row
<1>4. ASSUME NEW e, e \in History(W) PROVE e \in History(T) \cup {<<row.id, row.version>>}
    <2>1. PICK k \in DOMAIN W : \E v \in 1 .. W[k].version : e = <<W[k].id, v>>
        BY <1>4, InHistory
    <2>2. PICK v \in 1 .. W[k].version : e = <<W[k].id, v>>
        BY <2>1
    <2>3. CASE k # key
        <3>1. k \in DOMAIN T /\ W[k] = T[k]
            BY <1>2, <2>3
        <3>2. QED BY <2>2, <3>1, InHistory
    <2>4. CASE k = key /\ v = row.version
        BY <1>2, <2>2, <2>4
    <2>5. CASE k = key /\ v # row.version
        <3>1. W[k] = row
            BY <1>2, <2>5
        <3>2. key \in DOMAIN T /\ v \in 1 .. T[key].version /\ e = <<T[key].id, v>>
            BY <1>3, <2>2, <2>5, <3>1
        <3>3. QED BY <3>2, InHistory
    <2>6. QED BY <2>3, <2>4, <2>5
<1>5. ASSUME NEW e, e \in History(T) PROVE e \in History(W)
    <2>1. PICK k \in DOMAIN T : \E v \in 1 .. T[k].version : e = <<T[k].id, v>>
        BY <1>5, InHistory
    <2>2. k \in DOMAIN W /\ W[k].id = T[k].id /\ 1 .. T[k].version \subseteq 1 .. W[k].version
        <3>1. CASE k # key BY <1>2, <3>1
        <3>2. CASE k = key BY <1>2, <1>3, <3>2
        <3>3. QED BY <3>1, <3>2
    <2>3. QED BY <2>1, <2>2, InHistory
<1>6. <<row.id, row.version>> \in History(W)
    <2>1. key \in DOMAIN W /\ W[key] = row /\ row.version \in 1 .. row.version
        BY <1>2, Numbers DEF Row
    <2>2. QED BY <2>1, InHistory
<1>7. QED BY <1>4, <1>5, <1>6

LEMMA HistoryOfPut ==
    ASSUME HistoryInv, NEW key \in Keys, Record(key) \/ Change(key)
    PROVE  /\ ~mixed' => ~restoring'.on /\ log' = History(rows')
           /\ UNCHANGED dumps
<1>1. PICK row \in Row :
         /\ Put(key, row)
         /\ \/ key \notin DOMAIN rows /\ row.version = 1
            \/ /\ key \in DOMAIN rows /\ row.id = rows[key].id
               /\ row.version = rows[key].version + 1
    <2>1. CASE Record(key)
        <3>1. [id |-> born + 1, version |-> 1] \in Row
            BY <2>1, Numbers DEF Record, Row, HistoryInv, TypeOK
        <3>2. QED BY <2>1, <3>1 DEF Record
    <2>2. CASE Change(key)
        <3>1. rows[key] \in Row
            BY <2>2, TableForm DEF Change, HistoryInv, TypeOK
        <3>2. [rows[key] EXCEPT !.version = @ + 1] \in Row
            BY <2>2, <3>1, Numbers DEF Change, Row
        <3>3. QED BY <2>2, <3>1, <3>2 DEF Change, Row
    <2>3. QED BY <2>1, <2>2
<1>2. UNCHANGED <<dumps, restoring>>
    BY <1>1 DEF Put, files
<1>3. ASSUME ~mixed' PROVE ~restoring.on /\ log = History(rows)
    BY <1>1, <1>3 DEF Put, HistoryInv
<1>4. History(rows') = History(rows) \cup {<<row.id, row.version>>}
    BY <1>1, HistoryOfWith DEF Put, HistoryInv, TypeOK
<1>5. QED BY <1>1, <1>2, <1>3, <1>4 DEF Put

(* Loading the log of a whole dump prepares for the rows it comes with.          *)
LEMMA HistoryOfRestoreLog ==
    ASSUME HistoryInv, NEW d \in 0 .. MaxDay, RestoreLog(d), ~mixed'
    PROVE  restoring'.whole /\ log' = History(Copied(rows', restoring'.rows))
<1>1. /\ d \in DOMAIN dumps /\ ~restoring.on /\ ~mixed /\ dumps[d].whole /\ ~dumps[d].mixed
      /\ ~RerecordedSince(dumps[d].rows) /\ rows' = rows
    BY DEF RestoreLog
<1>2. /\ rows \in Tables /\ dumps[d].rows \in Tables
      /\ log = History(rows) /\ dumps[d].log = History(dumps[d].rows)
    BY <1>1 DEF HistoryInv, TypeOK
<1>3. /\ log' = CopiedLog(dumps[d].log)
      /\ restoring'.whole /\ restoring'.rows = dumps[d].rows
    BY <1>1 DEF RestoreLog
<1>4. \A k \in DOMAIN rows : k \in Keys /\ rows[k].id \in 1 .. MaxId
    BY <1>2, TableForm DEF Row
<1>5. \A j \in DOMAIN dumps[d].rows : j \in Keys
    BY <1>2, TableForm
<1>6. ASSUME NEW k \in DOMAIN rows, NEW j \in DOMAIN dumps[d].rows,
             rows[k].id = dumps[d].rows[j].id
      PROVE  k = j
    <2>1. Given(k, rows[k].id) /\ Given(j, rows[k].id)
        BY <1>1, <1>6 DEF Given, Holds
    <2>2. QED BY <1>4, <1>5, <2>1 DEF HistoryInv, IdsFit
<1>7. \A k \in DOMAIN rows \cap DOMAIN dumps[d].rows : rows[k].id = dumps[d].rows[k].id
    BY <1>1 DEF RerecordedSince
<1>8. History(Copied(rows, dumps[d].rows)) = CopiedLog(dumps[d].log)
    <2>1. History(Copied(rows, dumps[d].rows))
             = IF History(rows) \cap History(dumps[d].rows) # {} THEN History(rows)
               ELSE History(rows) \cup History(dumps[d].rows)
        BY <1>2, <1>6, <1>7, HistoryOfCopied
    <2>2. CopiedLog(dumps[d].log)
             = IF log \cap dumps[d].log # {} THEN log ELSE log \cup dumps[d].log
        BY DEF CopiedLog
    <2>3. QED BY <1>2, <2>1, <2>2
<1>9. QED BY <1>1, <1>3, <1>8

LEMMA HistoryOfRestoreRows ==
    ASSUME HistoryInv, RestoreRows, ~mixed'
    PROVE  ~restoring'.on /\ log' = History(rows')
<1>1. /\ restoring.on /\ ~mixed /\ restoring.whole /\ log' = log
      /\ log = History(Copied(rows, restoring.rows)) /\ restoring'.on = FALSE
    BY DEF RestoreRows, HistoryInv, NoRestore
<1>2. rows' = Copied(rows, [k \in DOMAIN restoring.rows |-> restoring.rows[k]])
    BY <1>1 DEF RestoreRows
<1>3. restoring.rows \in Tables
    BY <1>1, RestoringForm DEF HistoryInv
<1>4. rows' = Copied(rows, restoring.rows)
    BY <1>2, <1>3, PartType
<1>5. QED BY <1>1, <1>4

LEMMA HistoryOfService ==
    ASSUME HistoryInv,
           NextDay \/ DumpBegins \/ DumpEnds \/ DumpBreaksOff \/ Prune \/ Stops \/ Starts
    PROVE  /\ UNCHANGED <<rows, log, restoring, mixed>>
           /\ \A d \in DOMAIN dumps' :
                 ~dumps'[d].mixed => dumps'[d].log = History(dumps'[d].rows)
<1>1. UNCHANGED <<rows, log, restoring, mixed>>
    BY DEF NextDay, DumpBegins, DumpEnds, DumpBreaksOff, Prune, Stops, Starts, ledger
<1>2. ASSUME NEW d \in DOMAIN dumps', ~dumps'[d].mixed
      PROVE  dumps'[d].log = History(dumps'[d].rows)
    BY <1>2, DumpsKept DEF HistoryInv
<1>3. QED BY <1>1, <1>2

LEMMA HistoryStep == ASSUME HistoryInv, [Next]_vars PROVE HistoryInv'
<1>1. TypeOK' /\ IdsFit'
    BY TypeStep, IdsStep DEF HistoryInv
<1>2. CASE UNCHANGED vars
    BY <1>1, <1>2 DEF HistoryInv, vars, files
<1>3. ASSUME NEW key \in Keys, Record(key) \/ Change(key) PROVE HistoryInv'
    BY <1>1, <1>3, HistoryOfPut DEF HistoryInv
<1>4. CASE Loss
    <2>1. UNCHANGED <<dumps, restoring>> /\ (~mixed' => ~restoring'.on)
        BY <1>4 DEF Loss, files
    <2>2. log' = History(rows')
        BY <1>4, HistoryOfEmpty DEF Loss
    <2>3. QED BY <1>1, <2>1, <2>2 DEF HistoryInv
<1>5. CASE NextDay \/ DumpBegins \/ DumpEnds \/ DumpBreaksOff \/ Prune \/ Stops \/ Starts
    BY <1>1, <1>5, HistoryOfService DEF HistoryInv
<1>6. ASSUME NEW d \in 0 .. MaxDay, RestoreLog(d) PROVE HistoryInv'
    <2>1. UNCHANGED dumps /\ restoring'.on
        BY <1>6 DEF RestoreLog, files
    <2>2. QED BY <1>1, <1>6, <2>1, HistoryOfRestoreLog DEF HistoryInv
<1>7. CASE RestoreRows
    <2>1. UNCHANGED dumps
        BY <1>7 DEF RestoreRows, files
    <2>2. QED BY <1>1, <1>7, <2>1, HistoryOfRestoreRows DEF HistoryInv
<1>8. QED BY <1>2, <1>3, <1>4, <1>5, <1>6, <1>7 DEF Next

LEMMA HistoryInit == ASSUME Init PROVE HistoryInv
<1>1. DOMAIN rows = {} /\ DOMAIN dumps = {} /\ restoring.on = FALSE
    BY EmptyTable DEF Init, NoRestore
<1>2. IdsFit
    BY <1>1 DEF IdsFit, Given, Holds
<1>3. log = History(rows)
    BY HistoryOfEmpty DEF Init
<1>4. QED BY <1>1, <1>2, <1>3, TypeInit DEF HistoryInv

(* However often the database is lost and whatever whole dump is restored into   *)
(* it, rows and history come back together, or not at all.                       *)
THEOREM RestoreBringsHistory == Spec => []HistoryFitsRows
<1>1. HistoryInv => HistoryFitsRows
    BY DEF HistoryInv, HistoryFitsRows, History
<1>2. QED BY <1>1, HistoryInit, HistoryStep, PTL DEF Spec
=============================================================================
