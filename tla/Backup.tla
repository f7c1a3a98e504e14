------------------------------- MODULE Backup -------------------------------
(***************************************************************************)
(* docker/backup.sh and scripts/restore.sh: a container that dumps the     *)
(* database once a day and prunes old dumps, beside a ledger that goes on  *)
(* being written, is lost, or has a dump restored into it, as the drill    *)
(* (make restore-drill) does with the ledger that is in use.               *)
(*                                                                         *)
(* Of the database: `transactions` with their ids and idempotency keys,    *)
(* and `audit_log`, one entry for each version of a row.  No row of these  *)
(* is ever removed.  `budgets` and `alert_events`, whose rows are, are in  *)
(* the dump too and are not modelled: a restore can bring them back.       *)
(***************************************************************************)
EXTENDS Naturals, FiniteSets

CONSTANTS
    Keys,       \* what may be recorded, by its idempotency key
    Retention,  \* RETENTION_DAYS
    MaxDay, MaxId, MaxVersion, MaxRestores
                \* bounds on days, rows ever recorded, versions of a row, and restores

ASSUME NumbersAssumption ==
    {Retention, MaxDay, MaxId, MaxRestores} \subseteq Nat /\ MaxVersion \in Nat \ {0}

VARIABLES
    rows,       \* the table transactions: key -> its row's id and version
    log,        \* the table audit_log: <<id, version>>
    born,       \* ids given so far
    day,
    service,    \* what the container is doing
    dumps,      \* files in /backups: day -> what is in them, and whether all of it
    restoring,  \* a restore that has loaded audit_log and not yet transactions
    completed,  \* days whose dump was completed
    restores,   \* restores so far
    lost,       \* whether the database was ever lost
    mixed       \* whether what is in the database comes of a restore of a
                \* truncated dump, or of a key recorded again since, or of one
                \* that anything else ran beside
ledger == <<rows, log, born>>
files == <<day, service, dumps, completed>>
vars == <<rows, log, born, files, restoring, restores, lost, mixed>>

Row == [id : 1 .. MaxId, version : 1 .. MaxVersion]
Entry == (1 .. MaxId) \X (1 .. MaxVersion)
(* What transactions may hold; the other tables of the dump are left out.        *)
Tables == UNION {[K -> Row] : K \in SUBSET Keys}
NoRestore == [on |-> FALSE]

Init ==
    /\ rows = << >> /\ log = {} /\ born = 0
    /\ day = 0 /\ service = "due" /\ dumps = << >> /\ completed = {}
    /\ restoring = NoRestore /\ restores = 0 /\ lost = FALSE /\ mixed = FALSE

With(f, x, value) == [y \in DOMAIN f \cup {x} |-> IF y = x THEN value ELSE f[y]]
----------------------------------------------------------------------------
(* The ledger in use (Ledger): a row and its entry are committed together.       *)
Put(key, row) ==
    /\ rows' = With(rows, key, row)
    /\ log' = log \cup {<<row.id, row.version>>}
    /\ mixed' = (mixed \/ restoring.on)
    /\ UNCHANGED <<files, restoring, restores, lost>>

Record(key) ==
    /\ key \notin DOMAIN rows /\ born < MaxId
    /\ born' = born + 1
    /\ Put(key, [id |-> born + 1, version |-> 1])

Change(key) ==
    /\ key \in DOMAIN rows /\ rows[key].version < MaxVersion
    /\ Put(key, [rows[key] EXCEPT !.version = @ + 1])
    /\ UNCHANGED born

(* The volume is lost, or the database dropped and created again, and migrated.  *)
Loss ==
    /\ rows' = << >> /\ log' = {}
    /\ lost' = TRUE /\ mixed' = restoring.on
    /\ UNCHANGED <<born, files, restoring, restores>>
----------------------------------------------------------------------------
(* backup.sh.  sleep 86400 ends.                                                 *)
NextDay ==
    /\ service \in {"asleep", "stopped"} /\ day < MaxDay
    /\ day' = day + 1
    /\ service' = IF service = "asleep" THEN "due" ELSE "stopped"
    /\ UNCHANGED <<ledger, dumps, completed, restoring, restores, lost, mixed>>

(* Mutant: the file is named after the next day.                                 *)
DumpDatedAhead ==
    /\ service = "due"
    /\ service' = "dumping"
    /\ dumps' = With(dumps, day + 1, [rows |-> rows, log |-> log, whole |-> FALSE,
                                      mixed |-> mixed \/ restoring.on])
    /\ UNCHANGED <<ledger, day, completed, restoring, restores, lost, mixed>>

(* pg_dump takes its snapshot; the file is there from the start.                 *)
DumpBegins ==
    /\ service = "due"
    /\ service' = "dumping"
    /\ dumps' = With(dumps, day, [rows |-> rows, log |-> log, whole |-> FALSE,
                                  mixed |-> mixed \/ restoring.on])
    /\ UNCHANGED <<ledger, day, completed, restoring, restores, lost, mixed>>

DumpEnds ==
    /\ service = "dumping"
    /\ service' = "pruning"
    /\ dumps' = [dumps EXCEPT ![day].whole = TRUE]
    /\ completed' = completed \cup {day}
    /\ UNCHANGED <<ledger, day, restoring, restores, lost, mixed>>

(* pg_dump fails: the status of the pipeline is that of gzip, and the script goes *)
(* on with a file that breaks off.                                                *)
DumpBreaksOff ==
    /\ service = "dumping"
    /\ service' = "pruning"
    /\ UNCHANGED <<ledger, day, dumps, completed, restoring, restores, lost, mixed>>

(* Mutant: days are counted from one.                                            *)
ExpiredEarly(d) == day - d >= Retention

(* find -mtime +N: more than N whole days old.                                   *)
Expired(d) == day - d > Retention

Prune ==
    /\ service = "pruning"
    /\ service' = "asleep"
    /\ dumps' = [d \in {d \in DOMAIN dumps : ~Expired(d)} |-> dumps[d]]
    /\ UNCHANGED <<ledger, day, completed, restoring, restores, lost, mixed>>

(* gzip or find fails (set -e), or the container is stopped: nothing restarts it. *)
Stops ==
    /\ service # "stopped"
    /\ service' = "stopped"
    /\ UNCHANGED <<ledger, day, dumps, completed, restoring, restores, lost, mixed>>

(* make up: the script begins with a dump.  Files are named to the second; at    *)
(* most one of a day is modelled.                                                *)
Starts ==
    /\ service = "stopped" /\ day \notin DOMAIN dumps
    /\ service' = "due"
    /\ UNCHANGED <<ledger, day, dumps, completed, restoring, restores, lost, mixed>>
----------------------------------------------------------------------------
(* restore.sh.  psql goes on after an error; a COPY loads all of its rows or, if *)
(* one of them is there already, none.  What a file that breaks off has of a     *)
(* table may be any part, of a later table none.                                 *)

(* Mutant: the dump drops the tables first (pg_dump --clean).                    *)
Replaced(table, dumped) == dumped

Copied(table, dumped) ==
    IF DOMAIN table \cap DOMAIN dumped # {} THEN table
    ELSE [k \in DOMAIN table \cup DOMAIN dumped |->
            IF k \in DOMAIN table THEN table[k] ELSE dumped[k]]

(* Mutant: entries that are there are passed over (ON CONFLICT DO NOTHING).      *)
Merged(dumped) == log \cup dumped

CopiedLog(dumped) == IF log \cap dumped # {} THEN log ELSE log \cup dumped

RerecordedSince(dumped) ==
    \E k \in DOMAIN dumped \cap DOMAIN rows : dumped[k].id # rows[k].id

RestoreLog(d) ==
    /\ ~restoring.on /\ d \in DOMAIN dumps
    /\ restores < MaxRestores /\ restores' = restores + 1
    /\ \E part \in SUBSET dumps[d].log :
          /\ dumps[d].whole => part = dumps[d].log
          /\ log' = CopiedLog(part)
          /\ restoring' = [on |-> TRUE, whole |-> dumps[d].whole, rows |->
                             IF part = dumps[d].log THEN dumps[d].rows ELSE << >>]
    /\ mixed' = (mixed \/ ~dumps[d].whole \/ dumps[d].mixed \/ RerecordedSince(dumps[d].rows))
    /\ UNCHANGED <<rows, born, files, lost>>

RestoreRows ==
    /\ restoring.on
    /\ \E K \in SUBSET DOMAIN restoring.rows :
          /\ restoring.whole => K = DOMAIN restoring.rows
          /\ rows' = Copied(rows, [k \in K |-> restoring.rows[k]])
    /\ restoring' = NoRestore
    /\ UNCHANGED <<log, born, files, restores, lost, mixed>>

Next ==
    \/ \E key \in Keys : Record(key) \/ Change(key)
    \/ Loss
    \/ NextDay \/ DumpBegins \/ DumpEnds \/ DumpBreaksOff \/ Prune \/ Stops \/ Starts
    \/ \E d \in 0 .. MaxDay : RestoreLog(d)
    \/ RestoreRows

Spec == Init /\ [][Next]_vars
----------------------------------------------------------------------------
TypeOK ==
    /\ rows \in Tables /\ log \subseteq Entry /\ born \in 0 .. MaxId
    /\ day \in 0 .. MaxDay /\ restores \in 0 .. MaxRestores
    /\ service \in {"due", "dumping", "pruning", "asleep", "stopped"}
    /\ completed \subseteq 0 .. day
    /\ DOMAIN dumps \subseteq 0 .. day
    /\ \A d \in DOMAIN dumps : dumps[d] \in [rows : Tables, log : SUBSET Entry, whole : BOOLEAN,
                                       mixed : BOOLEAN]
    /\ restoring \in {NoRestore} \cup [on : {TRUE}, whole : BOOLEAN, rows : Tables]
    /\ {lost, mixed} \subseteq BOOLEAN

(* A dump that was completed is there for RETENTION_DAYS, whatever dumps fail or  *)
(* the service does meanwhile, and none that is older outlives a run              *)
(* (backup.sh:2-3).                                                               *)
RetentionHolds ==
    /\ \A d \in completed : day - d <= Retention => d \in DOMAIN dumps /\ dumps[d].whole
    /\ service = "asleep" => \A d \in DOMAIN dumps : day - d <= Retention

(* The drill restores into the database in use: while nothing was ever lost it    *)
(* leaves transactions and audit_log as they are, although nothing in it stops it *)
(* (restore.sh:6-11, Makefile:77-81).  Nothing is said of budgets and events.     *)
DrillLeavesLedger ==
    [][~lost /\ restoring' # restoring => UNCHANGED <<rows, log>>]_vars

(* After disasters and restores every row still has exactly the history of its    *)
(* versions, and nothing else has one (ADR-0003), unless the restore was of a     *)
(* truncated dump, or of a key that was recorded again since, or not left alone.  *)
HistoryFitsRows ==
    ~mixed /\ ~restoring.on =>
        log = UNION {{<<rows[k].id, v>> : v \in 1 .. rows[k].version} : k \in DOMAIN rows}
=============================================================================
