------------------------------- MODULE Alerts -------------------------------
(***************************************************************************)
(* core/alerts.evaluate_alerts and the two that run it: the daily job of   *)
(* the scheduler (scheduler/jobs.run_alert_check), which sends what is new *)
(* BEFORE its transaction commits, and the MCP tool check_alerts, which    *)
(* answers AFTER it.  Each evaluation is one READ COMMITTED transaction of *)
(* several statements; transactions, budgets and the calendar change the   *)
(* world between any two of them.                                          *)
(*                                                                         *)
(* Only whether a rule fires is kept of amounts.  A key 1 .. NBudgets is   *)
(* the dedup key of a budget's overrun, in the order of the categories;    *)
(* the last key is that of the runway rule.                                *)
(***************************************************************************)
EXTENDS Integers, FiniteSets

CONSTANTS
    NBudgets,     \* categories with a budget
    Schedulers,   \* evaluators that run run_alert_check
    Chats,        \* evaluators that call the MCP tool check_alerts
    ShortCash,    \* evaluators whose cash balance makes the runway rule fire
    MaxOpen,      \* bound on the evaluations open at a time
    MaxChanges,   \* bound on the changes of the world
    MaxFailures   \* bound on the failed sends, commits and answers

ASSUME NBudgetsAssumption == NBudgets \in Nat
ASSUME EvaluatorsAssumption ==
    Schedulers \cap Chats = {} /\ IsFiniteSet(Schedulers) /\ IsFiniteSet(Chats)
ASSUME BoundsAssumption == MaxOpen \in Nat /\ MaxChanges \in Nat /\ MaxFailures \in Nat

Evaluators == Schedulers \cup Chats
Budgets == 1 .. NBudgets
Runway == NBudgets + 1
Keys == 1 .. NBudgets + 1
Closed == [about |-> -1, by |-> "nobody"]

VARIABLES
    limits,    \* budgets that are active and low enough for heavy spend to overrun
    heavy,     \* budgets whose category has heavy spend this month
    burning,   \* recent months burn cash
    breach,    \* key -> number of the change that made its condition true, 0 if false
    changes,   \* changes of the world so far
    events,    \* key -> open alert_events row, as committed: its breach, who made it
    ev,        \* evaluator -> its evaluation
    notices,   \* <<key, breach>> -> messages delivered about it
    resolved,  \* <<key, breach>> -> events about it that were deleted
    failures

world == <<limits, heavy, burning, breach, changes>>
vars == <<world, events, ev, notices, resolved, failures>>

Breaches == Keys \X (1 .. MaxChanges)

Idle == [pc |-> "idle", limits |-> {}, seen |-> {}, about |-> [k \in Keys |-> 0],
         todo |-> {}, made |-> {}, stale |-> {}, unsent |-> {}]

(* limits: what list_active_budgets returned; seen: still_firing_keys; about:   *)
(* the breach each finding is really about; todo: findings to be looked up;     *)
(* made: events inserted and not yet committed; stale: events selected for      *)
(* deletion that are still there; unsent: new findings not yet delivered.       *)
Evaluation ==
    {v \in [pc : {"idle", "limits", "spend", "look", "insert", "send", "commit",
                  "answer"},
            limits : SUBSET Budgets, seen : SUBSET Keys, about : [Keys -> 0 .. MaxChanges],
            todo : SUBSET Keys, made : SUBSET Keys, stale : SUBSET Keys, unsent : SUBSET Keys] :
        /\ v.todo \subseteq v.seen /\ v.made \subseteq v.seen \ v.todo
        /\ v.stale \cap v.seen = {}}

Init ==
    /\ limits = {} /\ heavy = {} /\ burning = FALSE
    /\ breach = [k \in Keys |-> 0]
    /\ changes = 0
    /\ events = [k \in Keys |-> Closed]
    /\ ev = [e \in Evaluators |-> Idle]
    /\ notices = [b \in Breaches |-> 0]
    /\ resolved = [b \in Breaches |-> 0]
    /\ failures = 0

IsOpen(k) == events[k] # Closed
First(S) == CHOOSE k \in S : \A j \in S : k <= j
----------------------------------------------------------------------------
(* The world.  A condition that becomes true begins a breach of its own.        *)
World(l, h, b) ==
    LET over == (l \cap h) \cup (IF b THEN {Runway} ELSE {}) IN
    /\ changes < MaxChanges
    /\ changes' = changes + 1
    /\ limits' = l /\ heavy' = h /\ burning' = b
    /\ breach' = [k \in Keys |-> IF k \notin over THEN 0
                                 ELSE IF breach[k] # 0 THEN breach[k] ELSE changes + 1]
    /\ UNCHANGED <<events, ev, notices, resolved, failures>>

Flip(S, k) == IF k \in S THEN S \ {k} ELSE S \cup {k}

(* A budget is created, deleted, activated, deactivated or edited.              *)
ChangeBudget == \E k \in Budgets : World(Flip(limits, k), heavy, burning)
(* Transactions of a category are recorded, changed or deleted.                 *)
ChangeSpend == \E k \in Budgets : World(limits, Flip(heavy, k), burning)
(* month_start moves: nothing has been spent in the new month.                  *)
NewMonth == heavy # {} /\ World(limits, {}, burning)
(* The net of recent months turns to or from burning cash.                      *)
ChangeBurn == World(limits, heavy, ~burning)
----------------------------------------------------------------------------
Becomes(e, new) == ev' = [ev EXCEPT ![e] = new]

(* A scheduled run, or a call of the tool: its first query is for the budgets.  *)
ReadBudgets(e) ==
    /\ ev[e].pc = "idle"
    /\ Cardinality({d \in Evaluators : ev[d].pc # "idle"}) < MaxOpen
    /\ Becomes(e, [Idle EXCEPT !.pc = "limits", !.limits = limits])
    /\ UNCHANGED <<world, events, notices, resolved, failures>>

(* totals_by_category of the month, and budget_overrun_findings.                *)
ReadSpend(e) ==
    /\ ev[e].pc = "limits"
    /\ LET seen == ev[e].limits \cap heavy IN
       Becomes(e, [ev[e] EXCEPT !.pc = "spend", !.seen = seen,
                       !.about = [k \in Keys |-> IF k \in seen THEN breach[k] ELSE 0]])
    /\ UNCHANGED <<world, events, notices, resolved, failures>>

(* compute_projections, and runway_threshold_finding for this caller's balance. *)
ReadProjections(e) ==
    /\ ev[e].pc = "spend"
    /\ LET seen == ev[e].seen \cup (IF burning /\ e \in ShortCash THEN {Runway} ELSE {}) IN
       Becomes(e, [ev[e] EXCEPT !.pc = "look", !.seen = seen, !.todo = seen,
                       !.about[Runway] = IF Runway \in seen THEN breach[Runway] ELSE 0])
    /\ UNCHANGED <<world, events, notices, resolved, failures>>

(* Mutant: the loop ends at the first finding that is open.                      *)
StopsAtOpen(e) ==
    /\ ev[e].pc = "look" /\ ev[e].todo # {}
    /\ LET k == First(ev[e].todo) IN
       Becomes(e, IF IsOpen(k) THEN [ev[e] EXCEPT !.todo = {}]
                  ELSE [ev[e] EXCEPT !.pc = "insert"])
    /\ UNCHANGED <<world, events, notices, resolved, failures>>

(* get_open_alert for the next finding: one that is open is passed over.        *)
LookUp(e) ==
    /\ ev[e].pc = "look" /\ ev[e].todo # {}
    /\ LET k == First(ev[e].todo) IN
       Becomes(e, IF IsOpen(k) THEN [ev[e] EXCEPT !.todo = @ \ {k}]
                  ELSE [ev[e] EXCEPT !.pc = "insert"])
    /\ UNCHANGED <<world, events, notices, resolved, failures>>

(* Mutant: no unique index on dedup_key.                                        *)
InsertsAtOnce(e, k) == FALSE

(* The unique index on dedup_key makes the INSERT wait for an open transaction  *)
(* that has inserted the same key.                                              *)
InsertWaits(e, k) == \E d \in Evaluators \ {e} : k \in ev[d].made

(* create_alert_event's flush.  Another evaluation may have committed the key   *)
(* since the lookup: IntegrityError, and everything is rolled back.             *)
Insert(e) ==
    /\ ev[e].pc = "insert"
    /\ LET k == First(ev[e].todo) IN
       /\ ~InsertWaits(e, k)
       /\ Becomes(e, IF IsOpen(k) THEN Idle
                     ELSE [ev[e] EXCEPT !.pc = "look", !.todo = @ \ {k}, !.made = @ \cup {k}])
    /\ UNCHANGED <<world, events, notices, resolved, failures>>

(* Mutants: resolve nothing; resolve what this run did not newly find.          *)
ResolvesNothing(e) == {}
NotNew(e) == {k \in Keys : IsOpen(k)} \ ev[e].made

(* Open events, committed by anyone by now, whose key this run did not see fire. *)
NotFiring(e) == {k \in Keys : IsOpen(k)} \ ev[e].seen

(* The resolving loop selects the events and marks them for deletion.  Their    *)
(* DELETEs, emitted by the loop's next query or by the commit, match the        *)
(* selected rows only and show at the commit, of which they are part here.      *)
Resolve(e) ==
    /\ ev[e].pc = "look" /\ ev[e].todo = {}
    /\ Becomes(e, [ev[e] EXCEPT !.pc = IF e \in Schedulers THEN "send" ELSE "commit",
                       !.stale = NotFiring(e), !.unsent = ev[e].made])
    /\ UNCHANGED <<world, events, notices, resolved, failures>>
----------------------------------------------------------------------------
Noticed(old, k, n) == IF n = 0 THEN old ELSE [old EXCEPT ![<<k, n>>] = @ + 1]

(* run_alert_check hands the next new finding to the notifier.                  *)
Send(e) ==
    /\ ev[e].pc = "send" /\ ev[e].unsent # {}
    /\ LET k == First(ev[e].unsent) IN
       /\ notices' = Noticed(notices, k, ev[e].about[k])
       /\ Becomes(e, [ev[e] EXCEPT !.unsent = @ \ {k}])
    /\ UNCHANGED <<world, events, resolved, failures>>

SentAll(e) ==
    /\ ev[e].pc = "send" /\ ev[e].unsent = {}
    /\ Becomes(e, [ev[e] EXCEPT !.pc = "commit"])
    /\ UNCHANGED <<world, events, notices, resolved, failures>>

(* A rolled-back evaluation leaves the events as they were.                     *)
RolledBack(e) == Becomes(e, Idle) /\ UNCHANGED <<world, events, resolved>>

(* Mutant: the job catches the exception and goes on to the next finding.       *)
FailureCaught(e) ==
    /\ ev[e].pc = "send" /\ ev[e].unsent # {}
    /\ failures < MaxFailures /\ failures' = failures + 1
    /\ Becomes(e, [ev[e] EXCEPT !.unsent = @ \ {First(@)}])
    /\ UNCHANGED <<world, events, notices, resolved>>

(* The POST raises, and run_alert_check with it: session_scope rolls back.  A   *)
(* response that timed out may have been to a message that got through.         *)
SendFails(e) ==
    /\ ev[e].pc = "send" /\ ev[e].unsent # {}
    /\ failures < MaxFailures /\ failures' = failures + 1
    /\ LET k == First(ev[e].unsent) IN
       notices' \in {notices, Noticed(notices, k, ev[e].about[k])}
    /\ RolledBack(e)

(* An exception elsewhere, a lost connection, the process dying, a failed COMMIT. *)
Abort(e) ==
    /\ ev[e].pc \notin {"idle", "answer"}
    /\ failures < MaxFailures /\ failures' = failures + 1
    /\ RolledBack(e)
    /\ UNCHANGED notices

(* The open events after e's commit: its inserts, less the rows it selected for  *)
(* deletion that are still there.                                               *)
EventOf(e, k) == [about |-> ev[e].about[k], by |-> IF e \in Schedulers THEN "job" ELSE "tool"]
AfterCommit(e) ==
    [k \in Keys |-> IF k \in ev[e].made THEN EventOf(e, k)
                    ELSE IF k \in ev[e].stale THEN Closed ELSE events[k]]

(* session_scope commits.  A row that is gone can no longer be deleted by the    *)
(* other evaluations that selected it.                                          *)
Commit(e) ==
    /\ ev[e].pc = "commit"
    /\ events' = AfterCommit(e)
    /\ resolved' = [b \in Breaches |->
                      resolved[b] + IF b[1] \in ev[e].stale /\ events[b[1]].about = b[2] THEN 1 ELSE 0]
    /\ ev' = [d \in Evaluators |->
                IF d # e THEN [ev[d] EXCEPT !.stale = @ \ ev[e].stale]
                ELSE IF e \in Schedulers THEN Idle
                ELSE [ev[e] EXCEPT !.pc = "answer", !.made = {}, !.stale = {}]]
    /\ UNCHANGED <<world, notices, failures>>

(* check_alerts returns the new findings.                                       *)
AnswerChat(e) ==
    /\ ev[e].pc = "answer" /\ ev[e].unsent # {}
    /\ LET k == First(ev[e].unsent) IN
       /\ notices' = Noticed(notices, k, ev[e].about[k])
       /\ Becomes(e, [ev[e] EXCEPT !.unsent = @ \ {k}])
    /\ UNCHANGED <<world, events, resolved, failures>>

Answered(e) ==
    /\ ev[e].pc = "answer" /\ ev[e].unsent = {}
    /\ Becomes(e, Idle)
    /\ UNCHANGED <<world, events, notices, resolved, failures>>

(* The MCP client is gone: the answer is lost, the commit is not.               *)
AnswerLost(e) ==
    /\ ev[e].pc = "answer" /\ ev[e].unsent # {}
    /\ failures < MaxFailures /\ failures' = failures + 1
    /\ Becomes(e, Idle)
    /\ UNCHANGED <<world, events, notices, resolved>>
----------------------------------------------------------------------------
Step(e) == \/ ReadSpend(e) \/ ReadProjections(e) \/ LookUp(e) \/ Insert(e) \/ Resolve(e)
           \/ Send(e) \/ SentAll(e) \/ Commit(e) \/ AnswerChat(e) \/ Answered(e)

Change == NewMonth \/ ChangeSpend \/ ChangeBudget \/ ChangeBurn

Next == \/ Change
        \/ \E e \in Evaluators :
              ReadBudgets(e) \/ Step(e) \/ SendFails(e) \/ Abort(e) \/ AnswerLost(e)

(* An evaluation runs on, waiting only for inserts of others; the cron trigger   *)
(* starts the scheduler's again and again.  Nobody must call the tool.          *)
Fairness == /\ \A e \in Evaluators : WF_vars(Step(e))
            /\ \A e \in Schedulers : WF_vars(ReadBudgets(e))

Spec == Init /\ [][Next]_vars
FairSpec == Spec /\ Fairness
----------------------------------------------------------------------------
TypeOK ==
    /\ limits \subseteq Budgets /\ heavy \subseteq Budgets /\ burning \in BOOLEAN
    /\ changes \in 0 .. MaxChanges /\ failures \in 0 .. MaxFailures
    /\ breach \in [Keys -> 0 .. changes]
    /\ events \in [Keys -> [about : 0 .. MaxChanges, by : {"job", "tool"}] \cup {Closed}]
    /\ ev \in [Evaluators -> Evaluation]
    /\ notices \in [Breaches -> Nat] /\ resolved \in [Breaches -> Nat]

(* However the runs overlap, one breach is reported again only after a failure   *)
(* made a run forget that it had reported it, or after its event was deleted:    *)
(* alerts.py:7-9, two evaluations never both report what they found together.    *)
ReportsAreAccountedFor ==
    \A b \in Breaches : notices[b] <= 1 + failures + resolved[b]

(* The scheduler sends before it commits, so that a breach whose event it opened *)
(* (and which no run will report while it is open) has been delivered, whatever  *)
(* failed.  The tool's answer can be lost after its commit.                      *)
JobEventsWereSent ==
    \A k \in Keys : events[k].by = "job" /\ events[k].about > 0
                      => notices[<<k, events[k].about>>] > 0

(* A row's deletion and another run's insert cannot undo each other: when        *)
(* nothing changes any more, what still fires ends up with an open event and     *)
(* what does not ends up without, although runs that began before the last       *)
(* change are still about to commit what they saw (alerts.py:171-177).           *)
EventsFollowBreaches ==
    \A k \in Keys : /\ <>[](breach[k] # 0) => <>[]IsOpen(k)
                    /\ <>[](breach[k] = 0) => <>[]~IsOpen(k)

(* What e's rules find if it reads the world now, and the keys about which all   *)
(* evaluators agree: callers with different balances do not, about the runway.   *)
Firing(e) == (limits \cap heavy) \cup (IF burning /\ e \in ShortCash THEN {Runway} ELSE {})
Agreed(k) == \A d, e \in Evaluators : (k \in Firing(d)) <=> (k \in Firing(e))

(* What e has read of k so far is so still, and what it has concluded from the   *)
(* open events too.  An evaluation that begins now is up to date.                *)
UpToDate(e, k) ==
    LET v == ev[e] IN
    /\ v.pc = "limits" => ((k \in v.limits) <=> (k \in limits))
    /\ v.pc = "spend" => ((k \in v.seen) <=> (k \in limits \cap heavy))
    /\ v.pc \in {"look", "insert", "send", "commit"} => ((k \in v.seen) <=> (k \in Firing(e)))
    /\ v.pc \in {"look", "insert"} => (k \in v.seen \ (v.todo \cup v.made) => IsOpen(k))
    /\ v.pc \in {"send", "commit"} => IF k \in v.seen THEN k \in v.made \/ IsOpen(k)
                                                     ELSE IsOpen(k) => k \in v.stale
Settled(k) == Agreed(k) /\ \A e \in Evaluators : UpToDate(e, k)
Right(k) == \A e \in Evaluators : IsOpen(k) <=> (k \in Firing(e))

(* Once no evaluation is under way that read another world, the first that      *)
(* commits puts k right, and as long as the world stays as it is no step of any  *)
(* other, however they overlap and fail, undoes that.                            *)
SettledRunsAgree ==
    [][\A k \in Keys : Settled(k) /\ UNCHANGED world =>
          /\ Settled(k)'
          /\ Right(k) \/ (\E e \in Evaluators : Commit(e)) => Right(k)']_vars
----------------------------------------------------------------------------
(* The inductive invariant behind the first two properties.                      *)

(* What an evaluation holds at each stage.                                       *)
StageFits(e) ==
    LET v == ev[e] IN
    /\ v.pc \in {"idle", "limits", "spend"} => v.made = {} /\ v.unsent = {} /\ v.todo = {}
    /\ v.pc \notin {"send", "commit"} => v.stale = {}
    /\ v.pc = "insert" => v.todo # {}
    /\ v.pc = "send" => e \in Schedulers /\ v.unsent \subseteq v.made
    /\ v.pc = "commit" => v.unsent = IF e \in Schedulers THEN {} ELSE v.made
    /\ v.pc = "answer" => e \in Chats /\ v.made = {}
StagesFit == \A e \in Evaluators : StageFits(e)

(* A key inserted and not yet committed is open nowhere and inserted by no other. *)
InsertedOnce ==
    \A e \in Evaluators : \A k \in ev[e].made :
        ~IsOpen(k) /\ \A d \in Evaluators \ {e} : k \notin ev[d].made

(* The scheduler has delivered k's new event, which it has not committed.        *)
Sent(e) == IF e \in Schedulers /\ ev[e].pc \in {"send", "commit"}
           THEN ev[e].made \ ev[e].unsent ELSE {}
SentWasNoticed ==
    \A e \in Evaluators : \A k \in Sent(e) :
        ev[e].about[k] > 0 => notices[<<k, ev[e].about[k]>>] > 0

(* A breach is in hand while its event is open, or delivered and not committed;  *)
(* calls of the tool still owe its committed events to their callers.            *)
InHand(b) == \/ events[b[1]].about = b[2]
             \/ \E e \in Evaluators : b[1] \in Sent(e) /\ ev[e].about[b[1]] = b[2]
Owing(b) == {e \in Chats : /\ ev[e].pc = "answer" /\ b[1] \in ev[e].unsent
                           /\ ev[e].about[b[1]] = b[2]}

(* What was delivered or is owed was forgotten by a failure, was resolved, or is  *)
(* in hand.                                                                      *)
NoticesBalance ==
    \A b \in Breaches : notices[b] + Cardinality(Owing(b))
                           <= failures + resolved[b] + (IF InHand(b) THEN 1 ELSE 0)

IInv == /\ TypeOK /\ StagesFit /\ InsertedOnce
        /\ SentWasNoticed /\ JobEventsWereSent /\ NoticesBalance
----------------------------------------------------------------------------
(* What the documentation says of the program and it does not do.                *)

(* jobs.py: run "twice for the same day/condition sends nothing the second       *)
(* time"; alerts.py: an open event's rule "does not fire again until the finding *)
(* resolves".  So a breach that has not ended is reported once.                  *)
OneNoticePerBreach == \A b \in Breaches : notices[b] <= 1

(* alerts.py: resolved "so a genuine future breach isn't swallowed by a stale    *)
(* dedup entry": a breach that a run of the scheduler saw has been reported when *)
(* the run commits.  Events that mix a budget and a spending which never held    *)
(* together, and so are about no breach, are left aside.                         *)
SeenBreachesAreReported ==
    [][\A e \in Schedulers : Commit(e) =>
          \A k \in ev[e].seen : ev[e].about[k] > 0 /\ events[k].about # 0
              => notices[<<k, ev[e].about[k]>>] > 0]_vars
============================================================================
