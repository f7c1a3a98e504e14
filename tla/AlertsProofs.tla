---------------------------- MODULE AlertsProofs ----------------------------
(***************************************************************************)
(* Alerts for any number of budgets, of schedulers and chats evaluating at *)
(* once, of changes and of failures: how often a breach is reported, that  *)
(* what the job opened had been sent, and that runs which read the present *)
(* world put the open events right and leave them so.                      *)
(***************************************************************************)
EXTENDS Alerts, FiniteSetTheorems, WellFoundedInduction, TLAPS

(* The first of some keys is one of them. *)
LEMMA FirstIsOne == ASSUME NEW S \in SUBSET Keys, S # {} PROVE First(S) \in S
<1>1. S \subseteq Nat
  BY NBudgetsAssumption DEF Keys
<1>2. PICK k \in S : \A j \in S : ~(<<j, k>> \in OpToRel(<, Nat))
  <2> HIDE DEF OpToRel
  <2> QED BY <1>1, NatLessThanWellFounded, WFMin
<1>3. ASSUME NEW j \in S PROVE k <= j
  <2>1. j \in Nat /\ k \in Nat
    BY <1>1
  <2>2. j < k => <<j, k>> \in OpToRel(<, Nat)
    BY <2>1 DEF OpToRel
  <2>3. ~(j < k)
    <3> HIDE DEF OpToRel
    <3> QED BY <1>2, <2>2
  <2> QED BY <2>1, <2>3
<1> QED BY <1>3 DEF First

(* The breach a finding is about: none, or one of the breaches that are counted. *)
LEMMA AboutABreach ==
    ASSUME TypeOK, NEW e \in Evaluators, NEW k \in Keys
    PROVE  /\ ev[e] \in Evaluation /\ ev[e].about[k] \in 0 .. MaxChanges
           /\ ev[e].about[k] # 0 => <<k, ev[e].about[k]>> \in Breaches
  BY BoundsAssumption DEF TypeOK, Evaluation, Breaches

(* A new evaluation record for e leaves the others' alone. *)
LEMMA OneBecomes ==
    ASSUME TypeOK, NEW e \in Evaluators, NEW new \in Evaluation, Becomes(e, new)
    PROVE  /\ ev' \in [Evaluators -> Evaluation] /\ ev'[e] = new
           /\ \A d \in Evaluators \ {e} : ev'[d] = ev[d]
  BY DEF TypeOK, Becomes

(* The records that evaluations are taken from. *)
Records == [pc : {"idle", "limits", "spend", "look", "insert", "send", "commit", "answer"},
            limits : SUBSET Budgets, seen : SUBSET Keys, about : [Keys -> 0 .. MaxChanges],
            todo : SUBSET Keys, made : SUBSET Keys, stale : SUBSET Keys, unsent : SUBSET Keys]

LEMMA EvaluationRecords ==
    ASSUME NEW v
    PROVE  v \in Evaluation <=> /\ v \in Records
                               /\ v.todo \subseteq v.seen /\ v.made \subseteq v.seen \ v.todo
                               /\ v.stale \cap v.seen = {}
  BY DEF Evaluation, Records

LEMMA IdleType == Idle \in Records /\ Idle \in Evaluation
<1>1. Idle \in Records
  BY BoundsAssumption DEF Idle, Records
<1> QED BY <1>1, EvaluationRecords DEF Idle

(* The calls that owe a notice are finitely many. *)
LEMMA OwingIsFinite ==
    ASSUME NEW b PROVE /\ IsFiniteSet(Owing(b)) /\ Cardinality(Owing(b)) \in Nat
<1>1. Owing(b) \in SUBSET Chats
  BY DEF Owing
<1> QED BY <1>1, EvaluatorsAssumption, FS_Subset, FS_CardinalityType

LEMMA OwingNextIsFinite ==
    ASSUME NEW b PROVE /\ IsFiniteSet(Owing(b)') /\ Cardinality(Owing(b)') \in Nat
<1>1. Owing(b)' \in SUBSET Chats
  BY DEF Owing
<1> QED BY <1>1, EvaluatorsAssumption, FS_Subset, FS_CardinalityType
----------------------------------------------------------------------------
(* A quiet step of e delivers nothing, commits nothing and fails nothing: e may  *)
(* insert a key that is free, and forgets nothing it has sent or owes.           *)
Quiet(e, new) ==
    /\ new \in Evaluation /\ Becomes(e, new)
    /\ UNCHANGED <<world, events, notices, resolved, failures>>
    /\ \A k \in new.made \ ev[e].made :
          ~IsOpen(k) /\ \A d \in Evaluators \ {e} : k \notin ev[d].made
    /\ Sent(e)' = Sent(e)
    /\ \A k \in Sent(e) : new.about[k] = ev[e].about[k]
    /\ ev[e].pc = "answer" => ev[e].unsent = {}
    /\ new.pc # "answer"
    /\ StageFits(e)'

LEMMA QuietStep ==
    ASSUME IInv, NEW e \in Evaluators, NEW new, Quiet(e, new)
    PROVE  IInv'
<1>1. /\ new \in Evaluation /\ Becomes(e, new)
      /\ UNCHANGED <<world, events, notices, resolved, failures>>
  BY DEF Quiet
<1>2. /\ ev' \in [Evaluators -> Evaluation] /\ ev'[e] = new
      /\ \A d \in Evaluators \ {e} : ev'[d] = ev[d]
  BY <1>1, OneBecomes DEF IInv
<1>3. TypeOK'
  BY <1>1, <1>2 DEF IInv, TypeOK, world
<1>4. StagesFit'
  <2>1. ASSUME NEW d \in Evaluators \ {e} PROVE StageFits(d)'
    BY <1>2 DEF IInv, StagesFit, StageFits
  <2> QED BY <2>1 DEF StagesFit, Quiet
<1>5. InsertedOnce'
  BY <1>1, <1>2 DEF IInv, InsertedOnce, IsOpen, Quiet
<1>6. \A d \in Evaluators : Sent(d)' = Sent(d)
  BY <1>2 DEF Sent, Quiet
<1>7. \A d \in Evaluators : \A k \in Sent(d) : ev'[d].about[k] = ev[d].about[k]
  BY <1>2 DEF Quiet
<1>8. SentWasNoticed'
  BY <1>1, <1>6, <1>7 DEF IInv, SentWasNoticed
<1>9. JobEventsWereSent'
  BY <1>1 DEF IInv, JobEventsWereSent
<1>10. ASSUME NEW b \in Breaches PROVE Owing(b)' = Owing(b) /\ InHand(b)' = InHand(b)
  <2>1. \A d \in Chats : d \in Evaluators
    BY DEF Evaluators
  <2>2. Owing(b)' = Owing(b)
    BY <1>2, <2>1 DEF Owing, Quiet
  <2>3. InHand(b)' = InHand(b)
    BY <1>1, <1>6, <1>7 DEF InHand
  <2> QED BY <2>2, <2>3
<1>11. NoticesBalance'
  BY <1>1, <1>10 DEF IInv, NoticesBalance
<1> QED BY <1>3, <1>4, <1>5, <1>8, <1>9, <1>11 DEF IInv

(* The steps of an evaluation that do no more than that. *)
LEMMA ReadingStep ==
    ASSUME IInv, NEW e \in Evaluators,
           ReadBudgets(e) \/ ReadSpend(e) \/ ReadProjections(e)
    PROVE  IInv'
<1>1. /\ ev[e] \in Evaluation /\ StageFits(e) /\ limits \subseteq Budgets
      /\ breach \in [Keys -> 0 .. MaxChanges] /\ Budgets \subseteq Keys /\ Runway \in Keys
  BY NBudgetsAssumption, BoundsAssumption
     DEF IInv, TypeOK, StagesFit, Budgets, Keys, Runway
<1>2. CASE ReadBudgets(e)
  <2> DEFINE new == [Idle EXCEPT !.pc = "limits", !.limits = limits]
  <2>1. new \in Evaluation
    <3>1. new \in Records
      BY <1>1, IdleType DEF Records
    <3>2. new.todo = {} /\ new.made = {} /\ new.stale = {}
      BY DEF Idle
    <3> QED BY <3>1, <3>2, EvaluationRecords
  <2>2. /\ new.pc = "limits" /\ new.made = {} /\ new.unsent = {} /\ new.todo = {}
        /\ new.stale = {} /\ ev[e].pc = "idle" /\ Becomes(e, new)
    BY <1>2 DEF ReadBudgets, Idle
  <2>3. ev'[e] = new
    BY <2>1, <2>2, OneBecomes DEF IInv
  <2>4. Quiet(e, new)
    <3> HIDE DEF new
    <3> QED BY <1>2, <2>1, <2>2, <2>3 DEF ReadBudgets, Quiet, Sent, StageFits
  <2> QED BY <2>4, QuietStep
<1>3. CASE ReadSpend(e)
  <2> DEFINE seen == ev[e].limits \cap heavy
             new == [ev[e] EXCEPT !.pc = "spend", !.seen = seen,
                        !.about = [k \in Keys |-> IF k \in seen THEN breach[k] ELSE 0]]
  <2>1. /\ ev[e].made = {} /\ ev[e].unsent = {} /\ ev[e].todo = {} /\ ev[e].stale = {}
        /\ ev[e].pc = "limits"
    BY <1>1, <1>3 DEF ReadSpend, StageFits
  <2>2. new \in Evaluation
    <3>0. ev[e] \in Records
      BY <1>1, EvaluationRecords
    <3>1. seen \subseteq Keys /\ new \in Records
      <4> DEFINE about == [k \in Keys |-> IF k \in seen THEN breach[k] ELSE 0]
      <4>1. about \in [Keys -> 0 .. MaxChanges] /\ seen \in SUBSET Keys
        BY <1>1, <3>0, BoundsAssumption DEF Records
      <4> HIDE DEF about, seen
      <4>2. [ev[e] EXCEPT !.pc = "spend", !.seen = seen, !.about = about] \in Records
        BY <3>0, <4>1 DEF Records
      <4> QED BY <4>1, <4>2 DEF about
    <3>2. new.seen = seen /\ new.todo = {} /\ new.made = {} /\ new.stale = {}
      BY <2>1, <3>0 DEF Records
    <3> QED BY <3>1, <3>2, EvaluationRecords
  <2>3. /\ new.pc = "spend" /\ new.made = {} /\ new.unsent = {} /\ new.todo = {}
        /\ new.stale = {} /\ Becomes(e, new)
    BY <1>1, <1>3, <2>1 DEF ReadSpend, Evaluation
  <2>4. ev'[e] = new
    BY <2>2, <2>3, OneBecomes DEF IInv
  <2>5. Quiet(e, new)
    <3> HIDE DEF new
    <3> QED BY <1>3, <2>1, <2>2, <2>3, <2>4 DEF ReadSpend, Quiet, Sent, StageFits
  <2> QED BY <2>5, QuietStep
<1>4. CASE ReadProjections(e)
  <2> DEFINE seen == ev[e].seen \cup (IF burning /\ e \in ShortCash THEN {Runway} ELSE {})
             new == [ev[e] EXCEPT !.pc = "look", !.seen = seen, !.todo = seen,
                        !.about[Runway] = IF Runway \in seen THEN breach[Runway] ELSE 0]
  <2>1. /\ ev[e].made = {} /\ ev[e].unsent = {} /\ ev[e].todo = {} /\ ev[e].stale = {}
        /\ ev[e].pc = "spend"
    BY <1>1, <1>4 DEF ReadProjections, StageFits
  <2>2. new \in Evaluation
    <3>0. ev[e] \in Records
      BY <1>1, EvaluationRecords
    <3>1. seen \subseteq Keys /\ new \in Records
      <4> DEFINE n == IF Runway \in seen THEN breach[Runway] ELSE 0
                 about == [ev[e].about EXCEPT ![Runway] = n]
      <4>1. n \in 0 .. MaxChanges /\ seen \in SUBSET Keys
        BY <1>1, <3>0, BoundsAssumption DEF Records
      <4> HIDE DEF n, seen
      <4>2. about \in [Keys -> 0 .. MaxChanges]
        BY <3>0, <4>1 DEF Records
      <4>3. [ev[e] EXCEPT !.pc = "look", !.seen = seen, !.todo = seen, !.about[Runway] = n]
               = [ev[e] EXCEPT !.pc = "look", !.seen = seen, !.todo = seen, !.about = about]
        BY <3>0 DEF Records
      <4> HIDE DEF about
      <4>4. [ev[e] EXCEPT !.pc = "look", !.seen = seen, !.todo = seen, !.about = about]
               \in Records
        BY <3>0, <4>1, <4>2 DEF Records
      <4> QED BY <4>1, <4>3, <4>4 DEF n
    <3>2. new.seen = seen /\ new.todo = seen /\ new.made = {} /\ new.stale = {}
      BY <2>1, <3>0 DEF Records
    <3> HIDE DEF new
    <3> QED BY <3>1, <3>2, EvaluationRecords
  <2>3. /\ new.pc = "look" /\ new.made = {} /\ new.unsent = {} /\ new.stale = {}
        /\ Becomes(e, new)
    BY <1>1, <1>4, <2>1 DEF ReadProjections, Evaluation
  <2>4. ev'[e] = new
    BY <2>2, <2>3, OneBecomes DEF IInv
  <2>5. Quiet(e, new)
    <3> HIDE DEF new
    <3> QED BY <1>4, <2>1, <2>2, <2>3, <2>4 DEF ReadProjections, Quiet, Sent, StageFits
  <2> QED BY <2>5, QuietStep
<1> QED BY <1>2, <1>3, <1>4

LEMMA FindingsStep ==
    ASSUME IInv, NEW e \in Evaluators, LookUp(e) \/ Insert(e) \/ Resolve(e)
    PROVE  IInv'
<1>1. /\ ev[e] \in Evaluation /\ ev[e] \in Records /\ StageFits(e)
      /\ ev[e].todo \in SUBSET Keys /\ ev[e].todo \subseteq ev[e].seen
      /\ ev[e].made \subseteq ev[e].seen \ ev[e].todo
  BY EvaluationRecords DEF IInv, TypeOK, StagesFit, Records
<1>2. CASE LookUp(e) /\ IsOpen(First(ev[e].todo))
  <2> DEFINE k == First(ev[e].todo)
             new == [ev[e] EXCEPT !.todo = @ \ {k}]
  <2>1. ev[e].pc = "look" /\ ev[e].stale = {} /\ Becomes(e, new)
    BY <1>1, <1>2 DEF LookUp, StageFits
  <2> HIDE DEF k
  <2>2. /\ new \in Records /\ new.pc = "look" /\ new.todo = ev[e].todo \ {k} /\ new.stale = {}
        /\ new.seen = ev[e].seen /\ new.made = ev[e].made
    BY <1>1, <2>1 DEF Records
  <2> HIDE DEF new
  <2>3. new \in Evaluation
    BY <1>1, <2>2, EvaluationRecords
  <2>4. ev'[e] = new
    BY <2>1, <2>3, OneBecomes DEF IInv
  <2>5. Quiet(e, new)
    BY <1>2, <2>1, <2>2, <2>3, <2>4 DEF LookUp, Quiet, Sent, StageFits
  <2> QED BY <2>5, QuietStep
<1>3. CASE LookUp(e) /\ ~IsOpen(First(ev[e].todo))
  <2> DEFINE new == [ev[e] EXCEPT !.pc = "insert"]
  <2>1. ev[e].pc = "look" /\ ev[e].stale = {} /\ ev[e].todo # {} /\ Becomes(e, new)
    BY <1>1, <1>3 DEF LookUp, StageFits
  <2>2. /\ new \in Records /\ new.pc = "insert" /\ new.todo = ev[e].todo /\ new.stale = {}
        /\ new.seen = ev[e].seen /\ new.made = ev[e].made
    BY <1>1, <2>1 DEF Records
  <2> HIDE DEF new
  <2>3. new \in Evaluation
    BY <1>1, <2>2, EvaluationRecords
  <2>4. ev'[e] = new
    BY <2>1, <2>3, OneBecomes DEF IInv
  <2>5. Quiet(e, new)
    BY <1>3, <2>1, <2>2, <2>3, <2>4 DEF LookUp, Quiet, Sent, StageFits
  <2> QED BY <2>5, QuietStep
<1>4. CASE Insert(e) /\ IsOpen(First(ev[e].todo))
  <2>1. ev[e].pc = "insert" /\ Becomes(e, Idle) /\ ev'[e] = Idle
    BY <1>4, IdleType, OneBecomes DEF Insert, IInv
  <2>2. Quiet(e, Idle)
    BY <1>4, <2>1, IdleType DEF Insert, Quiet, Sent, StageFits, Idle
  <2> QED BY <2>2, QuietStep
<1>5. CASE Insert(e) /\ ~IsOpen(First(ev[e].todo))
  <2> DEFINE k == First(ev[e].todo)
             new == [ev[e] EXCEPT !.pc = "look", !.todo = @ \ {k}, !.made = @ \cup {k}]
  <2>1. ev[e].pc = "insert" /\ ev[e].stale = {} /\ ev[e].todo # {} /\ Becomes(e, new)
    BY <1>1, <1>5 DEF Insert, StageFits
  <2>2. k \in ev[e].todo /\ k \in Keys
    BY <1>1, <2>1, FirstIsOne
  <2>3. ~IsOpen(k) /\ \A d \in Evaluators \ {e} : k \notin ev[d].made
    BY <1>5 DEF Insert, InsertWaits
  <2> HIDE DEF k
  <2>4. /\ new \in Records /\ new.pc = "look" /\ new.todo = ev[e].todo \ {k} /\ new.stale = {}
        /\ new.seen = ev[e].seen /\ new.made = ev[e].made \cup {k}
    BY <1>1, <2>1, <2>2 DEF Records
  <2> HIDE DEF new
  <2>5. new \in Evaluation
    BY <1>1, <2>2, <2>4, EvaluationRecords
  <2>6. ev'[e] = new
    BY <2>1, <2>5, OneBecomes DEF IInv
  <2>7. Quiet(e, new)
    BY <1>5, <2>1, <2>3, <2>4, <2>5, <2>6 DEF Insert, Quiet, Sent, StageFits
  <2> QED BY <2>7, QuietStep
<1>6. CASE Resolve(e)
  <2> DEFINE stage == IF e \in Schedulers THEN "send" ELSE "commit"
             new == [ev[e] EXCEPT !.pc = stage, !.stale = NotFiring(e), !.unsent = ev[e].made]
  <2>1. ev[e].pc = "look" /\ Becomes(e, new)
    BY <1>6 DEF Resolve
  <2>2. NotFiring(e) \in SUBSET Keys /\ NotFiring(e) \cap ev[e].seen = {}
    BY DEF NotFiring
  <2>3. /\ new \in Records /\ new.pc = stage /\ new.todo = ev[e].todo
        /\ new.stale = NotFiring(e) /\ new.seen = ev[e].seen
        /\ new.made = ev[e].made /\ new.unsent = ev[e].made
    BY <1>1, <2>2 DEF Records
  <2> HIDE DEF new
  <2>4. new \in Evaluation
    BY <1>1, <2>2, <2>3, EvaluationRecords
  <2>5. ev'[e] = new
    BY <2>1, <2>4, OneBecomes DEF IInv
  <2>6. Quiet(e, new)
    BY <1>6, <2>1, <2>3, <2>4, <2>5 DEF Resolve, Quiet, Sent, StageFits
  <2> QED BY <2>6, QuietStep
<1> QED BY <1>2, <1>3, <1>4, <1>5, <1>6

LEMMA EndingStep ==
    ASSUME IInv, NEW e \in Evaluators, SentAll(e) \/ Answered(e)
    PROVE  IInv'
<1>1. ev[e] \in Evaluation /\ ev[e] \in Records /\ StageFits(e)
  BY EvaluationRecords DEF IInv, TypeOK, StagesFit
<1>2. CASE SentAll(e)
  <2> DEFINE new == [ev[e] EXCEPT !.pc = "commit"]
  <2>1. ev[e].pc = "send" /\ ev[e].unsent = {} /\ e \in Schedulers /\ Becomes(e, new)
    BY <1>1, <1>2 DEF SentAll, StageFits
  <2>2. /\ new \in Records /\ new.pc = "commit" /\ new.todo = ev[e].todo
        /\ new.stale = ev[e].stale /\ new.seen = ev[e].seen
        /\ new.made = ev[e].made /\ new.unsent = ev[e].unsent /\ new.about = ev[e].about
    BY <1>1 DEF Records
  <2> HIDE DEF new
  <2>3. new \in Evaluation
    BY <1>1, <2>2, EvaluationRecords
  <2>4. ev'[e] = new
    BY <2>1, <2>3, OneBecomes DEF IInv
  <2>5. Quiet(e, new)
    BY <1>2, <2>1, <2>2, <2>3, <2>4 DEF SentAll, Quiet, Sent, StageFits
  <2> QED BY <2>5, QuietStep
<1>3. CASE Answered(e)
  <2>1. /\ ev[e].pc = "answer" /\ ev[e].unsent = {}
        /\ Becomes(e, Idle) /\ ev'[e] = Idle
    BY <1>3, IdleType, OneBecomes DEF Answered, IInv
  <2>2. Quiet(e, Idle)
    BY <1>3, <2>1, IdleType DEF Answered, Quiet, Sent, StageFits, Idle
  <2> QED BY <2>2, QuietStep
<1> QED BY <1>2, <1>3
----------------------------------------------------------------------------
(* A change of the world touches nothing of what the evaluations have done. *)
LEMMA ChangeStep == ASSUME IInv, Change PROVE IInv'
<1>1. PICK l \in SUBSET Budgets, h \in SUBSET Budgets, b \in BOOLEAN : World(l, h, b)
  <2>1. CASE ChangeBudget
    <3>1. PICK k \in Budgets : World(Flip(limits, k), heavy, burning)
      BY <2>1 DEF ChangeBudget
    <3> QED BY <3>1 DEF Flip, IInv, TypeOK
  <2>2. CASE ChangeSpend
    <3>1. PICK k \in Budgets : World(limits, Flip(heavy, k), burning)
      BY <2>2 DEF ChangeSpend
    <3> QED BY <3>1 DEF Flip, IInv, TypeOK
  <2>3. CASE NewMonth
    BY <2>3 DEF NewMonth, IInv, TypeOK
  <2>4. CASE ChangeBurn
    <3>1. World(limits, heavy, ~burning) /\ (~burning) \in BOOLEAN
      BY <2>4 DEF ChangeBurn
    <3> QED BY <3>1 DEF IInv, TypeOK
  <2> QED BY <2>1, <2>2, <2>3, <2>4 DEF Change
<1>2. UNCHANGED <<events, ev, notices, resolved, failures>>
  BY <1>1 DEF World
<1>3. TypeOK'
  <2>1. changes' \in 0 .. MaxChanges /\ changes' = changes + 1 /\ changes \in Nat
    BY <1>1, BoundsAssumption DEF World, IInv, TypeOK
  <2>2. breach' \in [Keys -> 0 .. changes']
    <3>1. \A k \in Keys : breach[k] \in 0 .. changes'
      BY <2>1 DEF IInv, TypeOK
    <3>2. 0 \in 0 .. changes' /\ changes + 1 \in 0 .. changes'
      BY <2>1
    <3> HIDE <2>1
    <3> QED BY <1>1, <3>1, <3>2 DEF World
  <2> QED BY <1>1, <1>2, <2>1, <2>2 DEF World, IInv, TypeOK
<1>4. StagesFit' /\ InsertedOnce' /\ SentWasNoticed' /\ JobEventsWereSent' /\ NoticesBalance'
  BY <1>2 DEF IInv, StagesFit, StageFits, InsertedOnce, IsOpen, SentWasNoticed, Sent,
       JobEventsWereSent, NoticesBalance, InHand, Owing
<1> QED BY <1>3, <1>4 DEF IInv

LEMMA StutterStep == ASSUME IInv, UNCHANGED vars PROVE IInv'
<1>1. TypeOK'
  BY DEF IInv, TypeOK, vars, world
<1>2. StagesFit' /\ InsertedOnce' /\ SentWasNoticed' /\ JobEventsWereSent' /\ NoticesBalance'
  BY DEF vars, IInv, StagesFit, StageFits, InsertedOnce, IsOpen, SentWasNoticed, Sent,
       JobEventsWereSent, NoticesBalance, InHand, Owing
<1> QED BY <1>1, <1>2 DEF IInv
----------------------------------------------------------------------------
(* What one evaluation has inserted and not sent is in nobody's hand. *)
LEMMA UnsentIsNotInHand ==
    ASSUME IInv, NEW e \in Evaluators, NEW b \in Breaches,
           b[1] \in ev[e].made, b[1] \notin Sent(e) \/ ev[e].about[b[1]] # b[2]
    PROVE  ~InHand(b)
<1>1. b[1] \in Keys /\ b[2] \in Nat
  BY BoundsAssumption DEF Breaches
<1>2. events[b[1]].about # b[2]
  BY <1>1 DEF IInv, InsertedOnce, IsOpen, Closed
<1>3. ASSUME NEW d \in Evaluators \ {e} PROVE b[1] \notin Sent(d)
  BY DEF IInv, InsertedOnce, Sent
<1> QED BY <1>2, <1>3 DEF InHand

(* A notice of a finding counts for its breach, if it still was about one. *)
LEMMA NoticeCounts ==
    ASSUME TypeOK, NEW e \in Evaluators, NEW k \in Keys,
           notices' = Noticed(notices, k, ev[e].about[k])
    PROVE  /\ notices' \in [Breaches -> Nat]
           /\ \A b \in Breaches :
                 notices'[b] = IF b = <<k, ev[e].about[k]>> THEN notices[b] + 1 ELSE notices[b]
<1>1. CASE ev[e].about[k] = 0
  <2>1. \A b \in Breaches : b # <<k, ev[e].about[k]>>
    BY <1>1, BoundsAssumption DEF Breaches
  <2> QED BY <1>1, <2>1 DEF Noticed, TypeOK
<1>2. CASE ev[e].about[k] # 0
  <2> DEFINE told == <<k, ev[e].about[k]>>
  <2>1. notices' = [notices EXCEPT ![told] = @ + 1] /\ notices \in [Breaches -> Nat]
    BY <1>2 DEF Noticed, TypeOK
  <2>2. told \in Breaches
    BY <1>2, AboutABreach
  <2> HIDE DEF told
  <2>3. notices[told] + 1 \in Nat
    BY <2>1, <2>2
  <2>4. notices' \in [Breaches -> Nat]
    BY <2>1, <2>3
  <2>5. ASSUME NEW b \in Breaches
        PROVE  notices'[b] = IF b = told THEN notices[b] + 1 ELSE notices[b]
    BY <2>1
  <2> QED BY <2>4, <2>5 DEF told
<1> QED BY <1>1, <1>2

(* A failure makes e forget what it did; what it delivered meanwhile, if anything, *)
(* was in nobody's hand.                                                           *)
Forgets(e) ==
    /\ Becomes(e, Idle) /\ UNCHANGED <<world, events, resolved>>
    /\ failures < MaxFailures /\ failures' = failures + 1
    /\ notices' \in [Breaches -> Nat]
    /\ \A b \in Breaches : \/ notices'[b] = notices[b]
                           \/ notices'[b] = notices[b] + 1 /\ ~InHand(b)

LEMMA ForgettingStep == ASSUME IInv, NEW e \in Evaluators, Forgets(e) PROVE IInv'
<1>1. /\ ev' \in [Evaluators -> Evaluation] /\ ev'[e] = Idle
      /\ \A d \in Evaluators \ {e} : ev'[d] = ev[d]
  BY IdleType, OneBecomes DEF Forgets, IInv
<1>2. TypeOK'
  BY <1>1, BoundsAssumption DEF IInv, TypeOK, Forgets, world
<1>3. StagesFit'
  <2>1. StageFits(e)'
    BY <1>1 DEF StageFits, Idle
  <2>2. ASSUME NEW d \in Evaluators \ {e} PROVE StageFits(d)'
    BY <1>1 DEF IInv, StagesFit, StageFits
  <2> QED BY <2>1, <2>2 DEF StagesFit
<1>4. InsertedOnce'
  BY <1>1 DEF IInv, InsertedOnce, IsOpen, Forgets, Idle
<1>5. /\ Sent(e)' = {}
      /\ \A d \in Evaluators \ {e} : Sent(d)' = Sent(d)
  BY <1>1 DEF Sent, Idle
<1>6. \A b \in Breaches : notices[b] \in Nat /\ notices'[b] \in Nat /\ notices'[b] >= notices[b]
  BY DEF IInv, TypeOK, Forgets
<1>7. SentWasNoticed'
  <2>1. ASSUME NEW d \in Evaluators, NEW k \in Sent(d)', ev'[d].about[k] > 0
        PROVE  notices'[<<k, ev'[d].about[k]>>] > 0
    <3>1. d # e /\ ev'[d] = ev[d] /\ k \in Sent(d)
      BY <1>1, <1>5, <2>1
    <3>2. notices[<<k, ev[d].about[k]>>] > 0 /\ k \in Keys
      BY <2>1, <3>1 DEF IInv, SentWasNoticed, Sent, TypeOK, Evaluation
    <3>3. <<k, ev[d].about[k]>> \in Breaches
      BY <2>1, <3>1, <3>2, AboutABreach DEF IInv
    <3> QED BY <1>6, <3>1, <3>2, <3>3
  <2> QED BY <2>1 DEF SentWasNoticed
<1>8. JobEventsWereSent'
  <2>1. ASSUME NEW k \in Keys, events[k].by = "job", events[k].about > 0
        PROVE  notices'[<<k, events[k].about>>] > 0
    <3>1. <<k, events[k].about>> \in Breaches
      BY <2>1, BoundsAssumption DEF IInv, TypeOK, Breaches, Closed
    <3> QED BY <1>6, <2>1, <3>1 DEF IInv, JobEventsWereSent
  <2> QED BY <2>1 DEF JobEventsWereSent, Forgets
<1>9. ASSUME NEW b \in Breaches
      PROVE  notices'[b] + Cardinality(Owing(b)') <= failures' + resolved'[b]
  <2>1. Owing(b)' \in SUBSET Owing(b)
    BY <1>1 DEF Owing, Idle, Evaluators
  <2>2. Cardinality(Owing(b)') <= Cardinality(Owing(b))
    BY <2>1, OwingIsFinite, FS_Subset
  <2> DEFINE o == Cardinality(Owing(b))
             p == Cardinality(Owing(b)')
  <2>3. o \in Nat /\ p \in Nat /\ p <= o
    BY <2>2, OwingIsFinite, OwingNextIsFinite
  <2> HIDE DEF o, p
  <2>4. notices[b] + o <= failures + resolved[b] + (IF InHand(b) THEN 1 ELSE 0)
    BY DEF IInv, NoticesBalance, o
  <2>5. /\ notices[b] \in Nat /\ notices'[b] \in Nat /\ resolved[b] \in Nat /\ failures \in Nat
        /\ resolved'[b] = resolved[b] /\ failures' = failures + 1
        /\ notices'[b] = notices[b] \/ (notices'[b] = notices[b] + 1 /\ ~InHand(b))
    BY BoundsAssumption DEF IInv, TypeOK, Forgets
  <2>6. notices'[b] + p <= failures' + resolved'[b]
    BY <2>3, <2>4, <2>5
  <2> QED BY <2>6 DEF p
<1>10. NoticesBalance'
  <2>1. ASSUME NEW b \in Breaches
        PROVE  notices'[b] + Cardinality(Owing(b)')
                  <= failures' + resolved'[b] + (IF InHand(b)' THEN 1 ELSE 0)
    <3>1. Cardinality(Owing(b)') \in Nat
      BY OwingNextIsFinite
    <3>2. notices'[b] \in Nat /\ failures' \in Nat /\ resolved'[b] \in Nat
      BY <1>2, BoundsAssumption DEF TypeOK
    <3> QED BY <1>9, <3>1, <3>2
  <2> QED BY <2>1 DEF NoticesBalance
<1> QED BY <1>2, <1>3, <1>4, <1>7, <1>8, <1>10 DEF IInv

LEMMA FailingStep ==
    ASSUME IInv, NEW e \in Evaluators, SendFails(e) \/ Abort(e) \/ AnswerLost(e)
    PROVE  IInv'
<1>1. CASE SendFails(e)
  <2> DEFINE k == First(ev[e].unsent)
  <2>1. ev[e].pc = "send" /\ ev[e].unsent # {} /\ ev[e].unsent \in SUBSET Keys
        /\ ev[e].unsent \subseteq ev[e].made
    BY <1>1 DEF SendFails, IInv, TypeOK, Evaluation, StagesFit, StageFits
  <2>2. k \in Keys /\ k \in ev[e].made /\ k \notin Sent(e)
    BY <2>1, FirstIsOne DEF Sent
  <2> HIDE DEF k
  <2>3. notices' = notices \/ notices' = Noticed(notices, k, ev[e].about[k])
    BY <1>1 DEF SendFails, k
  <2>4. CASE notices' = notices
    <3>1. Forgets(e)
      BY <1>1, <2>4 DEF SendFails, RolledBack, Forgets, IInv, TypeOK
    <3> QED BY <3>1, ForgettingStep
  <2>5. CASE notices' = Noticed(notices, k, ev[e].about[k])
    <3>1. ASSUME NEW b \in Breaches, b = <<k, ev[e].about[k]>> PROVE ~InHand(b)
      BY <2>2, <3>1, UnsentIsNotInHand
    <3>2. Forgets(e)
      BY <1>1, <2>2, <2>5, <3>1, NoticeCounts DEF SendFails, RolledBack, Forgets, IInv
    <3> QED BY <3>2, ForgettingStep
  <2> QED BY <2>3, <2>4, <2>5
<1>2. CASE Abort(e)
  <2>1. Forgets(e)
    BY <1>2 DEF Abort, RolledBack, Forgets, IInv, TypeOK
  <2> QED BY <2>1, ForgettingStep
<1>3. CASE AnswerLost(e)
  <2>1. Forgets(e)
    BY <1>3 DEF AnswerLost, Forgets, IInv, TypeOK
  <2> QED BY <2>1, ForgettingStep
<1> QED BY <1>1, <1>2, <1>3
----------------------------------------------------------------------------
(* Delivering a finding to a job's webhook or to a tool's caller. *)
LEMMA SendStep == ASSUME IInv, NEW e \in Evaluators, Send(e) PROVE IInv'
<1> DEFINE k == First(ev[e].unsent)
           new == [ev[e] EXCEPT !.unsent = @ \ {k}]
           told == <<k, ev[e].about[k]>>
<1>1. /\ ev[e] \in Evaluation /\ ev[e] \in Records /\ e \in Schedulers /\ e \notin Chats
      /\ ev[e].pc = "send" /\ ev[e].unsent # {} /\ ev[e].unsent \in SUBSET Keys
      /\ ev[e].unsent \subseteq ev[e].made
  BY EvaluationRecords, EvaluatorsAssumption
     DEF Send, IInv, TypeOK, Records, StagesFit, StageFits
<1>2. k \in ev[e].unsent /\ k \in Keys /\ k \in ev[e].made
  BY <1>1, FirstIsOne
<1>3. /\ Becomes(e, new) /\ notices' = Noticed(notices, k, ev[e].about[k])
      /\ UNCHANGED <<world, events, resolved, failures>>
  BY DEF Send
<1> HIDE DEF k
<1>4. /\ new \in Records /\ new.pc = "send" /\ new.todo = ev[e].todo /\ new.stale = ev[e].stale
      /\ new.seen = ev[e].seen /\ new.made = ev[e].made /\ new.about = ev[e].about
      /\ new.unsent = ev[e].unsent \ {k}
  BY <1>1 DEF Records
<1> HIDE DEF new
<1>5. new \in Evaluation
  BY <1>1, <1>4, EvaluationRecords
<1>6. /\ ev' \in [Evaluators -> Evaluation] /\ ev'[e] = new
      /\ \A d \in Evaluators \ {e} : ev'[d] = ev[d]
  BY <1>3, <1>5, OneBecomes DEF IInv
<1>7. /\ notices' \in [Breaches -> Nat]
      /\ \A b \in Breaches : notices'[b] = IF b = told THEN notices[b] + 1 ELSE notices[b]
  BY <1>2, <1>3, NoticeCounts DEF IInv
<1>8. TypeOK'
  BY <1>3, <1>6, <1>7 DEF IInv, TypeOK, world
<1>9. StagesFit'
  <2>1. StageFits(e)'
    BY <1>1, <1>4, <1>6 DEF StageFits
  <2>2. ASSUME NEW d \in Evaluators \ {e} PROVE StageFits(d)'
    BY <1>6 DEF IInv, StagesFit, StageFits
  <2> QED BY <2>1, <2>2 DEF StagesFit
<1>10. InsertedOnce'
  BY <1>3, <1>4, <1>6 DEF IInv, InsertedOnce, IsOpen
<1>11. /\ Sent(e)' = Sent(e) \cup {k} /\ k \notin Sent(e)
       /\ \A d \in Evaluators \ {e} : Sent(d)' = Sent(d)
       /\ \A d \in Evaluators : ev'[d].about = ev[d].about
  BY <1>1, <1>2, <1>4, <1>6 DEF Sent
<1>12. \A b \in Breaches : notices[b] \in Nat /\ notices'[b] \in Nat /\ notices'[b] >= notices[b]
  BY <1>7 DEF IInv, TypeOK
<1>13. SentWasNoticed'
  <2>1. ASSUME NEW d \in Evaluators, NEW j \in Sent(d)', ev'[d].about[j] > 0
        PROVE  notices'[<<j, ev'[d].about[j]>>] > 0
    <3>1. ev'[d].about = ev[d].about /\ (j \in Sent(d) \/ (d = e /\ j = k))
      BY <1>11
    <3>2. j \in Keys
      BY <1>2, <3>1 DEF IInv, TypeOK, Evaluation, Sent
    <3>3. <<j, ev[d].about[j]>> \in Breaches
      BY <2>1, <3>1, <3>2, AboutABreach DEF IInv
    <3>4. CASE j \in Sent(d)
      BY <1>12, <2>1, <3>1, <3>3, <3>4 DEF IInv, SentWasNoticed
    <3>5. CASE d = e /\ j = k
      <4>1. notices'[told] = notices[told] + 1 /\ notices[told] \in Nat
        BY <1>7, <1>12, <3>3, <3>5
      <4> QED BY <3>1, <3>5, <4>1
    <3> QED BY <3>1, <3>4, <3>5
  <2> QED BY <2>1 DEF SentWasNoticed
<1>14. JobEventsWereSent'
  <2>1. ASSUME NEW j \in Keys, events[j].by = "job", events[j].about > 0
        PROVE  notices'[<<j, events[j].about>>] > 0
    <3>1. <<j, events[j].about>> \in Breaches
      BY <2>1, BoundsAssumption DEF IInv, TypeOK, Breaches, Closed
    <3> QED BY <1>12, <2>1, <3>1 DEF IInv, JobEventsWereSent
  <2> QED BY <1>3, <2>1 DEF JobEventsWereSent
<1>15. NoticesBalance'
  <2>1. ASSUME NEW b \in Breaches
        PROVE  notices'[b] + Cardinality(Owing(b)')
                  <= failures' + resolved'[b] + (IF InHand(b)' THEN 1 ELSE 0)
    <3>1. Owing(b)' = Owing(b)
      <4>1. \A d \in Chats : d \in Evaluators \ {e}
        BY <1>1 DEF Evaluators
      <4> QED BY <1>6, <4>1 DEF Owing
    <3>2. InHand(b) => InHand(b)'
      BY <1>3, <1>11 DEF InHand
    <3>3. b = told => ~InHand(b) /\ InHand(b)'
      <4>1. ASSUME b = told PROVE b[1] = k /\ b[2] = ev[e].about[k]
        BY <4>1
      <4>2. b = told => ~InHand(b)
        BY <1>2, <1>11, <4>1, UnsentIsNotInHand
      <4> HIDE DEF told
      <4>3. b = told => InHand(b)'
        BY <1>11, <4>1 DEF InHand
      <4> QED BY <4>2, <4>3
    <3> DEFINE o == Cardinality(Owing(b))
    <3>4. /\ o \in Nat /\ notices[b] \in Nat /\ failures \in Nat /\ resolved[b] \in Nat
          /\ notices[b] + o <= failures + resolved[b] + (IF InHand(b) THEN 1 ELSE 0)
          /\ failures' = failures /\ resolved' = resolved
      BY <1>3, OwingIsFinite, BoundsAssumption DEF IInv, TypeOK, NoticesBalance
    <3> HIDE DEF o, told
    <3>5. notices'[b] + o <= failures' + resolved'[b] + (IF InHand(b)' THEN 1 ELSE 0)
      BY <1>7, <3>2, <3>3, <3>4
    <3> QED BY <3>1, <3>5 DEF o
  <2> QED BY <2>1 DEF NoticesBalance
<1> QED BY <1>8, <1>9, <1>10, <1>13, <1>14, <1>15 DEF IInv

LEMMA AnswerStep == ASSUME IInv, NEW e \in Evaluators, AnswerChat(e) PROVE IInv'
<1> DEFINE k == First(ev[e].unsent)
           new == [ev[e] EXCEPT !.unsent = @ \ {k}]
           told == <<k, ev[e].about[k]>>
<1>1. /\ ev[e] \in Evaluation /\ ev[e] \in Records /\ e \in Chats /\ e \notin Schedulers
      /\ ev[e].pc = "answer" /\ ev[e].unsent # {} /\ ev[e].unsent \in SUBSET Keys
      /\ ev[e].made = {}
  BY EvaluationRecords, EvaluatorsAssumption
     DEF AnswerChat, IInv, TypeOK, Records, StagesFit, StageFits
<1>2. k \in ev[e].unsent /\ k \in Keys
  BY <1>1, FirstIsOne
<1>3. /\ Becomes(e, new) /\ notices' = Noticed(notices, k, ev[e].about[k])
      /\ UNCHANGED <<world, events, resolved, failures>>
  BY DEF AnswerChat
<1> HIDE DEF k
<1>4. /\ new \in Records /\ new.pc = "answer" /\ new.todo = ev[e].todo /\ new.stale = ev[e].stale
      /\ new.seen = ev[e].seen /\ new.made = ev[e].made /\ new.about = ev[e].about
      /\ new.unsent = ev[e].unsent \ {k}
  BY <1>1 DEF Records
<1> HIDE DEF new
<1>5. new \in Evaluation
  BY <1>1, <1>4, EvaluationRecords
<1>6. /\ ev' \in [Evaluators -> Evaluation] /\ ev'[e] = new
      /\ \A d \in Evaluators \ {e} : ev'[d] = ev[d]
  BY <1>3, <1>5, OneBecomes DEF IInv
<1>7. /\ notices' \in [Breaches -> Nat]
      /\ \A b \in Breaches : notices'[b] = IF b = told THEN notices[b] + 1 ELSE notices[b]
  BY <1>2, <1>3, NoticeCounts DEF IInv
<1>8. TypeOK'
  BY <1>3, <1>6, <1>7 DEF IInv, TypeOK, world
<1>9. StagesFit'
  <2>1. StageFits(e)'
    BY <1>1, <1>4, <1>6 DEF IInv, StagesFit, StageFits
  <2>2. ASSUME NEW d \in Evaluators \ {e} PROVE StageFits(d)'
    BY <1>6 DEF IInv, StagesFit, StageFits
  <2> QED BY <2>1, <2>2 DEF StagesFit
<1>10. InsertedOnce'
  BY <1>3, <1>4, <1>6 DEF IInv, InsertedOnce, IsOpen
<1>11. \A d \in Evaluators : Sent(d)' = Sent(d) /\ ev'[d].about = ev[d].about
  BY <1>1, <1>4, <1>6 DEF Sent
<1>12. \A b \in Breaches : notices[b] \in Nat /\ notices'[b] \in Nat /\ notices'[b] >= notices[b]
  BY <1>7 DEF IInv, TypeOK
<1>13. SentWasNoticed'
  <2>1. ASSUME NEW d \in Evaluators, NEW j \in Sent(d), ev[d].about[j] > 0
        PROVE  notices'[<<j, ev[d].about[j]>>] > 0
    <3>1. <<j, ev[d].about[j]>> \in Breaches
      BY <2>1, AboutABreach DEF IInv, TypeOK, Evaluation, Sent
    <3> QED BY <1>12, <2>1, <3>1 DEF IInv, SentWasNoticed
  <2> QED BY <1>11, <2>1 DEF SentWasNoticed
<1>14. JobEventsWereSent'
  <2>1. ASSUME NEW j \in Keys, events[j].by = "job", events[j].about > 0
        PROVE  notices'[<<j, events[j].about>>] > 0
    <3>1. <<j, events[j].about>> \in Breaches
      BY <2>1, BoundsAssumption DEF IInv, TypeOK, Breaches, Closed
    <3> QED BY <1>12, <2>1, <3>1 DEF IInv, JobEventsWereSent
  <2> QED BY <1>3, <2>1 DEF JobEventsWereSent
<1>15. NoticesBalance'
  <2>1. ASSUME NEW b \in Breaches
        PROVE  notices'[b] + Cardinality(Owing(b)')
                  <= failures' + resolved'[b] + (IF InHand(b)' THEN 1 ELSE 0)
    <3>1. InHand(b)' = InHand(b)
      BY <1>3, <1>11 DEF InHand
    <3>2. \A d \in Chats \ {e} : d \in Owing(b)' <=> d \in Owing(b)
      BY <1>6 DEF Owing, Evaluators
    <3>3. CASE b # told
      <4>1. b[1] = k => ev[e].about[k] # b[2]
        BY <3>3 DEF Breaches
      <4>2. e \in Owing(b)' <=> e \in Owing(b)
        BY <1>1, <1>4, <1>6, <4>1 DEF Owing
      <4>3. Owing(b)' = Owing(b)
        BY <3>2, <4>2 DEF Owing
      <4>4. notices'[b] = notices[b]
        BY <1>7, <3>3
      <4> QED BY <1>3, <3>1, <4>3, <4>4 DEF IInv, NoticesBalance
    <3>4. CASE b = told
      <4>1. b[1] = k /\ b[2] = ev[e].about[k]
        BY <3>4
      <4>2. e \in Owing(b) /\ e \notin Owing(b)'
        BY <1>1, <1>2, <1>4, <1>6, <4>1 DEF Owing
      <4>3. Owing(b)' = Owing(b) \ {e}
        BY <3>2, <4>2 DEF Owing
      <4>4. Cardinality(Owing(b)') = Cardinality(Owing(b)) - 1
        BY <4>2, <4>3, OwingIsFinite, FS_RemoveElement
      <4>5. notices'[b] = notices[b] + 1 /\ notices[b] \in Nat
        BY <1>7, <1>12, <3>4
      <4> DEFINE o == Cardinality(Owing(b))
                 p == Cardinality(Owing(b)')
      <4>6. o \in Nat /\ p = o - 1
        BY <4>4, OwingIsFinite
      <4>7. /\ notices[b] + o <= failures + resolved[b] + (IF InHand(b) THEN 1 ELSE 0)
            /\ failures' = failures /\ resolved' = resolved
        BY <1>3 DEF IInv, NoticesBalance
      <4> HIDE DEF o, p
      <4>8. notices'[b] + p = notices[b] + o
        BY <4>5, <4>6
      <4> QED BY <3>1, <4>7, <4>8 DEF o, p
    <3> QED BY <3>3, <3>4
  <2> QED BY <2>1 DEF NoticesBalance
<1> QED BY <1>8, <1>9, <1>10, <1>13, <1>14, <1>15 DEF IInv
----------------------------------------------------------------------------
(* A commit opens what e inserted and closes what e selected; no other evaluation *)
(* changes but for selected rows that are gone.                                   *)
LEMMA CommittedEvaluations ==
    ASSUME IInv, NEW e \in Evaluators, Commit(e)
    PROVE  /\ ev' \in [Evaluators -> Evaluation] /\ StagesFit'
           /\ ev'[e].made = {} /\ Sent(e)' = {}
           /\ e \in Schedulers => Sent(e) = ev[e].made
           /\ e \in Schedulers => ev'[e].pc = "idle"
           /\ e \notin Schedulers =>
                 /\ ev'[e].pc = "answer" /\ ev'[e].unsent = ev[e].made
                 /\ ev'[e].about = ev[e].about
           /\ \A d \in Evaluators \ {e} :
                 /\ Sent(d)' = Sent(d)
                 /\ ev'[d].pc = ev[d].pc /\ ev'[d].made = ev[d].made
                 /\ ev'[d].unsent = ev[d].unsent /\ ev'[d].about = ev[d].about
<1>1. /\ ev[e] \in Records /\ ev[e].pc = "commit"
      /\ ev[e].unsent = IF e \in Schedulers THEN {} ELSE ev[e].made
      /\ ev[e].todo \subseteq ev[e].seen /\ ev[e].made \subseteq ev[e].seen
  BY EvaluationRecords DEF Commit, IInv, TypeOK, StagesFit, StageFits
<1> DEFINE mine == IF e \in Schedulers THEN Idle
                   ELSE [ev[e] EXCEPT !.pc = "answer", !.made = {}, !.stale = {}]
           other(d) == [ev[d] EXCEPT !.stale = @ \ ev[e].stale]
<1>2. ev' = [d \in Evaluators |-> IF d # e THEN other(d) ELSE mine]
  BY DEF Commit
<1>3. /\ mine \in Evaluation /\ mine.made = {} /\ mine.stale = {}
      /\ e \in Schedulers => mine = Idle
      /\ e \notin Schedulers => mine.pc = "answer" /\ mine.about = ev[e].about
                                  /\ mine.unsent = ev[e].made
  <2>1. CASE e \in Schedulers
    BY <2>1, IdleType DEF Idle
  <2>2. CASE e \notin Schedulers
    <3>1. /\ mine \in Records /\ mine.pc = "answer" /\ mine.made = {} /\ mine.stale = {}
          /\ mine.about = ev[e].about /\ mine.unsent = ev[e].unsent
          /\ mine.todo = ev[e].todo /\ mine.seen = ev[e].seen
      BY <1>1, <2>2 DEF Records
    <3> HIDE DEF mine
    <3>2. mine \in Evaluation
      BY <1>1, <3>1, EvaluationRecords
    <3> QED BY <1>1, <2>2, <3>1, <3>2
  <2> QED BY <2>1, <2>2
<1>4. ASSUME NEW d \in Evaluators \ {e}
      PROVE  /\ other(d) \in Evaluation /\ other(d).pc = ev[d].pc /\ other(d).made = ev[d].made
             /\ other(d).unsent = ev[d].unsent /\ other(d).about = ev[d].about
             /\ other(d).todo = ev[d].todo /\ other(d).stale \subseteq ev[d].stale
  <2>1. /\ ev[d] \in Evaluation /\ ev[d] \in Records /\ ev[d].made \subseteq ev[d].seen \ ev[d].todo
        /\ ev[d].todo \subseteq ev[d].seen /\ ev[d].stale \cap ev[d].seen = {}
    BY EvaluationRecords DEF IInv, TypeOK
  <2> DEFINE new == other(d)
  <2>2. /\ new \in Records /\ new.pc = ev[d].pc /\ new.made = ev[d].made
        /\ new.unsent = ev[d].unsent /\ new.about = ev[d].about /\ new.seen = ev[d].seen
        /\ new.todo = ev[d].todo /\ new.stale = ev[d].stale \ ev[e].stale
    BY <2>1 DEF Records
  <2> HIDE DEF new
  <2>3. new \in Evaluation
    BY <2>1, <2>2, EvaluationRecords
  <2> QED BY <2>2, <2>3 DEF new
<1> HIDE DEF mine, other
<1>5. ev'[e] = mine /\ \A d \in Evaluators \ {e} : ev'[d] = other(d)
  BY <1>2
<1>6. ev' \in [Evaluators -> Evaluation]
  BY <1>2, <1>3, <1>4
<1>7. e \in Schedulers => Idle.pc = "idle" /\ Idle.todo = {} /\ Idle.unsent = {}
  BY DEF Idle
<1>8. StageFits(e)'
  BY <1>3, <1>5, <1>7 DEF StageFits, Evaluators
<1>9. ASSUME NEW d \in Evaluators \ {e} PROVE StageFits(d)' /\ Sent(d)' = Sent(d)
  <2>1. StageFits(d)
    BY DEF IInv, StagesFit
  <2> QED BY <1>4, <1>5, <2>1 DEF StageFits, Sent
<1>10. Sent(e)' = {} /\ (e \in Schedulers => Sent(e) = ev[e].made)
  BY <1>1, <1>3, <1>5, <1>7 DEF Sent
<1> QED BY <1>3, <1>4, <1>5, <1>6, <1>7, <1>8, <1>9, <1>10 DEF StagesFit

LEMMA CommitStep == ASSUME IInv, NEW e \in Evaluators, Commit(e) PROVE IInv'
<1>1. /\ UNCHANGED <<world, notices, failures>>
      /\ events' = AfterCommit(e)
      /\ resolved' = [b \in Breaches |-> resolved[b]
              + IF b[1] \in ev[e].stale /\ events[b[1]].about = b[2] THEN 1 ELSE 0]
  BY DEF Commit
<1>2. /\ ev[e] \in Evaluation /\ ev[e].made \subseteq Keys /\ ev[e].stale \cap ev[e].made = {}
      /\ ev[e].pc = "commit"
  BY DEF Commit, IInv, TypeOK, Evaluation
<1>3. ASSUME NEW k \in Keys
      PROVE  /\ k \in ev[e].made => events'[k].about = ev[e].about[k]
             /\ k \in ev[e].made /\ events'[k].by = "job" => e \in Schedulers
             /\ k \in ev[e].stale => events'[k] = Closed
             /\ k \notin ev[e].made /\ k \notin ev[e].stale => events'[k] = events[k]
  <2>1. /\ k \in ev[e].made => events'[k] = EventOf(e, k)
        /\ k \in ev[e].stale => events'[k] = Closed
        /\ k \notin ev[e].made /\ k \notin ev[e].stale => events'[k] = events[k]
    BY <1>1, <1>2 DEF AfterCommit
  <2>2. /\ EventOf(e, k).about = ev[e].about[k]
        /\ EventOf(e, k).by = "job" => e \in Schedulers
    BY DEF EventOf
  <2> QED BY <2>1, <2>2
<1>4. ASSUME NEW b \in Breaches
      PROVE  /\ resolved'[b] \in Nat /\ resolved[b] \in Nat /\ resolved'[b] >= resolved[b]
             /\ b[1] \in ev[e].stale /\ events[b[1]].about = b[2]
                   => resolved'[b] = resolved[b] + 1
  BY <1>1 DEF IInv, TypeOK
<1>5. TypeOK'
  <2>1. ASSUME NEW k \in Keys
        PROVE  EventOf(e, k) \in [about : 0 .. MaxChanges, by : {"job", "tool"}]
    BY AboutABreach DEF EventOf, IInv
  <2>2. events' \in [Keys -> [about : 0 .. MaxChanges, by : {"job", "tool"}] \cup {Closed}]
    <3> DEFINE Rows == [about : 0 .. MaxChanges, by : {"job", "tool"}]
    <3>1. \A k \in Keys : EventOf(e, k) \in Rows
      BY <2>1
    <3>2. events \in [Keys -> Rows \cup {Closed}]
      BY DEF IInv, TypeOK
    <3> HIDE DEF Rows
    <3>3. events' \in [Keys -> Rows \cup {Closed}]
      BY <1>1, <3>1, <3>2 DEF AfterCommit
    <3> QED BY <3>3 DEF Rows
  <2>3. resolved' \in [Breaches -> Nat]
    <3>1. \A b \in Breaches : resolved'[b] \in Nat
      BY <1>4
    <3> QED BY <1>1, <3>1
  <2>4. ev' \in [Evaluators -> Evaluation]
    BY CommittedEvaluations
  <2> QED BY <1>1, <2>2, <2>3, <2>4 DEF IInv, TypeOK, world
<1>6. InsertedOnce'
  <2>1. ASSUME NEW d \in Evaluators, NEW k \in ev'[d].made
        PROVE  events'[k] = Closed /\ \A c \in Evaluators \ {d} : k \notin ev'[c].made
    <3>1. d # e /\ k \in ev[d].made
      BY <2>1, CommittedEvaluations
    <3>2. k \in Keys /\ events[k] = Closed /\ k \notin ev[e].made
      BY <3>1 DEF IInv, InsertedOnce, IsOpen, TypeOK, Evaluation
    <3>3. \A c \in Evaluators \ {d} : k \notin ev'[c].made
      BY <3>1, CommittedEvaluations DEF IInv, InsertedOnce
    <3> QED BY <1>3, <3>2, <3>3
  <2> QED BY <2>1 DEF InsertedOnce, IsOpen
<1>7. SentWasNoticed'
  <2>1. ASSUME NEW d \in Evaluators, NEW k \in Sent(d)', ev'[d].about[k] > 0
        PROVE  notices[<<k, ev'[d].about[k]>>] > 0
    <3>1. d # e /\ k \in Sent(d) /\ ev'[d].about = ev[d].about
      BY <2>1, CommittedEvaluations
    <3> QED BY <2>1, <3>1 DEF IInv, SentWasNoticed
  <2> QED BY <1>1, <2>1 DEF SentWasNoticed
<1>8. JobEventsWereSent'
  <2>1. ASSUME NEW k \in Keys, events'[k].by = "job", events'[k].about > 0
        PROVE  notices[<<k, events'[k].about>>] > 0
    <3>1. CASE k \in ev[e].made
      <4>1. e \in Schedulers /\ events'[k].about = ev[e].about[k]
        BY <1>3, <2>1, <3>1
      <4>2. k \in Sent(e)
        BY <3>1, <4>1, CommittedEvaluations
      <4> QED BY <2>1, <4>1, <4>2 DEF IInv, SentWasNoticed
    <3>2. CASE k \in ev[e].stale
      BY <1>3, <2>1, <3>2 DEF Closed
    <3>3. CASE k \notin ev[e].made /\ k \notin ev[e].stale
      BY <1>3, <2>1, <3>3 DEF IInv, JobEventsWereSent
    <3> QED BY <3>1, <3>2, <3>3
  <2> QED BY <1>1, <2>1 DEF JobEventsWereSent
<1>9. NoticesBalance'
  <2>1. ASSUME NEW b \in Breaches
        PROVE  notices'[b] + Cardinality(Owing(b)')
                  <= failures' + resolved'[b] + (IF InHand(b)' THEN 1 ELSE 0)
    <3> DEFINE o == Cardinality(Owing(b))
               p == Cardinality(Owing(b)')
               becomesOwed == e \notin Schedulers /\ b[1] \in ev[e].made
                                 /\ ev[e].about[b[1]] = b[2]
    <3>1. b[1] \in Keys /\ b[2] \in Nat
      BY BoundsAssumption DEF Breaches
    <3>2. \A d \in Chats \ {e} : d \in Owing(b)' <=> d \in Owing(b)
      <4>1. \A d \in Chats \ {e} : d \in Evaluators \ {e}
        BY DEF Evaluators
      <4> QED BY <4>1, CommittedEvaluations DEF Owing
    <3>3. e \notin Owing(b) /\ (e \in Owing(b)' <=> becomesOwed)
      <4>1. e \notin Owing(b)
        BY <1>2 DEF Owing
      <4>2. CASE e \in Schedulers
        BY <4>1, <4>2, EvaluatorsAssumption DEF Owing
      <4>3. CASE e \notin Schedulers
        <5>1. e \in Chats /\ ev'[e].pc = "answer" /\ ev'[e].unsent = ev[e].made
              /\ ev'[e].about = ev[e].about
          BY <4>3, CommittedEvaluations DEF Evaluators
        <5> QED BY <4>1, <4>3, <5>1 DEF Owing
      <4> QED BY <4>2, <4>3
    <3>4. /\ o \in Nat /\ p \in Nat /\ notices[b] \in Nat /\ failures \in Nat
          /\ resolved[b] \in Nat /\ resolved'[b] \in Nat /\ resolved'[b] >= resolved[b]
          /\ notices[b] + o <= failures + resolved[b] + (IF InHand(b) THEN 1 ELSE 0)
          /\ notices' = notices /\ failures' = failures
      BY <1>1, <1>4, OwingIsFinite, OwingNextIsFinite, BoundsAssumption
         DEF IInv, TypeOK, NoticesBalance
    <3>5. CASE becomesOwed
      <4>1. ~InHand(b)
        <5>1. b[1] \notin Sent(e)
          BY <3>5 DEF Sent
        <5> QED BY <3>5, <5>1, UnsentIsNotInHand
      <4>2. InHand(b)'
        BY <1>3, <3>1, <3>5 DEF InHand
      <4>3. Owing(b)' = Owing(b) \cup {e}
        <5>1. e \in Owing(b)'
          BY <3>3, <3>5
        <5> HIDE DEF becomesOwed
        <5> QED BY <3>2, <3>3, <5>1 DEF Owing
      <4>4. p = o + 1
        BY <3>3, <4>3, OwingIsFinite, FS_AddElement
      <4> HIDE DEF o, p, becomesOwed
      <4>5. notices'[b] + p <= failures' + resolved'[b] + (IF InHand(b)' THEN 1 ELSE 0)
        BY <3>4, <4>1, <4>2, <4>4
      <4> QED BY <4>5 DEF p
    <3>6. CASE ~becomesOwed
      <4>1. Owing(b)' = Owing(b)
        <5> HIDE DEF becomesOwed
        <5> QED BY <3>2, <3>3, <3>6 DEF Owing
      <4>2. InHand(b) => InHand(b)' \/ resolved'[b] = resolved[b] + 1
        <5>1. CASE \E d \in Evaluators \ {e} : b[1] \in Sent(d) /\ ev[d].about[b[1]] = b[2]
          BY <5>1, CommittedEvaluations DEF InHand
        <5>2. CASE b[1] \in Sent(e) /\ ev[e].about[b[1]] = b[2]
          <6>1. b[1] \in ev[e].made
            BY <5>2 DEF Sent
          <6> QED BY <1>3, <3>1, <5>2, <6>1 DEF InHand
        <5>3. CASE events[b[1]].about = b[2]
          <6>1. b[1] \notin ev[e].made
            BY <3>1, <5>3 DEF IInv, InsertedOnce, IsOpen, Closed
          <6> QED BY <1>3, <1>4, <3>1, <5>3, <6>1 DEF InHand
        <5> QED BY <5>1, <5>2, <5>3 DEF InHand
      <4>3. p = o
        BY <4>1
      <4> HIDE DEF o, p, becomesOwed
      <4>4. notices'[b] + p <= failures' + resolved'[b] + (IF InHand(b)' THEN 1 ELSE 0)
        BY <3>4, <4>2, <4>3
      <4> QED BY <4>4 DEF p
    <3> QED BY <3>5, <3>6
  <2> QED BY <2>1 DEF NoticesBalance
<1>10. StagesFit'
  BY CommittedEvaluations
<1> QED BY <1>5, <1>6, <1>7, <1>8, <1>9, <1>10 DEF IInv
----------------------------------------------------------------------------
LEMMA InitiallyHolds == Init => IInv
<1> SUFFICES ASSUME Init PROVE IInv
  OBVIOUS
<1>1. TypeOK
  <2>1. /\ changes \in 0 .. MaxChanges /\ failures \in 0 .. MaxFailures
        /\ breach \in [Keys -> 0 .. changes]
    BY BoundsAssumption DEF Init
  <2>2. ev \in [Evaluators -> Evaluation]
    BY IdleType DEF Init
  <2>3. notices \in [Breaches -> Nat] /\ resolved \in [Breaches -> Nat]
    BY DEF Init
  <2> QED BY <2>1, <2>2, <2>3 DEF Init, TypeOK
<1>2. StagesFit /\ InsertedOnce
  BY DEF Init, StagesFit, StageFits, InsertedOnce, Idle
<1>3. \A e \in Evaluators : Sent(e) = {}
  BY DEF Init, Sent, Idle
<1>4. SentWasNoticed /\ JobEventsWereSent
  BY <1>3 DEF Init, SentWasNoticed, JobEventsWereSent, Closed
<1>5. ASSUME NEW b \in Breaches
      PROVE  notices[b] + Cardinality(Owing(b))
                <= failures + resolved[b] + (IF InHand(b) THEN 1 ELSE 0)
  <2>1. Owing(b) = {}
    BY DEF Init, Owing, Idle, Evaluators
  <2>2. Cardinality(Owing(b)) = 0
    BY <2>1, FS_EmptySet
  <2> QED BY <2>2 DEF Init
<1> QED BY <1>1, <1>2, <1>4, <1>5 DEF IInv, NoticesBalance

LEMMA StepKeepsInvariant == IInv /\ [Next]_vars => IInv'
<1> SUFFICES ASSUME IInv, [Next]_vars PROVE IInv'
  OBVIOUS
<1>1. CASE UNCHANGED vars
  BY <1>1, StutterStep
<1>2. CASE Change
  BY <1>2, ChangeStep
<1>3. ASSUME NEW e \in Evaluators,
             ReadBudgets(e) \/ Step(e) \/ SendFails(e) \/ Abort(e) \/ AnswerLost(e)
      PROVE  IInv'
  BY <1>3, ReadingStep, FindingsStep, SendStep, EndingStep, CommitStep, AnswerStep,
     FailingStep DEF Step
<1> QED BY <1>1, <1>2, <1>3 DEF Next

(* Everything the properties below follow from holds for ever. *)
THEOREM Invariance == Spec => []IInv
<1>1. Init => IInv
  BY InitiallyHolds
<1>2. IInv /\ [Next]_vars => IInv'
  BY StepKeepsInvariant
<1> QED BY <1>1, <1>2, PTL DEF Spec

(* Evaluations keep their types whatever the world does between their statements. *)
THEOREM TypeCorrect == Spec => []TypeOK
<1>1. IInv => TypeOK
  BY DEF IInv
<1> QED BY <1>1, Invariance, PTL

(* However many runs of the job and calls of check_alerts overlap, a breach is       *)
(* reported again only after a failure or after its event was deleted.               *)
THEOREM ReportsAccounted == Spec => []ReportsAreAccountedFor
<1>1. IInv => ReportsAreAccountedFor
  <2> SUFFICES ASSUME IInv, NEW b \in Breaches
               PROVE  notices[b] <= 1 + failures + resolved[b]
    BY DEF ReportsAreAccountedFor
  <2> DEFINE o == Cardinality(Owing(b))
  <2>1. o \in Nat
    BY OwingIsFinite
  <2>2. notices[b] + o <= failures + resolved[b] + (IF InHand(b) THEN 1 ELSE 0)
    BY DEF IInv, NoticesBalance
  <2>3. notices[b] \in Nat /\ failures \in Nat /\ resolved[b] \in Nat
    BY BoundsAssumption DEF IInv, TypeOK
  <2> HIDE DEF o
  <2> QED BY <2>1, <2>2, <2>3
<1> QED BY <1>1, Invariance, PTL

(* The breach of an open event the job made has been delivered: the job sends before *)
(* it commits.                                                                       *)
THEOREM JobSendsFirst == Spec => []JobEventsWereSent
<1>1. IInv => JobEventsWereSent
  BY DEF IInv
<1> QED BY <1>1, Invariance, PTL
----------------------------------------------------------------------------
(* A step of e alone leaves k settled if e's new record is up to date. *)
LEMMA AloneStep ==
    ASSUME IInv, NEW k \in Keys, Settled(k), UNCHANGED <<world, events>>,
           NEW e \in Evaluators, \A d \in Evaluators \ {e} : ev'[d] = ev[d],
           UpToDate(e, k)'
    PROVE  Settled(k)' /\ (Right(k) => Right(k)')
<1>1. \A d \in Evaluators : Firing(d)' = Firing(d)
  BY DEF Firing, world
<1>2. ASSUME NEW d \in Evaluators \ {e} PROVE UpToDate(d, k)'
  <2>1. UpToDate(d, k) /\ ev'[d] = ev[d]
    BY DEF Settled
  <2> QED BY <1>1, <2>1 DEF UpToDate, IsOpen, world
<1>3. Agreed(k)' /\ (Right(k) => Right(k)')
  BY <1>1 DEF Settled, Agreed, Right, IsOpen
<1> QED BY <1>2, <1>3 DEF Settled

(* Reading, or forgetting everything, leaves an evaluation up to date. *)
LEMMA ReadingSettled ==
    ASSUME IInv, NEW k \in Keys, Settled(k), UNCHANGED world, NEW e \in Evaluators,
           \/ ReadBudgets(e) \/ ReadSpend(e) \/ ReadProjections(e)
           \/ SendFails(e) \/ Abort(e) \/ AnswerLost(e) \/ AnswerChat(e) \/ Answered(e)
    PROVE  UpToDate(e, k)' /\ UNCHANGED events /\ \A d \in Evaluators \ {e} : ev'[d] = ev[d]
<1>1. ev[e] \in Records /\ UpToDate(e, k) /\ ev \in [Evaluators -> Evaluation]
  BY EvaluationRecords DEF IInv, TypeOK, Settled
<1>2. UNCHANGED events
  BY DEF ReadBudgets, ReadSpend, ReadProjections, SendFails, Abort, AnswerLost, AnswerChat,
         Answered, RolledBack
<1>3. Firing(e)' = Firing(e) /\ (IsOpen(k)' <=> IsOpen(k)) /\ limits' = limits /\ heavy' = heavy
  BY <1>2 DEF Firing, IsOpen, world
<1>4. CASE ReadBudgets(e)
  <2> DEFINE new == [Idle EXCEPT !.pc = "limits", !.limits = limits]
  <2>1. new.pc = "limits" /\ new.limits = limits
    BY DEF Idle
  <2> HIDE DEF new
  <2>2. ev' = [ev EXCEPT ![e] = new]
    BY <1>4 DEF ReadBudgets, Becomes, new
  <2> QED BY <1>1, <1>2, <1>3, <2>1, <2>2 DEF UpToDate
<1>5. CASE ReadSpend(e)
  <2> DEFINE new == [ev[e] EXCEPT !.pc = "spend", !.seen = ev[e].limits \cap heavy,
                        !.about = [j \in Keys |-> IF j \in ev[e].limits \cap heavy
                                                  THEN breach[j] ELSE 0]]
  <2>1. new.pc = "spend" /\ new.seen = ev[e].limits \cap heavy
    BY <1>1 DEF Records
  <2> HIDE DEF new
  <2>2. ev' = [ev EXCEPT ![e] = new] /\ ev[e].pc = "limits"
    BY <1>5 DEF ReadSpend, Becomes, new
  <2> QED BY <1>1, <1>2, <1>3, <2>1, <2>2 DEF UpToDate
<1>6. CASE ReadProjections(e)
  <2> DEFINE seen == ev[e].seen \cup (IF burning /\ e \in ShortCash THEN {Runway} ELSE {})
             new == [ev[e] EXCEPT !.pc = "look", !.seen = seen, !.todo = seen,
                        !.about[Runway] = IF Runway \in seen THEN breach[Runway] ELSE 0]
  <2>1. new.pc = "look" /\ new.seen = seen /\ new.todo = seen
    BY <1>1 DEF Records
  <2>2. ev' = [ev EXCEPT ![e] = new] /\ ev[e].pc = "spend"
    BY <1>6 DEF ReadProjections, Becomes
  <2>3. (k \in seen) <=> (k \in Firing(e))
    BY <1>1, <2>2 DEF UpToDate, Firing
  <2> HIDE DEF new, seen
  <2> QED BY <1>1, <1>2, <1>3, <2>1, <2>2, <2>3 DEF UpToDate
<1>7. CASE SendFails(e) \/ Abort(e) \/ AnswerLost(e) \/ Answered(e)
  <2>1. ev' = [ev EXCEPT ![e] = Idle] /\ Idle.pc = "idle"
    BY <1>7 DEF SendFails, Abort, AnswerLost, Answered, RolledBack, Becomes, Idle
  <2> QED BY <1>1, <1>2, <2>1 DEF UpToDate
<1>8. CASE AnswerChat(e)
  <2> DEFINE new == [ev[e] EXCEPT !.unsent = @ \ {First(ev[e].unsent)}]
  <2>1. new.pc = ev[e].pc
    BY <1>1 DEF Records
  <2> HIDE DEF new
  <2>2. ev' = [ev EXCEPT ![e] = new] /\ ev[e].pc = "answer"
    BY <1>8 DEF AnswerChat, Becomes, new
  <2> QED BY <1>1, <1>2, <2>1, <2>2 DEF UpToDate
<1> QED BY <1>4, <1>5, <1>6, <1>7, <1>8

(* So does going through the findings, selecting what is resolved, and sending. *)
LEMMA FindingsSettled ==
    ASSUME IInv, NEW k \in Keys, Settled(k), UNCHANGED world, NEW e \in Evaluators,
           LookUp(e) \/ Insert(e) \/ Resolve(e) \/ Send(e) \/ SentAll(e)
    PROVE  UpToDate(e, k)' /\ UNCHANGED events /\ \A d \in Evaluators \ {e} : ev'[d] = ev[d]
<1>1. ev[e] \in Records /\ UpToDate(e, k) /\ ev \in [Evaluators -> Evaluation]
  BY EvaluationRecords DEF IInv, TypeOK, Settled
<1>2. UNCHANGED events
  BY DEF LookUp, Insert, Resolve, Send, SentAll
<1>3. Firing(e)' = Firing(e) /\ (IsOpen(k)' <=> IsOpen(k))
  BY <1>2 DEF Firing, IsOpen, world
<1>4. CASE LookUp(e)
  <2> DEFINE j == First(ev[e].todo)
             new == IF IsOpen(j) THEN [ev[e] EXCEPT !.todo = @ \ {j}]
                    ELSE [ev[e] EXCEPT !.pc = "insert"]
  <2>1. /\ new.pc \in {"look", "insert"} /\ new.seen = ev[e].seen /\ new.made = ev[e].made
        /\ new.todo = (IF IsOpen(j) THEN ev[e].todo \ {j} ELSE ev[e].todo)
    BY <1>1, <1>4 DEF Records, LookUp
  <2>2. ev' = [ev EXCEPT ![e] = new] /\ ev[e].pc = "look"
    BY <1>4 DEF LookUp, Becomes
  <2> HIDE DEF new, j
  <2>3. k \in new.seen \ (new.todo \cup new.made) => IsOpen(k)
    BY <1>1, <2>1, <2>2 DEF UpToDate
  <2> QED BY <1>1, <1>2, <1>3, <2>1, <2>2, <2>3 DEF UpToDate
<1>5. CASE Insert(e)
  <2> DEFINE j == First(ev[e].todo)
             next == [ev[e] EXCEPT !.pc = "look", !.todo = @ \ {j}, !.made = @ \cup {j}]
             new == IF IsOpen(j) THEN Idle ELSE next
  <2>1. /\ next.pc = "look" /\ next.seen = ev[e].seen
        /\ next.made = ev[e].made \cup {j} /\ next.todo = ev[e].todo \ {j}
    BY <1>1 DEF Records
  <2>2. Idle.pc = "idle"
    BY DEF Idle
  <2>3. ev' = [ev EXCEPT ![e] = new] /\ ev[e].pc = "insert"
    BY <1>5 DEF Insert, Becomes
  <2> HIDE DEF next, j
  <2>4. k \in next.seen \ (next.todo \cup next.made) => IsOpen(k)
    BY <1>1, <2>1, <2>3 DEF UpToDate
  <2> QED BY <1>1, <1>2, <1>3, <2>1, <2>2, <2>3, <2>4 DEF UpToDate
<1>6. CASE Resolve(e)
  <2> DEFINE new == [ev[e] EXCEPT !.pc = IF e \in Schedulers THEN "send" ELSE "commit",
                        !.stale = NotFiring(e), !.unsent = ev[e].made]
  <2>1. /\ new.pc \in {"send", "commit"} /\ new.seen = ev[e].seen
        /\ new.made = ev[e].made /\ new.stale = NotFiring(e)
    BY <1>1 DEF Records
  <2>2. ev' = [ev EXCEPT ![e] = new] /\ ev[e].pc = "look" /\ ev[e].todo = {}
    BY <1>6 DEF Resolve, Becomes
  <2> HIDE DEF new
  <2>3. k \notin ev[e].seen /\ IsOpen(k) => k \in NotFiring(e)
    BY DEF NotFiring
  <2> QED BY <1>1, <1>2, <1>3, <2>1, <2>2, <2>3 DEF UpToDate
<1>7. CASE Send(e) \/ SentAll(e)
  <2>1. PICK new :
           /\ ev' = [ev EXCEPT ![e] = new] /\ ev[e].pc = "send" /\ new.pc \in {"send", "commit"}
           /\ new.seen = ev[e].seen /\ new.made = ev[e].made /\ new.stale = ev[e].stale
    <3>1. CASE Send(e)
      <4> WITNESS [ev[e] EXCEPT !.unsent = @ \ {First(ev[e].unsent)}]
      <4> QED BY <1>1, <3>1 DEF Send, Becomes, Records
    <3>2. CASE SentAll(e)
      <4> WITNESS [ev[e] EXCEPT !.pc = "commit"]
      <4> QED BY <1>1, <3>2 DEF SentAll, Becomes, Records
    <3> QED BY <1>7, <3>1, <3>2
  <2> QED BY <1>1, <1>2, <1>3, <2>1 DEF UpToDate
<1> QED BY <1>4, <1>5, <1>6, <1>7

(* A commit of an evaluation that is up to date opens k if k fires and closes it *)
(* if it does not; either way what the others have concluded stays right.        *)
LEMMA CommitSettled ==
    ASSUME IInv, NEW k \in Keys, Settled(k), NEW e \in Evaluators, Commit(e)
    PROVE  Settled(k)' /\ Right(k)'
<1>1. /\ ev[e] \in Evaluation /\ ev[e] \in Records /\ UpToDate(e, k) /\ ev[e].pc = "commit"
      /\ ev[e].made \subseteq ev[e].seen /\ ev[e].stale \cap ev[e].seen = {}
  BY EvaluationRecords DEF Commit, IInv, TypeOK, Settled
<1>2. \A d \in Evaluators : Firing(d)' = Firing(d) /\ ((k \in Firing(d)) <=> (k \in Firing(e)))
  BY DEF Commit, Firing, world, Settled, Agreed
<1>3. EventOf(e, k) # Closed
  <2>1. ev[e].about[k] \in 0 .. MaxChanges
    BY AboutABreach DEF IInv
  <2>2. EventOf(e, k).about = ev[e].about[k] /\ Closed.about = -1
    BY DEF EventOf, Closed
  <2> QED BY <2>1, <2>2, BoundsAssumption
<1>4. events'[k] = IF k \in ev[e].made THEN EventOf(e, k)
                   ELSE IF k \in ev[e].stale THEN Closed ELSE events[k]
  BY DEF Commit, AfterCommit
<1>5. IsOpen(k)' <=> (k \in Firing(e))
  <2>1. (k \in ev[e].seen) <=> (k \in Firing(e))
    BY <1>1 DEF UpToDate
  <2>2. CASE k \in ev[e].seen
    BY <1>1, <1>3, <1>4, <2>1, <2>2 DEF UpToDate, IsOpen
  <2>3. CASE k \notin ev[e].seen
    BY <1>1, <1>4, <2>1, <2>3 DEF UpToDate, IsOpen
  <2> QED BY <2>2, <2>3
<1>6. ASSUME NEW d \in Evaluators \ {e} PROVE UpToDate(d, k)'
  <2>1. UpToDate(d, k) /\ ev[d] \in Records
    BY EvaluationRecords DEF Settled, IInv, TypeOK
  <2> DEFINE new == [ev[d] EXCEPT !.stale = @ \ ev[e].stale]
  <2>2. /\ new.pc = ev[d].pc /\ new.limits = ev[d].limits /\ new.seen = ev[d].seen
        /\ new.todo = ev[d].todo /\ new.made = ev[d].made
    BY <2>1 DEF Records
  <2>3. ev'[d] = new
    BY DEF Commit
  <2> HIDE DEF new
  <2>4. limits' = limits /\ heavy' = heavy
    BY DEF Commit, world
  <2>5. (k \in ev[d].seen) <=> (k \in Firing(d)) => (IsOpen(k)' <=> (k \in ev[d].seen))
    BY <1>2, <1>5
  <2> QED BY <1>2, <2>1, <2>2, <2>3, <2>4, <2>5 DEF UpToDate
<1>7. UpToDate(e, k)'
  <2>1. ev'[e].pc \in {"idle", "answer"}
    BY CommittedEvaluations
  <2> QED BY <2>1 DEF UpToDate
<1>8. Agreed(k)' /\ Right(k)'
  BY <1>2, <1>5 DEF Agreed, Right
<1> QED BY <1>6, <1>7, <1>8 DEF Settled

LEMMA SettledStep ==
    ASSUME IInv, [Next]_vars, NEW k \in Keys, Settled(k), UNCHANGED world
    PROVE  /\ Settled(k)'
           /\ Right(k) \/ (\E e \in Evaluators : Commit(e)) => Right(k)'
<1>1. CASE UNCHANGED <<ev, events>>
  <2>1. \A d \in Evaluators : Firing(d)' = Firing(d)
    BY DEF Firing, world
  <2>2. Settled(k)' /\ (Right(k) => Right(k)')
    BY <1>1, <2>1 DEF Settled, Agreed, UpToDate, Right, IsOpen, world
  <2>3. ASSUME NEW e \in Evaluators, Commit(e) PROVE Right(k)'
    BY <2>3, CommitSettled
  <2> QED BY <2>2, <2>3
<1>2. ASSUME NEW e \in Evaluators,
             ReadBudgets(e) \/ Step(e) \/ SendFails(e) \/ Abort(e) \/ AnswerLost(e)
      PROVE  Settled(k)' /\ (Right(k) => Right(k)')
  <2>1. CASE Commit(e)
    BY <2>1, CommitSettled
  <2>2. CASE ~Commit(e)
    <3>1. UpToDate(e, k)' /\ UNCHANGED events /\ \A d \in Evaluators \ {e} : ev'[d] = ev[d]
      BY <1>2, <2>2, ReadingSettled, FindingsSettled DEF Step
    <3> QED BY <3>1, AloneStep
  <2> QED BY <2>1, <2>2
<1>3. CASE Change
  BY <1>1, <1>3 DEF Change, ChangeBudget, ChangeSpend, NewMonth, ChangeBurn, World
<1>4. ASSUME NEW e \in Evaluators, Commit(e) PROVE Right(k)'
  BY <1>4, CommitSettled
<1>5. CASE UNCHANGED vars
  BY <1>1, <1>5 DEF vars
<1> QED BY <1>2, <1>3, <1>4, <1>5 DEF Next

(* While the world stays as it is, evaluations that read it as it is put the open    *)
(* events right with their first commit, and none of them puts them wrong again.     *)
THEOREM SettledRunsConverge == Spec => SettledRunsAgree
<1>1. IInv /\ [Next]_vars =>
        [\A k \in Keys : Settled(k) /\ UNCHANGED world =>
              /\ Settled(k)'
              /\ Right(k) \/ (\E e \in Evaluators : Commit(e)) => Right(k)']_vars
  BY SettledStep
<1> QED BY <1>1, Invariance, PTL DEF Spec, SettledRunsAgree

(* So from a time at which no evaluation is under way that read another world, and   *)
(* on if the world does not change again, the events stay right once they are.       *)
THEOREM RightForEver ==
    ASSUME NEW CONSTANT k \in Keys
    PROVE  Spec => [](Settled(k) /\ Right(k) /\ [][UNCHANGED world]_vars => []Right(k))
<1>1. IInv /\ [Next]_vars /\ [UNCHANGED world]_vars /\ Settled(k) /\ Right(k)
        => Settled(k)' /\ Right(k)'
  <2>1. UNCHANGED vars => UNCHANGED world
    BY DEF vars
  <2> QED BY <2>1, SettledStep
<1> QED BY <1>1, Invariance, PTL DEF Spec
=============================================================================
