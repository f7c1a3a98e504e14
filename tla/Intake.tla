------------------------------- MODULE Intake -------------------------------
(***************************************************************************)
(* How a transaction someone means to record gets into the ledger: the MCP *)
(* tool record_transaction and the form /transactions/new.  Both validate, *)
(* convert to COP and call create_transaction; the tool may first ask for  *)
(* the invalid fields (MCP elicitation), which suspends the call.  A       *)
(* caller who gets no answer, or not the one it wants, asks again; a       *)
(* request may run beside an earlier one.                                  *)
(*                                                                         *)
(* create_transaction is its two statements, the lookup of the idempotency *)
(* key and the INSERT with the commit: what Ledger shows in detail.        *)
(***************************************************************************)
EXTENDS Integers, Sequences, FiniteSets

CONSTANTS
    Intents,     \* transactions someone means to record
    Slots,       \* requests a caller may have under way for one transaction
    Amounts,     \* amounts meant, in tenths of a minor unit
    Currencies,  \* currencies meant
    Rate,        \* COP per USD are Rate / RateUnit, a decimal
    RateUnit,
    MaxSlips,    \* bound on the fields that are not passed as meant at first
    MaxFailures  \* bound on the failures of the TRM service and lost answers

ASSUME AmountsAssumption == Amounts \subseteq Nat \ {0}
ASSUME RateAssumption == Rate \in Nat /\ RateUnit \in Nat \ {0}
ASSUME BoundsAssumption == MaxSlips \in Nat /\ MaxFailures \in Nat

Requests == Intents \X Slots

(* What stands for an absent field, for one that cannot be parsed, and for an    *)
(* amount such as NaN or Infinity; an amount is invalid if it is not positive.   *)
Missing == "missing"
Bad == "bad"
NotANumber == -1
Invalid(f) == IF f = "amount" THEN 0 ELSE Bad

ASSUME CurrenciesAssumption == Missing \notin Currencies /\ Bad \notin Currencies

CategoriesOf == [income |-> {"subscription"}, expense |-> {"cogs"}]
Types == DOMAIN CategoriesOf
Categories == UNION {CategoriesOf[t] : t \in Types}

(* occurred_on and description are validated each by itself, like the type.      *)
Fields == {"type", "category", "amount", "currency"}
Input == [type : Types \cup {Bad}, category : Categories \cup {Missing, Bad},
          amount : Amounts \cup {0, NotANumber}, currency : Currencies \cup {Missing, Bad}]

Meanings == {m \in [type : Types, category : Categories, amount : Amounts, currency : Currencies] :
                m.category \in CategoriesOf[m.type]}

(* What may be passed for a field besides what is meant, and is not right.       *)
Slips(f) ==
    {Invalid(f)} \cup IF f = "amount" THEN {NotANumber}
                      ELSE IF f = "type" THEN {} ELSE {Missing}

VARIABLES
    door,      \* intent -> what its caller uses: the MCP tool, always with the same
               \* idempotency_key ("keyed") or without one, or the form
    meant,     \* intent -> the transaction its caller means
    stated,    \* intent -> the arguments its caller passes now
    req,       \* request -> how far it has come
    rows,      \* the rows created, in order of commit
    acked,     \* intents whose caller has been told "ok"
    failures

vars == <<door, meant, stated, req, rows, acked, failures>>

Doors == {"keyed", "tool", "form"}
Chat(i) == door[i] # "form"
HasKey(i) == door[i] = "keyed"

(* passed: the arguments of the call; raw: the same after the elicitation.       *)
Idle == [pc |-> "idle"]
Request ==
    [pc : {"validate", "elicit", "revalidate", "convert", "insert"},
     passed : Input, raw : Input]
      \cup [pc : {"answer"}, passed : Input, missing : SUBSET Fields,
            status : {"ok", "clarification_needed", "error", "raised"}]

(* A row of `transactions`; `minor` is amount_minor, key whether it carries the  *)
(* intent's idempotency key, given the currency that was passed.                 *)
Row == [intent : Intents, key : BOOLEAN, type : Types, category : Categories,
        minor : Nat, currency : Currencies \cup {"COP"}, given : Currencies \cup {Missing}]
----------------------------------------------------------------------------
(* Pure parts.                                                                  *)

(* Mutant: a category of either type will do.                                    *)
AnyCategory(raw) ==
    {f \in Fields \ {"category"} : raw[f] = Invalid(f)}
      \cup {f \in {"category"} : raw.category \in {Missing, Bad}}

(* The fields validate_transaction reports.  A category that is there cannot be  *)
(* checked while the type is unknown; a currency that is not there is the dollar.*)
Issues(raw) ==
    {f \in Fields \ {"category"} : raw[f] = Invalid(f)}
      \cup {f \in {"category"} : \/ raw.category = Missing
                                 \/ /\ raw.type # Bad
                                    /\ raw.category \notin CategoriesOf[raw.type]}

(* Decimal.to_integral_exact: half to even.                                      *)
ToMinor(tenths) ==
    LET whole == tenths \div 10
        rest == tenths % 10
    IN IF rest > 5 \/ (rest = 5 /\ whole % 2 = 1) THEN whole + 1 ELSE whole

(* An amount that is not a finite number raises: NaN where it is compared with   *)
(* zero, Infinity where it is made an int, and neither inside the try.           *)
Raises(raw) == raw.amount = NotANumber

(* fx.convert_usd_to_cop: a half goes up.                                        *)
ToPesos(minor) == (2 * minor * Rate + RateUnit) \div (2 * RateUnit)

(* fx.convert_to_cop: dollars become pesos, anything else stays what it is.      *)
Currency(raw) == IF raw.currency = Missing THEN "USD" ELSE raw.currency
Converted(raw) ==
    IF Currency(raw) = "USD"
    THEN [minor |-> ToPesos(ToMinor(raw.amount)), currency |-> "COP"]
    ELSE [minor |-> ToMinor(raw.amount), currency |-> raw.currency]

RowOf(i, raw) ==
    [intent |-> i, key |-> HasKey(i), type |-> raw.type, category |-> raw.category,
     minor |-> Converted(raw).minor, currency |-> Converted(raw).currency,
     given |-> raw.currency]

Recorded(i) == \E n \in DOMAIN rows : rows[n].intent = i
----------------------------------------------------------------------------
(* What may be passed at first: fields as meant or not, or a category of the      *)
(* other type.                                                                   *)
FirstStated(m) ==
    {raw \in Input : /\ \A f \in Fields \ {"category"} : raw[f] \in {m[f]} \cup Slips(f)
                     /\ raw.category \in Categories \cup {Missing}
                     /\ Cardinality({f \in Fields : raw[f] # m[f]}) <= MaxSlips}

Init ==
    /\ door \in [Intents -> Doors]
    /\ meant \in [Intents -> Meanings]
    /\ stated \in {st \in [Intents -> Input] : \A i \in Intents : st[i] \in FirstStated(meant[i])}
    /\ req = [r \in Requests |-> Idle]
    /\ rows = << >>
    /\ acked = {}
    /\ failures = 0

Goes(r, to) == req' = [req EXCEPT ![r] = to]
Moves(r, pc) == Goes(r, [req[r] EXCEPT !.pc = pc])
Answers(r, status, missing) ==
    Goes(r, [pc |-> "answer", passed |-> req[r].passed, status |-> status, missing |-> missing])

(* The tool is called, or the form posted; again, if it may be.                  *)
Call(r) ==
    /\ req[r] = Idle /\ r[1] \notin acked
    /\ Goes(r, [pc |-> "validate", passed |-> stated[r[1]], raw |-> stated[r[1]]])
    /\ UNCHANGED <<door, meant, stated, rows, acked, failures>>

(* The first validation.  Only the tool asks for what is invalid.                *)
Validate(r) ==
    /\ req[r].pc = "validate"
    /\ IF Raises(req[r].raw) THEN Answers(r, "raised", {})
       ELSE IF Issues(req[r].raw) = {} THEN Moves(r, "convert")
       ELSE IF Chat(r[1]) THEN Moves(r, "elicit")
       ELSE Answers(r, "clarification_needed", Issues(req[r].raw))
    /\ UNCHANGED <<door, meant, stated, rows, acked, failures>>

(* Mutant: the whole form is asked again, and answered in part.                  *)
AskedForAll(raw) == Fields

(* The schema sent to the client has a field for each issue.                     *)
AskedFor(raw) == Issues(raw)

(* The client accepts, and gives for each of the fields what is meant or again   *)
(* something that is not right.                                                  *)
ElicitAccepted(r) ==
    /\ req[r].pc = "elicit"
    /\ LET raw == req[r].raw
           Given(f) == IF f \in AskedFor(raw) THEN {meant[r[1]][f]} \cup Slips(f) ELSE {raw[f]}
       IN  \E t \in Given("type"), c \in Given("category"), a \in Given("amount"), u \in Given("currency") :
              Goes(r, [pc |-> "revalidate", passed |-> req[r].passed,
                       raw |-> [type |-> t, category |-> c, amount |-> a, currency |-> u]])
    /\ UNCHANGED <<door, meant, stated, rows, acked, failures>>

(* Mutant: an elicitation that fails is an error that names no field.            *)
DeclinedIsAnError(r) ==
    /\ req[r].pc = "elicit"
    /\ Answers(r, "error", {})
    /\ UNCHANGED <<door, meant, stated, rows, acked, failures>>

(* The client declines, cancels or cannot elicit: the issues are the answer.     *)
ElicitDeclined(r) ==
    /\ req[r].pc = "elicit"
    /\ Answers(r, "clarification_needed", Issues(req[r].raw))
    /\ UNCHANGED <<door, meant, stated, rows, acked, failures>>

(* Mutant: what was elicited is taken as it is.                                  *)
Trusts(r) ==
    /\ req[r].pc = "revalidate"
    /\ Moves(r, "convert")
    /\ UNCHANGED <<door, meant, stated, rows, acked, failures>>

(* What was elicited is validated with the rest; the tool asks only once.        *)
Revalidate(r) ==
    /\ req[r].pc = "revalidate"
    /\ IF Raises(req[r].raw) THEN Answers(r, "raised", {})
       ELSE IF Issues(req[r].raw) = {} THEN Moves(r, "convert")
       ELSE Answers(r, "clarification_needed", Issues(req[r].raw))
    /\ UNCHANGED <<door, meant, stated, rows, acked, failures>>

(* The TRM service fails, or has published no rate for the day.                  *)
NoRate(r) ==
    /\ req[r].pc = "convert" /\ Currency(req[r].raw) = "USD"
    /\ failures < MaxFailures /\ failures' = failures + 1
    /\ IF Chat(r[1]) THEN Answers(r, "error", {})
       ELSE Answers(r, "clarification_needed", {"currency"})
    /\ UNCHANGED <<door, meant, stated, rows, acked>>

KeyTaken(i) == \E n \in DOMAIN rows : rows[n].intent = i /\ rows[n].key

(* convert_to_cop has the rate it needs, and create_transaction looks the key    *)
(* up, if it was given one: a retry gets the row it made before.                 *)
LookUp(r) ==
    /\ req[r].pc = "convert"
    /\ IF KeyTaken(r[1]) THEN Answers(r, "ok", {}) ELSE Moves(r, "insert")
    /\ UNCHANGED <<door, meant, stated, rows, acked, failures>>

(* Mutant: idempotency_key is not unique.                                        *)
CheckedOnlyPositive(r) == Converted(req[r].raw).minor <= 0

(* The table's constraints: the unique key, and ck_transactions_amount_positive. *)
Refused(r) == KeyTaken(r[1]) \/ Converted(req[r].raw).minor <= 0

(* INSERT and COMMIT.                                                            *)
Insert(r) ==
    /\ req[r].pc = "insert"
    /\ IF Refused(r) THEN Answers(r, "raised", {}) /\ UNCHANGED rows
       ELSE Answers(r, "ok", {}) /\ rows' = Append(rows, RowOf(r[1], req[r].raw))
    /\ UNCHANGED <<door, meant, stated, acked, failures>>

(* The caller corrects the fields the answer names.                              *)
Corrected(i, named) == [f \in Fields |-> IF f \in named THEN meant[i][f] ELSE stated[i][f]]

(* The answer arrives.  Fields that were elicited are not among the arguments of *)
(* the next call: the caller only knows what it was told.                        *)
Answered(r) ==
    /\ req[r].pc = "answer"
    /\ Goes(r, Idle)
    /\ stated' = [stated EXCEPT ![r[1]] = Corrected(r[1], req[r].missing)]
    /\ acked' = IF req[r].status = "ok" THEN acked \cup {r[1]} ELSE acked
    /\ UNCHANGED <<door, meant, rows, failures>>

(* The connection or the process dies: before the commit nothing is recorded,    *)
(* after it the row is there and the caller does not know.                       *)
Lost(r) ==
    /\ req[r] # Idle
    /\ failures < MaxFailures /\ failures' = failures + 1
    /\ Goes(r, Idle)
    /\ UNCHANGED <<door, meant, stated, rows, acked>>

Step(r) == \/ Validate(r) \/ ElicitAccepted(r) \/ ElicitDeclined(r) \/ Revalidate(r)
           \/ LookUp(r) \/ Insert(r) \/ Answered(r)

Next == \E r \in Requests : Call(r) \/ Step(r) \/ NoRate(r) \/ Lost(r)

(* A request runs to its end (elicitation ends when the client answers or its    *)
(* session does), and a caller asks again until it is told "ok".                 *)
Fairness == \A r \in Requests : WF_vars(Step(r) \/ Call(r))

Spec == Init /\ [][Next]_vars
FairSpec == Spec /\ Fairness
----------------------------------------------------------------------------
TypeOK ==
    /\ door \in [Intents -> Doors]
    /\ meant \in [Intents -> Meanings] /\ stated \in [Intents -> Input]
    /\ req \in [Requests -> Request \cup {Idle}]
    /\ rows \in Seq(Row)
    /\ acked \subseteq Intents /\ failures \in 0 .. MaxFailures

(* A row is the transaction its caller meant, wherever its fields came from: the *)
(* call, an elicitation, a retry after a clarification (validation.py:1-7).  But *)
(* a currency that was left out is the dollar, whatever was meant.  Dollars are   *)
(* in pesos, and no more is lost than half a unit in each of the two roundings,   *)
(* to cents and to pesos' cents (validation.py:118, fx.py:59-60).                 *)
RecordedAsMeant ==
    \A n \in DOMAIN rows :
        LET row == rows[n]
            m == meant[row.intent]
            currency == IF row.given = Missing THEN "USD" ELSE m.currency
        IN /\ row.type = m.type /\ row.category = m.category
           /\ row.currency = IF currency = "USD" THEN "COP" ELSE currency
           /\ IF currency = "USD"
              THEN 10 * RateUnit * row.minor - Rate * m.amount
                     \in -5 * (Rate + RateUnit) .. 5 * (Rate + RateUnit)
              ELSE 10 * row.minor - m.amount \in -5 .. 5

(* However often the tool is called with one idempotency_key, beside itself or    *)
(* after an answer that was lost, one transaction is recorded once; and whoever   *)
(* has been told so by any door, it is recorded (repository.py:8-10, 48-56).      *)
(* Without a key, which is optional (server.py:85), it may be recorded twice.     *)
RecordedOnce ==
    /\ \A i \in acked : Recorded(i)
    /\ \A i \in Intents : HasKey(i) =>
          \A m, n \in DOMAIN rows : rows[m].intent = i /\ rows[n].intent = i => m = n

(* A clarification names a field, and only fields that were passed wrong,        *)
(* even after an elicitation has replaced some of them: the caller who corrects  *)
(* what is named never has to touch a field that was right.                      *)
ClarificationsNameFaults ==
    \A r \in Requests :
        req[r].pc = "answer" /\ req[r].status = "clarification_needed" /\ Chat(r[1]) =>
            /\ req[r].missing # {}
            /\ \A f \in req[r].missing : req[r].passed[f] # meant[r[1]][f]

(* The caller who corrects what is named and repeats a call that failed ends up  *)
(* with the transaction recorded: clarification never goes round in circles,     *)
(* although a wrong category hides behind a missing type, and elicited fields    *)
(* are forgotten between the calls.  Not so an amount that rounds to nothing, or *)
(* a caller who goes on to give one that is not a number: that is an exception,   *)
(* which names no field.                                                         *)
EveryIntentIsRecorded ==
    \A i \in Intents :
        \/ <>(i \in acked)
        \/ ToMinor(meant[i].amount) = 0
        \/ []<>(\E s \in Slots : LET q == req[<<i, s>>]
                               IN  q.pc \in {"validate", "revalidate"} /\ Raises(q.raw))
============================================================================
