---------------------------- MODULE IntakeProofs ----------------------------
(***************************************************************************)
(* Theorems about Intake, for any intents, requests, amounts, currencies   *)
(* and rate: types, that clarifications name what was wrong and come to an *)
(* end, that what is recorded is what was meant, and that calls with one   *)
(* idempotency key record it once.                                         *)
(***************************************************************************)
EXTENDS Intake, TLAPS

LEMMA Numbers ==
    Amounts \subseteq Nat \ {0} /\ Rate \in Nat /\ RateUnit \in Nat \ {0} /\ MaxFailures \in Nat
BY AmountsAssumption, RateAssumption, BoundsAssumption

(* The taxonomy: one category for each type.                                     *)
LEMMA Taxonomy ==
    /\ Types = {"income", "expense"} /\ Categories = {"subscription", "cogs"}
    /\ CategoriesOf["income"] = {"subscription"} /\ CategoriesOf["expense"] = {"cogs"}
<1>1. Types = {"income", "expense"}
    BY DEF Types, CategoriesOf
<1>2. CategoriesOf["income"] = {"subscription"} /\ CategoriesOf["expense"] = {"cogs"}
    BY DEF CategoriesOf
<1>3. Categories = {"subscription", "cogs"}
    BY <1>1, <1>2 DEF Categories
<1>4. QED BY <1>1, <1>2, <1>3

(* Arguments as functions of their fields.                                       *)
LEMMA InputForm ==
    ASSUME NEW raw \in Input
    PROVE  /\ DOMAIN raw = Fields
           /\ raw["type"] = raw.type /\ raw.type \in Types \cup {Bad}
           /\ raw["category"] = raw.category /\ raw.category \in Categories \cup {Missing, Bad}
           /\ raw["amount"] = raw.amount /\ raw.amount \in Amounts \cup {0, NotANumber}
           /\ raw["currency"] = raw.currency /\ raw.currency \in Currencies \cup {Missing, Bad}
BY DEF Input, Fields

LEMMA InputOf ==
    ASSUME NEW f, f = [x \in Fields |-> f[x]],
           f["type"] \in Types \cup {Bad}, f["category"] \in Categories \cup {Missing, Bad},
           f["amount"] \in Amounts \cup {0, NotANumber},
           f["currency"] \in Currencies \cup {Missing, Bad}
    PROVE  f \in Input
BY DEF Input, Fields

LEMMA SlipsAre ==
    /\ Slips("type") = {Bad} /\ Slips("category") = {Missing, Bad}
    /\ Slips("amount") = {0, NotANumber} /\ Slips("currency") = {Missing, Bad}
BY DEF Slips, Invalid

(* Arguments taken field by field from two others and what is not right.         *)
LEMMA MixedInput ==
    ASSUME NEW raw \in Input, NEW m \in Input, NEW f,
           f = [x \in Fields |-> f[x]],
           \A x \in Fields : f[x] \in {raw[x], m[x]} \cup Slips(x)
    PROVE  f \in Input
<1>1. /\ f["type"] \in {raw["type"], m["type"], Bad}
      /\ f["category"] \in {raw["category"], m["category"], Missing, Bad}
      /\ f["amount"] \in {raw["amount"], m["amount"], 0, NotANumber}
      /\ f["currency"] \in {raw["currency"], m["currency"], Missing, Bad}
    BY SlipsAre DEF Fields
<1>2. QED BY <1>1, InputForm, InputOf

LEMMA MeaningForm ==
    ASSUME NEW m \in Meanings
    PROVE  /\ m \in Input
           /\ m["type"] = m.type /\ m["amount"] = m.amount /\ m["currency"] = m.currency
           /\ \A f \in Fields : m[f] # Invalid(f)
           /\ m.type \in Types /\ m.type # Bad /\ m.category \in CategoriesOf[m.type]
           /\ m.category \in Categories /\ m.category # Missing
           /\ m.amount \in Amounts /\ m.currency \in Currencies
<1>1. /\ m \in Input
      /\ m["type"] = m.type /\ m["category"] = m.category
      /\ m["amount"] = m.amount /\ m["currency"] = m.currency
      /\ m.type \in Types /\ m.category \in Categories
      /\ m.amount \in Amounts /\ m.currency \in Currencies
      /\ m.category \in CategoriesOf[m.type]
    BY DEF Meanings, Input
<1>2. m.type # Bad /\ m.category # Bad /\ m.category # Missing
    BY <1>1, Taxonomy DEF Bad, Missing
<1>3. m.amount # 0 /\ m.currency # Bad
    BY <1>1, Numbers, CurrenciesAssumption
<1>4. \A f \in Fields : m[f] # Invalid(f)
    BY <1>1, <1>2, <1>3 DEF Fields, Invalid
<1>5. QED BY <1>1, <1>2, <1>4

(* What a caller says of a meaning: each field but the category as meant or      *)
(* not right.                                                                    *)
Says(m, raw) ==
    raw \in Input /\ \A f \in Fields \ {"category"} : raw[f] \in {m[f]} \cup Slips(f)

(* The fields the validation reports are wrong, and what it lets pass is meant.  *)
LEMMA IssuesAreWrong ==
    ASSUME NEW m \in Meanings, NEW raw, Says(m, raw), NEW f \in Issues(raw)
    PROVE  f \in Fields /\ raw[f] # m[f]
<1>1. CASE f \in Fields \ {"category"}
    BY <1>1, MeaningForm DEF Issues
<1>2. CASE f = "category"
    <2>1. \/ raw.category = Missing
          \/ raw.type # Bad /\ raw.category \notin CategoriesOf[raw.type]
        BY <1>2 DEF Issues
    <2>2. raw.type \in {m.type, Bad}
        BY InputForm, MeaningForm, SlipsAre DEF Says, Fields
    <2>3. raw.category # m.category
        BY <2>1, <2>2, MeaningForm
    <2>4. raw["category"] = raw.category /\ m["category"] = m.category
        BY InputForm, MeaningForm DEF Says
    <2>5. QED BY <1>2, <2>3, <2>4 DEF Fields
<1>3. QED BY <1>1, <1>2 DEF Issues

LEMMA PassedIsMeant ==
    ASSUME NEW m \in Meanings, NEW raw, Says(m, raw), Issues(raw) = {}, ~Raises(raw)
    PROVE  /\ raw.type = m.type /\ raw.category = m.category /\ raw.amount = m.amount
           /\ raw.currency \in {m.currency, Missing}
<1>1. raw \in Input /\ m \in Input
    BY MeaningForm DEF Says
<1>2. /\ raw["type"] = raw.type /\ raw["amount"] = raw.amount /\ raw["currency"] = raw.currency
      /\ m["type"] = m.type /\ m["amount"] = m.amount /\ m["currency"] = m.currency
    BY <1>1, InputForm
<1>3. raw.type # Bad /\ raw.amount # 0 /\ raw.currency # Bad /\ raw.amount # NotANumber
    BY <1>2 DEF Issues, Raises, Fields, Invalid
<1>4. /\ raw.type \in {m.type, Bad} /\ raw.amount \in {m.amount, 0, NotANumber}
      /\ raw.currency \in {m.currency, Missing, Bad}
    BY <1>2, SlipsAre DEF Says, Fields
<1>5. raw.type = m.type /\ raw.amount = m.amount /\ raw.currency \in {m.currency, Missing}
    BY <1>3, <1>4
<1>6. raw.category \in CategoriesOf[m.type]
    BY <1>3, <1>5 DEF Issues
<1>7. raw.category = m.category
    BY <1>6, MeaningForm, Taxonomy
<1>8. QED BY <1>5, <1>7

(* Rounding to the nearest unit.                                                 *)
LEMMA Rounding ==
    ASSUME NEW a \in Nat
    PROVE  ToMinor(a) \in Nat /\ 10 * ToMinor(a) - a \in -5 .. 5
<1>1. DEFINE whole == a \div 10
             rest == a % 10
<1>2. whole \in Nat /\ rest \in 0 .. 9 /\ a = 10 * whole + rest
    OBVIOUS
<1>3. ToMinor(a) = IF rest > 5 \/ (rest = 5 /\ whole % 2 = 1) THEN whole + 1 ELSE whole
    BY DEF ToMinor
<1>4. HIDE DEF whole, rest
<1>5. QED BY <1>2, <1>3

LEMMA HalfUp ==
    ASSUME NEW x \in Nat, NEW u \in Nat \ {0}
    PROVE  /\ (2 * x + u) \div (2 * u) \in Nat
           /\ 2 * (u * ((2 * x + u) \div (2 * u)) - x) \in -u .. u
<1>1. DEFINE y == 2 * x + u
             d == y \div (2 * u)
             r == y % (2 * u)
<1>2. y \in Nat /\ 2 * u \in Nat \ {0}
    OBVIOUS
<1>3. HIDE DEF y
<1>4. d \in Nat /\ r \in 0 .. 2 * u - 1 /\ y = (2 * u) * d + r
    BY <1>2
<1>5. HIDE DEF d, r
<1>6. DEFINE z == u * d
<1>7. z \in Nat /\ (2 * u) * d = 2 * z
    BY <1>4
<1>8. HIDE DEF z
<1>9. 2 * x + u = 2 * z + r /\ 2 * (z - x) \in -u .. u
    BY <1>4, <1>7 DEF y
<1>10. QED BY <1>4, <1>9 DEF d, y, z

LEMMA RoundedRate ==
    ASSUME NEW a \in Nat, NEW t \in Nat, 10 * t - a \in -5 .. 5
    PROVE  /\ ToPesos(t) \in Nat
           /\ 10 * RateUnit * ToPesos(t) - Rate * a
                \in -5 * (Rate + RateUnit) .. 5 * (Rate + RateUnit)
<1>1. DEFINE x == t * Rate
             p == (2 * x + RateUnit) \div (2 * RateUnit)
             z == RateUnit * p
             w == Rate * a
<1>2. Rate \in Nat /\ RateUnit \in Nat \ {0} /\ x \in Nat /\ w \in Nat
    BY Numbers
<1>3. ToPesos(t) = p
    <2>1. 2 * t * Rate = 2 * x
        BY <1>2
    <2>2. QED BY <2>1 DEF ToPesos
<1>4. 10 * x - w \in -5 * Rate .. 5 * Rate
    <2>1. PICK d \in -5 .. 5 : 10 * t = a + d
        <3>1. 10 * t = a + (10 * t - a)
            OBVIOUS
        <3>2. QED BY <3>1
    <2>2. 10 * x = (10 * t) * Rate
        BY <1>2
    <2>3. (10 * t) * Rate = a * Rate + d * Rate
        BY <1>2, <2>1
    <2>4. d * Rate \in -5 * Rate .. 5 * Rate /\ a * Rate = w
        BY <1>2
    <2>5. QED BY <1>2, <2>2, <2>3, <2>4
<1>5. HIDE DEF x, w
<1>6. p \in Nat /\ 2 * (z - x) \in -RateUnit .. RateUnit
    BY <1>2, HalfUp
<1>7. HIDE DEF p
<1>8. z \in Int /\ 10 * RateUnit * p = 10 * z
    BY <1>2, <1>6
<1>9. HIDE DEF z
<1>10. QED
    <2>1. DEFINE e == z - x
                 g == 10 * x - w
    <2>2. e \in Int /\ g \in Int /\ 10 * z - w = 10 * e + g
        BY <1>2, <1>8
    <2>3. 10 * z - w \in -5 * (Rate + RateUnit) .. 5 * (Rate + RateUnit)
        <3>1. 2 * e >= -RateUnit /\ 2 * e <= RateUnit /\ g >= -5 * Rate /\ g <= 5 * Rate
            BY <1>2, <1>4, <1>6
        <3>2. HIDE DEF e, g
        <3>3. QED BY <1>2, <2>2, <3>1
    <2>4. 10 * RateUnit * ToPesos(t) - w \in -5 * (Rate + RateUnit) .. 5 * (Rate + RateUnit)
        BY <1>3, <1>8, <2>3
    <2>5. QED BY <1>3, <1>6, <2>4 DEF w

(* The row made of arguments that pass is of the type of rows and as meant.      *)
AsMeant(row) ==
    LET m == meant[row.intent]
        currency == IF row.given = Missing THEN "USD" ELSE m.currency
    IN  /\ row.type = m.type /\ row.category = m.category
        /\ row.currency = IF currency = "USD" THEN "COP" ELSE currency
        /\ IF currency = "USD"
           THEN 10 * RateUnit * row.minor - Rate * m.amount
                  \in -5 * (Rate + RateUnit) .. 5 * (Rate + RateUnit)
           ELSE 10 * row.minor - m.amount \in -5 .. 5

LEMMA RowAsMeant ==
    ASSUME TypeOK, NEW i \in Intents, NEW raw, Says(meant[i], raw), Issues(raw) = {}, ~Raises(raw)
    PROVE  /\ RowOf(i, raw) \in Row /\ AsMeant(RowOf(i, raw))
           /\ RowOf(i, raw).intent = i /\ RowOf(i, raw).key = HasKey(i)
<1>1. DEFINE m == meant[i]
             row == RowOf(i, raw)
             minor == ToMinor(m.amount)
<1>2. m \in Meanings /\ HasKey(i) \in BOOLEAN
    BY DEF TypeOK, HasKey
<1>3. /\ raw.type = m.type /\ raw.category = m.category /\ raw.amount = m.amount
      /\ raw.currency \in {m.currency, Missing}
    BY <1>2, PassedIsMeant
<1>4. /\ m.type \in Types /\ m.category \in Categories /\ m.amount \in Nat
      /\ m.currency \in Currencies /\ m.currency # Missing
    BY <1>2, MeaningForm, Numbers, CurrenciesAssumption
<1>5. minor \in Nat /\ 10 * minor - m.amount \in -5 .. 5
    BY <1>4, Rounding
<1>6. /\ ToPesos(minor) \in Nat
      /\ 10 * RateUnit * ToPesos(minor) - Rate * m.amount
           \in -5 * (Rate + RateUnit) .. 5 * (Rate + RateUnit)
    <2>1. HIDE DEF m, minor
    <2>2. QED BY <1>4, <1>5, RoundedRate
<1>7. row = [intent |-> i, key |-> HasKey(i), type |-> raw.type, category |-> raw.category,
             minor |-> Converted(raw).minor, currency |-> Converted(raw).currency,
             given |-> raw.currency]
    BY DEF RowOf
<1>8. HIDE DEF row
<1>9. /\ row.intent = i /\ row.key = HasKey(i) /\ row.type = m.type /\ row.category = m.category
      /\ row.minor = Converted(raw).minor /\ row.currency = Converted(raw).currency
      /\ row.given = raw.currency
    BY <1>3, <1>7
<1>10. /\ Currency(raw) = IF row.given = Missing THEN "USD" ELSE m.currency
       /\ Currency(raw) # "USD" => raw.currency = m.currency
    BY <1>3, <1>4, <1>9 DEF Currency
<1>11. HIDE DEF m
<1>12. CASE Currency(raw) = "USD"
    <2>1. Converted(raw).minor = ToPesos(minor) /\ Converted(raw).currency = "COP"
        BY <1>3, <1>12 DEF Converted
    <2>2. row \in Row
        BY <1>2, <1>3, <1>4, <1>6, <1>7, <2>1 DEF Row
    <2>3. AsMeant(row)
        BY <1>6, <1>9, <1>10, <1>12, <2>1 DEF AsMeant, m
    <2>4. QED BY <1>9, <2>2, <2>3 DEF row
<1>13. CASE Currency(raw) # "USD"
    <2>1. Converted(raw).minor = minor /\ Converted(raw).currency = m.currency
        BY <1>3, <1>10, <1>13 DEF Converted
    <2>2. row \in Row
        BY <1>2, <1>3, <1>4, <1>5, <1>7, <2>1 DEF Row
    <2>3. AsMeant(row)
        BY <1>5, <1>9, <1>10, <1>13, <2>1 DEF AsMeant, m
    <2>4. QED BY <1>9, <2>2, <2>3 DEF row
<1>14. QED BY <1>12, <1>13
----------------------------------------------------------------------------
(* What holds of a request under way.                                            *)
RequestFits(r, q) ==
    LET m == meant[r[1]] IN
    /\ q \in Request \cup {Idle}
    /\ q.pc # "idle" => Says(m, q.passed)
    /\ q.pc \in {"validate", "elicit", "revalidate", "convert", "insert"} => Says(m, q.raw)
    /\ q.pc \in {"validate", "elicit"} => q.raw = q.passed
    /\ q.pc = "elicit" => Issues(q.raw) # {}
    /\ q.pc = "revalidate" => \A f \in Fields \ Issues(q.passed) : q.raw[f] = q.passed[f]
    /\ q.pc \in {"convert", "insert"} => Issues(q.raw) = {} /\ ~Raises(q.raw)
    /\ q.pc = "answer" =>
         /\ q.status = "ok" => Recorded(r[1])
         /\ q.status = "clarification_needed" /\ Chat(r[1]) =>
               q.missing # {} /\ \A f \in q.missing : q.passed[f] # m[f]

RowsFit ==
    /\ RecordedAsMeant
    /\ \A n \in DOMAIN rows : rows[n].key = HasKey(rows[n].intent)
    /\ \A i \in Intents : HasKey(i) =>
          \A m, n \in DOMAIN rows : rows[m].intent = i /\ rows[n].intent = i => m = n
    /\ \A i \in acked : Recorded(i)

IntakeInv ==
    /\ TypeOK /\ RowsFit
    /\ \A i \in Intents : Says(meant[i], stated[i])
    /\ \A r \in Requests : RequestFits(r, req[r])

LEMMA RequestForm ==
    ASSUME NEW q \in Request \cup {Idle}
    PROVE  /\ q.pc = "idle" <=> q = Idle
           /\ q.pc \in {"validate", "elicit", "revalidate", "convert", "insert"} =>
                q \in [pc : {"validate", "elicit", "revalidate", "convert", "insert"},
                       passed : Input, raw : Input]
           /\ q.pc = "answer" =>
                /\ q.passed \in Input /\ q.missing \subseteq Fields
                /\ q.status \in {"ok", "clarification_needed", "error", "raised"}
           /\ q.pc \in {"idle", "validate", "elicit", "revalidate", "convert", "insert", "answer"}
<1>1. CASE q = Idle
    <2>1. q.pc = "idle"
        BY <1>1 DEF Idle
    <2>2. QED BY <1>1, <2>1
<1>2. CASE q \in Request
    BY <1>2 DEF Request, Idle
<1>3. QED BY <1>1, <1>2

LEMMA IdleFits == ASSUME NEW r PROVE RequestFits(r, Idle)
<1>1. Idle.pc = "idle"
    BY DEF Idle
<1>2. QED BY <1>1 DEF RequestFits

LEMMA AnswerFits ==
    ASSUME NEW r, NEW passed \in Input, Says(meant[r[1]], passed), NEW missing \in SUBSET Fields,
           NEW status \in {"ok", "clarification_needed", "error", "raised"},
           status = "ok" => Recorded(r[1]),
           status = "clarification_needed" /\ Chat(r[1]) =>
              missing # {} /\ \A f \in missing : passed[f] # meant[r[1]][f]
    PROVE  RequestFits(r, [pc |-> "answer", passed |-> passed, status |-> status,
                           missing |-> missing])
BY DEF RequestFits, Request

(* A request that goes on, and nothing else, keeps the invariant.                *)
LEMMA OnlyGoes ==
    ASSUME IntakeInv, NEW r \in Requests, NEW to, RequestFits(r, to), Goes(r, to),
           UNCHANGED <<door, meant, stated, rows, acked>>, failures' \in 0 .. MaxFailures
    PROVE  IntakeInv'
<1>1. \A q \in Requests : req'[q] = IF q = r THEN to ELSE req[q]
    BY DEF Goes, IntakeInv, TypeOK
<1>2. req' \in [Requests -> Request \cup {Idle}]
    BY DEF Goes, IntakeInv, TypeOK, RequestFits
<1>3. TypeOK'
    BY <1>2 DEF IntakeInv, TypeOK
<1>4. \A q \in Requests : RequestFits(q, req'[q])
    BY <1>1 DEF IntakeInv
<1>5. \A q \in Requests : RequestFits(q, req[q])'
    BY <1>4 DEF RequestFits, Recorded, Chat
<1>6. RowsFit' /\ \A i \in Intents : Says(meant[i], stated[i])'
    BY DEF IntakeInv, RowsFit, RecordedAsMeant, Recorded, HasKey
<1>7. QED BY <1>3, <1>5, <1>6 DEF IntakeInv

(* What is known of a request before it answers.                                 *)
LEMMA UnderWay ==
    ASSUME IntakeInv, NEW r \in Requests,
           req[r].pc \in {"validate", "elicit", "revalidate", "convert", "insert"}
    PROVE  /\ RequestFits(r, req[r]) /\ r[1] \in Intents /\ meant[r[1]] \in Meanings
           /\ req[r] \in [pc : {"validate", "elicit", "revalidate", "convert", "insert"},
                          passed : Input, raw : Input]
           /\ Says(meant[r[1]], req[r].passed) /\ Says(meant[r[1]], req[r].raw)
           /\ failures \in 0 .. MaxFailures
<1>1. RequestFits(r, req[r]) /\ r[1] \in Intents /\ meant[r[1]] \in Meanings
    BY DEF IntakeInv, TypeOK, Requests
<1>2. req[r] \in Request \cup {Idle} /\ failures \in 0 .. MaxFailures
    BY DEF IntakeInv, TypeOK
<1>3. QED BY <1>1, <1>2, RequestForm DEF RequestFits

LEMMA MoveFits ==
    ASSUME IntakeInv, NEW r \in Requests,
           req[r].pc \in {"validate", "revalidate", "convert"},
           NEW pc \in {"elicit", "convert", "insert"},
           pc = "elicit" => req[r].pc = "validate" /\ Issues(req[r].raw) # {},
           pc \in {"convert", "insert"} => Issues(req[r].raw) = {} /\ ~Raises(req[r].raw)
    PROVE  RequestFits(r, [req[r] EXCEPT !.pc = pc])
<1>1. DEFINE q == [req[r] EXCEPT !.pc = pc]
<1>2. q \in Request /\ q.pc = pc /\ q.passed = req[r].passed /\ q.raw = req[r].raw
    BY UnderWay DEF Request
<1>3. RequestFits(r, req[r]) /\ Says(meant[r[1]], q.passed) /\ Says(meant[r[1]], q.raw)
    BY <1>2, UnderWay
<1>4. HIDE DEF q
<1>5. RequestFits(r, q)
    BY <1>2, <1>3 DEF RequestFits
<1>6. QED BY <1>5 DEF q

(* A clarification names what was passed wrong, also after an elicitation.       *)
LEMMA ClarificationFits ==
    ASSUME IntakeInv, NEW r \in Requests, req[r].pc \in {"validate", "elicit", "revalidate"},
           Issues(req[r].raw) # {}
    PROVE  RequestFits(r, [pc |-> "answer", passed |-> req[r].passed,
                           status |-> "clarification_needed", missing |-> Issues(req[r].raw)])
<1>1. DEFINE m == meant[r[1]]
             raw == req[r].raw
             passed == req[r].passed
<1>2. /\ m \in Meanings /\ Says(m, passed) /\ Says(m, raw) /\ passed \in Input
      /\ req[r].pc \in {"validate", "elicit"} => raw = passed
      /\ req[r].pc = "revalidate" => \A f \in Fields \ Issues(passed) : raw[f] = passed[f]
    BY UnderWay DEF RequestFits
<1>3. Issues(raw) \subseteq Fields
    BY DEF Issues, Fields
<1>4. \A f \in Issues(raw) : raw[f] # m[f]
    BY <1>2, IssuesAreWrong
<1>5. \A f \in Issues(passed) : passed[f] # m[f]
    BY <1>2, IssuesAreWrong
<1>6. \A f \in Issues(raw) : passed[f] # m[f]
    BY <1>2, <1>3, <1>4, <1>5
<1>7. Issues(raw) \in SUBSET Fields
    BY <1>3
<1>8. HIDE DEF m, raw, passed
<1>9. RequestFits(r, [pc |-> "answer", passed |-> passed,
                      status |-> "clarification_needed", missing |-> Issues(raw)])
    BY <1>2, <1>6, <1>7, AnswerFits DEF m, raw
<1>10. QED BY <1>9 DEF raw, passed

LEMMA CallStep == ASSUME IntakeInv, NEW r \in Requests, Call(r) PROVE IntakeInv'
<1>1. DEFINE i == r[1]
             q == [pc |-> "validate", passed |-> stated[i], raw |-> stated[i]]
<1>2. i \in Intents /\ Says(meant[i], stated[i]) /\ stated[i] \in Input
    BY DEF IntakeInv, TypeOK, Requests
<1>3. q \in Request
    BY <1>2 DEF Request
<1>4. RequestFits(r, q)
    BY <1>2, <1>3 DEF RequestFits
<1>5. failures' \in 0 .. MaxFailures
    BY DEF Call, IntakeInv, TypeOK
<1>6. QED BY <1>4, <1>5, OnlyGoes DEF Call

LEMMA ValidateStep ==
    ASSUME IntakeInv, NEW r \in Requests, Validate(r) \/ Revalidate(r)
    PROVE  IntakeInv'
<1>1. req[r].pc \in {"validate", "revalidate"} /\ failures' \in 0 .. MaxFailures
    BY DEF Validate, Revalidate, IntakeInv, TypeOK
<1>2. CASE Raises(req[r].raw)
    <2>1. Says(meant[r[1]], req[r].passed) /\ req[r].passed \in Input
        BY <1>1, UnderWay
    <2>2. RequestFits(r, [pc |-> "answer", passed |-> req[r].passed, status |-> "raised",
                          missing |-> {}])
        BY <2>1, AnswerFits
    <2>3. Goes(r, [pc |-> "answer", passed |-> req[r].passed, status |-> "raised", missing |-> {}])
        BY <1>2 DEF Validate, Revalidate, Answers
    <2>4. QED BY <1>1, <2>2, <2>3, OnlyGoes DEF Validate, Revalidate
<1>3. CASE ~Raises(req[r].raw) /\ Issues(req[r].raw) = {}
    <2>1. RequestFits(r, [req[r] EXCEPT !.pc = "convert"])
        BY <1>1, <1>3, MoveFits
    <2>2. Goes(r, [req[r] EXCEPT !.pc = "convert"])
        BY <1>3 DEF Validate, Revalidate, Moves
    <2>3. QED BY <1>1, <2>1, <2>2, OnlyGoes DEF Validate, Revalidate
<1>4. CASE ~Raises(req[r].raw) /\ Issues(req[r].raw) # {} /\ Validate(r) /\ Chat(r[1])
    <2>1. RequestFits(r, [req[r] EXCEPT !.pc = "elicit"])
        BY <1>1, <1>4, MoveFits DEF Validate
    <2>2. Goes(r, [req[r] EXCEPT !.pc = "elicit"])
        BY <1>4 DEF Validate, Moves
    <2>3. QED BY <1>1, <1>4, <2>1, <2>2, OnlyGoes DEF Validate
<1>5. CASE /\ ~Raises(req[r].raw) /\ Issues(req[r].raw) # {}
           /\ Revalidate(r) \/ (Validate(r) /\ ~Chat(r[1]))
    <2>1. RequestFits(r, [pc |-> "answer", passed |-> req[r].passed,
                          status |-> "clarification_needed", missing |-> Issues(req[r].raw)])
        BY <1>1, <1>5, ClarificationFits
    <2>2. Goes(r, [pc |-> "answer", passed |-> req[r].passed,
                   status |-> "clarification_needed", missing |-> Issues(req[r].raw)])
        BY <1>5 DEF Validate, Revalidate, Answers
    <2>3. QED BY <1>1, <2>1, <2>2, OnlyGoes DEF Validate, Revalidate
<1>6. QED BY <1>2, <1>3, <1>4, <1>5

LEMMA ElicitStep ==
    ASSUME IntakeInv, NEW r \in Requests, ElicitAccepted(r) \/ ElicitDeclined(r)
    PROVE  IntakeInv'
<1>1. /\ req[r].pc = "elicit" /\ failures' \in 0 .. MaxFailures
      /\ Issues(req[r].raw) # {} /\ req[r].raw = req[r].passed
    BY UnderWay DEF ElicitAccepted, ElicitDeclined, RequestFits, IntakeInv, TypeOK
<1>2. CASE ElicitDeclined(r)
    <2>1. RequestFits(r, [pc |-> "answer", passed |-> req[r].passed,
                          status |-> "clarification_needed", missing |-> Issues(req[r].raw)])
        BY <1>1, ClarificationFits
    <2>2. QED BY <1>1, <1>2, <2>1, OnlyGoes DEF ElicitDeclined, Answers
<1>3. CASE ElicitAccepted(r)
    <2>1. DEFINE m == meant[r[1]]
                 old == req[r].raw
                 Given(f) == IF f \in AskedFor(old) THEN {m[f]} \cup Slips(f) ELSE {old[f]}
    <2>2. PICK t \in Given("type"), c \in Given("category"),
               a \in Given("amount"), u \in Given("currency") :
             Goes(r, [pc |-> "revalidate", passed |-> req[r].passed,
                      raw |-> [type |-> t, category |-> c, amount |-> a, currency |-> u]])
        BY <1>3 DEF ElicitAccepted
    <2>3. DEFINE raw == [type |-> t, category |-> c, amount |-> a, currency |-> u]
                 q == [pc |-> "revalidate", passed |-> req[r].passed, raw |-> raw]
    <2>4. /\ m \in Meanings /\ Says(m, old) /\ old \in Input
          /\ Says(m, req[r].passed) /\ req[r].passed \in Input
        BY <1>1, UnderWay
    <2>5. raw = [x \in Fields |-> raw[x]] /\ \A x \in Fields : raw[x] \in Given(x)
        <3>1. DOMAIN raw = Fields /\ raw["type"] = t /\ raw["category"] = c /\ raw["amount"] = a /\ raw["currency"] = u
            BY DEF Fields
        <3>2. HIDE DEF raw, Given
        <3>3. \A x \in Fields : raw[x] \in Given(x)
            BY <2>2, <3>1 DEF Fields
        <3>4. raw = [x \in Fields |-> raw[x]]
            BY <3>1 DEF raw
        <3>5. QED BY <3>3, <3>4
    <2>6. m \in Input
        BY <2>4, MeaningForm
    <2>7. HIDE DEF raw, m, old
    <2>8. \A x \in Fields : raw[x] \in {old[x], m[x]} \cup Slips(x)
        BY <2>5
    <2>9. raw \in Input
        BY <2>4, <2>5, <2>6, <2>8, MixedInput
    <2>10. \A x \in Fields \ {"category"} : raw[x] \in {m[x]} \cup Slips(x)
        BY <2>4, <2>8 DEF Says
    <2>11. \A f \in Fields \ Issues(req[r].passed) : raw[f] = req[r].passed[f]
        BY <1>1, <2>5 DEF AskedFor, old
    <2>12. q \in Request
        BY <2>4, <2>9 DEF Request
    <2>13. RequestFits(r, q)
        BY <2>4, <2>9, <2>10, <2>11, <2>12 DEF RequestFits, Says, m
    <2>14. Goes(r, q)
        BY <2>2 DEF raw
    <2>15. QED BY <1>1, <1>3, <2>13, <2>14, OnlyGoes DEF ElicitAccepted
<1>4. QED BY <1>2, <1>3

LEMMA FailStep == ASSUME IntakeInv, NEW r \in Requests, NoRate(r) \/ Lost(r) PROVE IntakeInv'
<1>1. failures' \in 0 .. MaxFailures
    BY Numbers DEF NoRate, Lost, IntakeInv, TypeOK
<1>2. CASE Lost(r)
    BY <1>1, <1>2, IdleFits, OnlyGoes DEF Lost
<1>3. CASE NoRate(r)
    <2>1. /\ Says(meant[r[1]], req[r].passed) /\ req[r].passed \in Input
          /\ {"currency"} \in SUBSET Fields /\ {} \in SUBSET Fields
        BY <1>3, UnderWay DEF NoRate, Fields
    <2>2. CASE Chat(r[1])
        <3>1. RequestFits(r, [pc |-> "answer", passed |-> req[r].passed, status |-> "error",
                              missing |-> {}])
            BY <2>1, AnswerFits
        <3>2. QED BY <1>1, <1>3, <2>2, <3>1, OnlyGoes DEF NoRate, Answers
    <2>3. CASE ~Chat(r[1])
        <3>1. RequestFits(r, [pc |-> "answer", passed |-> req[r].passed,
                              status |-> "clarification_needed", missing |-> {"currency"}])
            BY <2>1, <2>3, AnswerFits
        <3>2. QED BY <1>1, <1>3, <2>3, <3>1, OnlyGoes DEF NoRate, Answers
    <2>4. QED BY <2>2, <2>3
<1>4. QED BY <1>2, <1>3

LEMMA LookUpStep == ASSUME IntakeInv, NEW r \in Requests, LookUp(r) PROVE IntakeInv'
<1>1. /\ req[r].pc = "convert" /\ Issues(req[r].raw) = {} /\ ~Raises(req[r].raw)
      /\ failures' \in 0 .. MaxFailures
      /\ Says(meant[r[1]], req[r].passed) /\ req[r].passed \in Input
    BY UnderWay DEF LookUp, RequestFits, IntakeInv, TypeOK
<1>2. CASE KeyTaken(r[1])
    <2>1. Recorded(r[1])
        BY <1>2 DEF KeyTaken, Recorded
    <2>2. RequestFits(r, [pc |-> "answer", passed |-> req[r].passed, status |-> "ok",
                          missing |-> {}])
        BY <1>1, <2>1, AnswerFits
    <2>3. QED BY <1>1, <1>2, <2>2, OnlyGoes DEF LookUp, Answers
<1>3. CASE ~KeyTaken(r[1])
    <2>1. RequestFits(r, [req[r] EXCEPT !.pc = "insert"])
        BY <1>1, MoveFits
    <2>2. QED BY <1>1, <1>3, <2>1, OnlyGoes DEF LookUp, Moves
<1>4. QED BY <1>2, <1>3

LEMMA InsertStep == ASSUME IntakeInv, NEW r \in Requests, Insert(r) PROVE IntakeInv'
<1>1. DEFINE i == r[1]
             new == RowOf(i, req[r].raw)
             answer(status) == [pc |-> "answer", passed |-> req[r].passed, status |-> status,
                                missing |-> {}]
             N == Len(rows) + 1
<1>2. /\ req[r].pc = "insert" /\ Issues(req[r].raw) = {} /\ ~Raises(req[r].raw)
      /\ failures' \in 0 .. MaxFailures
      /\ Says(meant[i], req[r].passed) /\ req[r].passed \in Input
      /\ Says(meant[i], req[r].raw) /\ i \in Intents
    BY UnderWay DEF Insert, RequestFits, IntakeInv, TypeOK
<1>3. CASE Refused(r)
    <2>1. RequestFits(r, answer("raised"))
        BY <1>2, AnswerFits
    <2>2. QED BY <1>2, <1>3, <2>1, OnlyGoes DEF Insert, Answers
<1>4. CASE ~Refused(r)
    <2>1. new \in Row /\ AsMeant(new) /\ new.intent = i /\ new.key = HasKey(i)
        BY <1>2, RowAsMeant DEF IntakeInv
    <2>2. /\ rows' = Append(rows, new) /\ rows \in Seq(Row)
          /\ Goes(r, answer("ok")) /\ UNCHANGED <<door, meant, stated, acked, failures>>
        BY <1>4 DEF Insert, Answers, IntakeInv, TypeOK
    <2>3. HIDE DEF new
    <2>4. /\ rows' \in Seq(Row) /\ DOMAIN rows' = DOMAIN rows \cup {N}
          /\ \A n \in DOMAIN rows : rows'[n] = rows[n]
          /\ rows'[N] = new
        BY <2>1, <2>2
    <2>5. HIDE DEF N
    <2>6. \A j \in Intents : Recorded(j) => Recorded(j)'
        BY <2>4 DEF Recorded
    <2>7. Recorded(i)'
        BY <2>1, <2>4 DEF Recorded
    <2>8. \A q \in Requests : req'[q] = IF q = r THEN answer("ok") ELSE req[q]
        BY <2>2 DEF Goes, IntakeInv, TypeOK
    <2>9. answer("ok") \in Request
        BY <1>2 DEF Request
    <2>10. TypeOK'
        <3>1. req' \in [Requests -> Request \cup {Idle}]
            BY <2>2, <2>9 DEF Goes, IntakeInv, TypeOK
        <3>2. QED BY <2>2, <2>4, <3>1 DEF IntakeInv, TypeOK
    <2>11. \A q \in Requests : RequestFits(q, req[q])'
        <3>1. ASSUME NEW q \in Requests, q # r PROVE RequestFits(q, req[q])'
            <4>1. q[1] \in Intents /\ RequestFits(q, req[q]) /\ req'[q] = req[q]
                BY <2>8, <3>1 DEF Requests, IntakeInv
            <4>2. QED BY <2>2, <2>6, <4>1 DEF RequestFits, Chat
        <3>2. RequestFits(r, req[r])'
            <4>1. req'[r] = answer("ok")
                BY <2>8
            <4>2. QED BY <1>2, <2>2, <2>7, <2>9, <4>1 DEF RequestFits
        <3>3. QED BY <3>1, <3>2
    <2>12. RecordedAsMeant'
        <3>1. \A n \in DOMAIN rows : AsMeant(rows[n])
            BY DEF IntakeInv, RowsFit, RecordedAsMeant, AsMeant
        <3>2. \A n \in DOMAIN rows' : AsMeant(rows'[n])
            BY <2>1, <2>4, <3>1
        <3>3. QED BY <2>2, <3>2 DEF RecordedAsMeant, AsMeant
    <2>13. (\A n \in DOMAIN rows : rows[n].key = HasKey(rows[n].intent))'
        BY <2>1, <2>2, <2>4 DEF IntakeInv, RowsFit, HasKey
    <2>14. ASSUME NEW j \in Intents, HasKey(j)',
                  NEW m \in DOMAIN rows', NEW n \in DOMAIN rows',
                  rows'[m].intent = j, rows'[n].intent = j
           PROVE  m = n
        <3>1. HasKey(j)
            BY <2>2, <2>14 DEF HasKey
        <3>2. j = i => \A k \in DOMAIN rows : rows[k].intent # j
            BY <1>4, <3>1 DEF Refused, KeyTaken, IntakeInv, RowsFit
        <3>3. CASE j = i
            BY <2>4, <2>14, <3>2, <3>3
        <3>4. CASE j # i
            BY <2>1, <2>4, <2>14, <3>1, <3>4 DEF IntakeInv, RowsFit
        <3>5. QED BY <3>3, <3>4
    <2>15. \A j \in acked' : Recorded(j)'
        BY <2>2, <2>6 DEF IntakeInv, RowsFit, TypeOK
    <2>16. \A j \in Intents : Says(meant[j], stated[j])'
        BY <2>2 DEF IntakeInv
    <2>17. RowsFit'
        BY <2>12, <2>13, <2>14, <2>15 DEF RowsFit
    <2>18. QED BY <2>10, <2>11, <2>16, <2>17 DEF IntakeInv
<1>5. QED BY <1>3, <1>4

LEMMA AnsweredStep == ASSUME IntakeInv, NEW r \in Requests, Answered(r) PROVE IntakeInv'
<1>1. DEFINE i == r[1]
             named == req[r].missing
             corrected == Corrected(i, named)
<1>2. /\ req[r].pc = "answer" /\ i \in Intents /\ meant[i] \in Meanings
      /\ Says(meant[i], stated[i]) /\ RequestFits(r, req[r])
    BY DEF Answered, IntakeInv, TypeOK, Requests
<1>3. /\ corrected = [x \in Fields |-> corrected[x]]
      /\ \A x \in Fields : corrected[x] = IF x \in named THEN meant[i][x] ELSE stated[i][x]
    BY DEF Corrected
<1>4. meant[i] \in Input /\ stated[i] \in Input
    BY <1>2, MeaningForm DEF Says
<1>5. corrected \in Input
    <2>1. \A x \in Fields : corrected[x] \in {stated[i][x], meant[i][x]} \cup Slips(x)
        BY <1>3
    <2>2. HIDE DEF corrected
    <2>3. QED BY <1>3, <1>4, <2>1, MixedInput
<1>6. Says(meant[i], corrected)
    <2>1. \A x \in Fields \ {"category"} : corrected[x] \in {meant[i][x]} \cup Slips(x)
        BY <1>2, <1>3 DEF Says
    <2>2. QED BY <1>5, <2>1 DEF Says
<1>7. /\ Goes(r, Idle) /\ stated' = [stated EXCEPT ![i] = corrected]
      /\ acked' = IF req[r].status = "ok" THEN acked \cup {i} ELSE acked
      /\ UNCHANGED <<door, meant, rows, failures>>
    BY DEF Answered
<1>8. HIDE DEF corrected
<1>9. \A q \in Requests : req'[q] = IF q = r THEN Idle ELSE req[q]
    BY <1>7 DEF Goes, IntakeInv, TypeOK
<1>10. TypeOK'
    <2>1. req' \in [Requests -> Request \cup {Idle}]
        BY <1>7 DEF Goes, IntakeInv, TypeOK
    <2>2. stated' \in [Intents -> Input] /\ acked' \subseteq Intents
        BY <1>2, <1>5, <1>7 DEF IntakeInv, TypeOK
    <2>3. QED BY <1>7, <2>1, <2>2 DEF IntakeInv, TypeOK
<1>11. \A j \in Intents : Says(meant[j], stated[j])'
    BY <1>6, <1>7 DEF IntakeInv, TypeOK, Says
<1>12. \A q \in Requests : RequestFits(q, req'[q])
    BY <1>9, IdleFits DEF IntakeInv
<1>13. \A q \in Requests : RequestFits(q, req[q])'
    BY <1>7, <1>12 DEF RequestFits, Recorded, Chat
<1>14. \A j \in acked' : Recorded(j)'
    BY <1>2, <1>7 DEF RequestFits, IntakeInv, RowsFit, Recorded
<1>15. RowsFit'
    BY <1>7, <1>14 DEF IntakeInv, RowsFit, RecordedAsMeant, HasKey
<1>16. QED BY <1>10, <1>11, <1>13, <1>15 DEF IntakeInv
----------------------------------------------------------------------------
LEMMA IntakeStep == ASSUME IntakeInv, [Next]_vars PROVE IntakeInv'
<1>1. CASE UNCHANGED vars
    <2>1. UNCHANGED <<door, meant, stated, req, rows, acked, failures>>
        BY <1>1 DEF vars
    <2>2. TypeOK'
        BY <2>1 DEF IntakeInv, TypeOK
    <2>3. RowsFit' /\ \A i \in Intents : Says(meant[i], stated[i])'
        BY <2>1 DEF IntakeInv, RowsFit, RecordedAsMeant, Recorded, HasKey
    <2>4. \A r \in Requests : RequestFits(r, req[r])'
        BY <2>1 DEF IntakeInv, RequestFits, Recorded, Chat
    <2>5. QED BY <2>2, <2>3, <2>4 DEF IntakeInv
<1>2. CASE Next
    BY <1>2, CallStep, ValidateStep, ElicitStep, LookUpStep, InsertStep, AnsweredStep, FailStep
       DEF Next, Step
<1>3. QED BY <1>1, <1>2

LEMMA IntakeInit == ASSUME Init PROVE IntakeInv
<1>1. /\ rows = << >> /\ acked = {} /\ failures = 0
      /\ req = [r \in Requests |-> Idle]
      /\ door \in [Intents -> Doors] /\ meant \in [Intents -> Meanings]
      /\ stated \in [Intents -> Input]
      /\ \A i \in Intents : stated[i] \in FirstStated(meant[i])
    BY DEF Init
<1>2. TypeOK
    BY <1>1, Numbers DEF TypeOK
<1>3. RowsFit
    BY <1>1 DEF RowsFit, RecordedAsMeant
<1>4. \A i \in Intents : Says(meant[i], stated[i])
    BY <1>1 DEF FirstStated, Says
<1>5. \A r \in Requests : RequestFits(r, req[r])
    BY <1>1, IdleFits
<1>6. QED BY <1>2, <1>3, <1>4, <1>5 DEF IntakeInv

LEMMA IntakeAlways == Spec => []IntakeInv
BY IntakeInit, IntakeStep, PTL DEF Spec

(* Types, for any intents, requests and bounds.                                  *)
THEOREM TypeCorrect == Spec => []TypeOK
<1>1. IntakeInv => TypeOK
    BY DEF IntakeInv
<1>2. QED BY <1>1, IntakeAlways, PTL

(* For any amounts and any decimal rate: what is recorded, by whatever door and   *)
(* after whatever clarifications, is what was meant, or the dollars that a        *)
(* currency left out stands for, to half a unit in each of two roundings.         *)
THEOREM MeaningKept == Spec => []RecordedAsMeant
<1>1. IntakeInv => RecordedAsMeant
    BY DEF IntakeInv, RowsFit
<1>2. QED BY <1>1, IntakeAlways, PTL

(* However many calls with one idempotency_key are under way, they record one    *)
(* row, and by any door nobody is told of a row that is not there.               *)
THEOREM RecordsOnce == Spec => []RecordedOnce
<1>1. IntakeInv => RecordedOnce
    BY DEF IntakeInv, RowsFit, RecordedOnce
<1>2. QED BY <1>1, IntakeAlways, PTL

(* The tool asks only for what was passed wrong, and never for nothing.          *)
THEOREM AsksForFaults == Spec => []ClarificationsNameFaults
<1>1. IntakeInv => ClarificationsNameFaults
    BY DEF IntakeInv, RequestFits, ClarificationsNameFaults
<1>2. QED BY <1>1, IntakeAlways, PTL
----------------------------------------------------------------------------
(* What the caller of i still states wrong.                                      *)
Faults(i) == {f \in Fields : stated[i][f] # meant[i][f]}

(* The correction of what an answer names touches nothing that was right.        *)
LEMMA CorrectedFaults ==
    ASSUME IntakeInv, NEW r \in Requests, Answered(r)
    PROVE  /\ \A i \in Intents : Faults(i)' \subseteq Faults(i)
           /\ Faults(r[1])' = Faults(r[1]) \ req[r].missing
<1>1. r[1] \in Intents /\ stated \in [Intents -> Input] /\ meant' = meant
    BY DEF Answered, IntakeInv, TypeOK, Requests
<1>2. stated' = [stated EXCEPT ![r[1]] = Corrected(r[1], req[r].missing)]
    BY DEF Answered
<1>3. ASSUME NEW f \in Fields
      PROVE  stated'[r[1]][f] = IF f \in req[r].missing THEN meant[r[1]][f] ELSE stated[r[1]][f]
    BY <1>1, <1>2 DEF Corrected
<1>4. \A i \in Intents \ {r[1]} : stated'[i] = stated[i]
    BY <1>1, <1>2
<1>5. Faults(r[1])' = Faults(r[1]) \ req[r].missing
    BY <1>1, <1>3 DEF Faults
<1>6. \A i \in Intents \ {r[1]} : Faults(i)' = Faults(i)
    BY <1>1, <1>4 DEF Faults
<1>7. QED BY <1>5, <1>6

(* Correcting what is named comes to an end: what a caller states wrong never    *)
(* grows, and every clarification of what it states now makes it smaller, so     *)
(* that there are at most as many rounds as fields, and none for a caller who    *)
(* states what it means.                                                         *)
THEOREM FaultsShrink ==
    Spec => [][/\ \A i \in Intents : Faults(i)' \subseteq Faults(i)
               /\ \A r \in Requests :
                    /\ Answered(r) /\ Chat(r[1])
                    /\ req[r].status = "clarification_needed" /\ req[r].passed = stated[r[1]]
                    => Faults(r[1])' # Faults(r[1])]_vars
<1>1. ASSUME IntakeInv, Next
      PROVE  \A i \in Intents : Faults(i)' \subseteq Faults(i)
    <2>1. CASE stated' = stated
        <3>1. meant' = meant
            BY <1>1 DEF Next, Step, Call, Validate, ElicitAccepted, ElicitDeclined, Revalidate,
                        NoRate, LookUp, Insert, Answered, Lost
        <3>2. QED BY <2>1, <3>1 DEF Faults
    <2>2. CASE stated' # stated
        <3>1. PICK r \in Requests : Answered(r)
            BY <1>1, <2>2 DEF Next, Step, Call, Validate, ElicitAccepted, ElicitDeclined,
                              Revalidate, NoRate, LookUp, Insert, Lost
        <3>2. QED BY <1>1, <3>1, CorrectedFaults
    <2>3. QED BY <2>1, <2>2
<1>2. ASSUME IntakeInv, NEW r \in Requests, Answered(r), Chat(r[1]),
             req[r].status = "clarification_needed", req[r].passed = stated[r[1]]
      PROVE  Faults(r[1])' # Faults(r[1])
    <2>1. Faults(r[1])' = Faults(r[1]) \ req[r].missing
        BY <1>2, CorrectedFaults
    <2>2. /\ req[r].missing # {} /\ req[r].missing \subseteq Fields
          /\ \A f \in req[r].missing : req[r].passed[f] # meant[r[1]][f]
        <3>1. RequestFits(r, req[r]) /\ req[r] \in Request \cup {Idle} /\ req[r].pc = "answer"
            BY <1>2 DEF IntakeInv, TypeOK, Answered
        <3>2. QED BY <1>2, <3>1, RequestForm DEF RequestFits
    <2>3. PICK f \in req[r].missing : f \in Faults(r[1])
        BY <1>2, <2>2 DEF Faults
    <2>4. QED BY <2>1, <2>3
<1>3. IntakeInv /\ [Next]_vars =>
        [/\ \A i \in Intents : Faults(i)' \subseteq Faults(i)
         /\ \A r \in Requests :
               /\ Answered(r) /\ Chat(r[1])
               /\ req[r].status = "clarification_needed" /\ req[r].passed = stated[r[1]]
               => Faults(r[1])' # Faults(r[1])]_vars
    BY <1>1, <1>2
<1>4. QED BY <1>3, IntakeAlways, PTL DEF Spec
=============================================================================
