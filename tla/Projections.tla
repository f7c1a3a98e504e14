----------------------------- MODULE Projections -----------------------------
(***************************************************************************)
(* core/projections.compute_projections over core/reporting: five queries, *)
(* each a statement of its own at READ COMMITTED, and then arithmetic on   *)
(* what they returned, while other sessions commit transactions.           *)
(*                                                                         *)
(* Arithmetic is exact: a quotient is a pair <<numerator, denominator>>.   *)
(* The code's floats can differ from it by less than any of these          *)
(* properties tells apart.                                                 *)
(***************************************************************************)
EXTENDS Integers, Sequences, FiniteSets, FiniteSetsExt, SequencesExt

CONSTANTS
    Ids,           \* transactions that may ever be recorded
    Kinds,         \* <<type, category>> pairs the door admits
    Currencies,
    Months,        \* numbered in calendar order
    Amounts,
    TrendWindows,  \* values of the parameter trend_window
    MonthsAhead,   \* the parameter months_ahead
    Balances,      \* values of the parameter cash_balance_minor; an overdraft is negative
    MaxChanges     \* bound on the changes of the ledger

ASSUME NumbersAssumption ==
    /\ Months \subseteq Nat /\ Amounts \subseteq Nat \ {0} /\ TrendWindows \subseteq Nat \ {0}
    /\ MonthsAhead \in Nat \ {0} /\ Balances \subseteq Int /\ MaxChanges \in Nat
ASSUME KindsAssumption == \A kind \in Kinds : kind[1] \in {"income", "expense"}

VARIABLES
    ledger,    \* the live rows: id -> row
    spent,     \* ids of rows that were deleted
    changes,   \* changes of the ledger so far
    run,       \* what one call of compute_projections has read
    touched,   \* ids recorded, edited or deleted since that call began
    edited,    \* of these, the ones edited
    counted    \* <<id, query>>: rows that the call's base and trend are made of

vars == <<ledger, spent, changes, run, touched, edited, counted>>

Row == {[type |-> kind[1], category |-> kind[2], currency |-> c, month |-> m,
         recurring |-> r, amount |-> a] :
            kind \in Kinds, c \in Currencies, m \in Months, r \in BOOLEAN, a \in Amounts}

Idle == [step |-> "idle"]

Init == /\ ledger = <<>> /\ spent = {} /\ changes = 0
        /\ run = Idle /\ touched = {} /\ edited = {} /\ counted = {}
----------------------------------------------------------------------------
(* Other sessions: what they commit is one row recorded, edited or deleted.      *)
Changed(i, isEdit) ==
    /\ changes < MaxChanges /\ changes' = changes + 1
    /\ touched' = IF run = Idle THEN {} ELSE touched \cup {i}
    /\ edited' = IF run = Idle THEN {} ELSE IF isEdit THEN edited \cup {i} ELSE edited
    /\ UNCHANGED <<run, counted>>

Record(i, row) ==
    /\ i \notin DOMAIN ledger \cup spent
    /\ ledger' = [j \in DOMAIN ledger \cup {i} |-> IF j = i THEN row ELSE ledger[j]]
    /\ UNCHANGED spent
    /\ Changed(i, FALSE)

Edit(i, row) ==
    /\ i \in DOMAIN ledger /\ ledger[i] # row
    /\ ledger' = [ledger EXCEPT ![i] = row]
    /\ UNCHANGED spent
    /\ Changed(i, TRUE)

(* Mutant: the queries forget deleted_at.                                        *)
DeleteUnseen(i) ==
    /\ i \in DOMAIN ledger \ spent
    /\ spent' = spent \cup {i}
    /\ UNCHANGED ledger
    /\ Changed(i, FALSE)

Delete(i) ==
    /\ i \in DOMAIN ledger
    /\ ledger' = [j \in DOMAIN ledger \ {i} |-> ledger[j]]
    /\ spent' = spent \cup {i}
    /\ Changed(i, FALSE)
----------------------------------------------------------------------------
(* reporting.py.  Every query sees live rows only.                               *)
Rows(type, recurring) ==
    {i \in DOMAIN ledger : ledger[i].type = type /\ ledger[i].recurring = recurring}
AllRows(type) == Rows(type, TRUE) \cup Rows(type, FALSE)
AmountOf == [i \in DOMAIN ledger |-> ledger[i].amount]
Sum(S) == SumFunctionOnSet(AmountOf, S)
MonthsOf(S) == {ledger[i].month : i \in S}
Stream(i) == <<ledger[i].type, ledger[i].category, ledger[i].currency>>

(* Mutant: totals_by_category(is_recurring = True), of all months.               *)
EveryMonth(type) == Rows(type, TRUE)

(* latest_recurring_totals_by_category: of each category and currency the rows   *)
(* of its most recent month with recurring activity.                             *)
Latest(type) ==
    {i \in Rows(type, TRUE) :
        ledger[i].month = Max(MonthsOf({j \in Rows(type, TRUE) : Stream(j) = Stream(i)}))}

(* totals_by_month, made a dict by month: of the totals of a month in several    *)
(* currencies, which come in no order, the last one stays.                       *)
ByMonth(S) ==
    {[m \in MonthsOf(S) |-> Sum({i \in S : ledger[i].month = m /\ ledger[i].currency = last[m]})] :
        last \in {c \in [MonthsOf(S) -> Currencies] :
                     \A m \in MonthsOf(S) :
                        \E i \in S : ledger[i].month = m /\ ledger[i].currency = c[m]}}
----------------------------------------------------------------------------
(* compute_projections reads, one statement after the other.                     *)
Reads(step, fields) ==
    /\ run' = [f \in DOMAIN run \cup DOMAIN fields |->
                 IF f = "step" THEN step ELSE IF f \in DOMAIN fields THEN fields[f] ELSE run[f]]
    /\ UNCHANGED <<ledger, spent, changes, touched, edited>>
Counts(S, query) == counted' = counted \cup (S \X {query})

ReadIncomeRate(w) ==
    /\ run.step = "idle"
    /\ Reads("income_rate", [window |-> w, incomeRate |-> Sum(Latest("income"))])
    /\ Counts(Latest("income"), "income_rate")

ReadExpenseRate ==
    /\ run.step = "income_rate"
    /\ Reads("expense_rate", [expenseRate |-> Sum(Latest("expense"))])
    /\ Counts(Latest("expense"), "expense_rate")

(* Every income, recurring or not: for the growth rate alone.                    *)
ReadIncome ==
    /\ run.step = "expense_rate"
    /\ \E d \in ByMonth(AllRows("income")) : Reads("income", [income |-> d])
    /\ UNCHANGED counted

(* Mutant: the trend is of all transactions.                                     *)
AnyRows(type) == AllRows(type)

TrendRows(type) == Rows(type, FALSE)

ReadExtraIncome ==
    /\ run.step = "income"
    /\ \E d \in ByMonth(TrendRows("income")) : Reads("extra_income", [extraIncome |-> d])
    /\ Counts(TrendRows("income"), "extra_income")

ReadExtraExpense ==
    /\ run.step = "extra_income"
    /\ \E d \in ByMonth(TrendRows("expense")) : Reads("done", [extraExpense |-> d])
    /\ Counts(TrendRows("expense"), "extra_expense")

Return ==
    /\ run.step = "done"
    /\ run' = Idle /\ touched' = {} /\ edited' = {} /\ counted' = {}
    /\ UNCHANGED <<ledger, spent, changes>>
----------------------------------------------------------------------------
(* The arithmetic, on what a finished call has read.                             *)
SumSeq(s) == SumFunction(s)
Sorted(S) ==
    CHOOSE s \in [1 .. Cardinality(S) -> S] : \A i, j \in DOMAIN s : i < j => s[i] < s[j]
At(dict, m) == IF m \in DOMAIN dict THEN dict[m] ELSE 0

(* Mutant: the window is one month short.                                        *)
TrailingLess(s, w) == SubSeq(s, Max({1, Len(s) - w + 2}), Len(s))

Trailing(s, w) == SubSeq(s, Max({1, Len(s) - w + 1}), Len(s))

MovingAverage(s) == IF s = <<>> THEN <<0, 1>> ELSE <<SumSeq(s), Len(s)>>

(* Least squares over x = 1 .. n; deviations from the mean are scaled by n.      *)
LinearTrendSlope(s) ==
    LET n == Len(s)
        dx == [k \in 1 .. n |-> 2 * k - n - 1]
        dy == [k \in 1 .. n |-> n * s[k] - SumSeq(s)]
    IN  IF n < 2 THEN <<0, 1>>
        ELSE <<2 * SumSeq([k \in 1 .. n |-> dx[k] * dy[k]]),
               n * SumSeq([k \in 1 .. n |-> dx[k] * dx[k]])>>

(* Python's round: a half goes to the even neighbour.                            *)
Rounded(q) ==
    LET down == q[1] \div q[2]
        half == 2 * (q[1] % q[2]) - q[2]
    IN  IF half < 0 \/ (half = 0 /\ down % 2 = 0) THEN down ELSE down + 1

Plus(p, q) == <<p[1] * q[2] + q[1] * p[2], p[2] * q[2]>>

ExtraMonths == Sorted(DOMAIN run.extraIncome \cup DOMAIN run.extraExpense)
HistoricalNet == [k \in 1 .. Len(ExtraMonths) |->
                    At(run.extraIncome, ExtraMonths[k]) - At(run.extraExpense, ExtraMonths[k])]

(* forecast_monthly_net                                                          *)
Forecast ==
    LET window == Trailing(HistoricalNet, run.window)
        base == MovingAverage(window)
        slope == LinearTrendSlope(window)
        recurring == run.incomeRate - run.expenseRate
    IN  [k \in 1 .. MonthsAhead |->
            Rounded(Plus(<<recurring, 1>>, Plus(base, <<k * slope[1], slope[2]>>)))]

Burn == -SumSeq(Forecast)

(* runway_months of the average burn: <<>> when no cash is burned.               *)
Runway(cash) == IF Burn <= 0 THEN <<>> ELSE <<cash * MonthsAhead, Burn>>

(* growth_rate of the last two months with any income.                           *)
Growth ==
    LET months == Sorted(DOMAIN run.income)
        current == run.income[months[Len(months)]]
        previous == run.income[months[Len(months) - 1]]
    IN  IF Len(months) < 2 \/ previous = 0 THEN <<>> ELSE <<current - previous, previous>>
----------------------------------------------------------------------------
Change == \E i \in Ids : (\E row \in Row : Record(i, row) \/ Edit(i, row)) \/ Delete(i)
Read == \/ \E w \in TrendWindows : ReadIncomeRate(w)
        \/ ReadExpenseRate \/ ReadIncome \/ ReadExtraIncome \/ ReadExtraExpense \/ Return
Next == Change \/ Read
Spec == Init /\ [][Next]_vars
----------------------------------------------------------------------------
TypeOK ==
    /\ DOMAIN ledger \subseteq Ids /\ spent \subseteq Ids \ DOMAIN ledger
    /\ \A i \in DOMAIN ledger : ledger[i] \in Row
    /\ changes \in 0 .. MaxChanges
    /\ run.step \in {"idle", "income_rate", "expense_rate", "income", "extra_income", "done"}
    /\ edited \subseteq touched /\ touched \subseteq Ids
    /\ run = Idle => touched = {} /\ counted = {}

(* What one row means, without the order of the queries or the sorting of months: *)
(* a recurring row counts while its category has no later one, any other row in   *)
(* its month, if fewer than `trend_window` later months have any; the trend is    *)
(* the weighted mean of the slopes between two months of these.                   *)
Signed ==
    [i \in DOMAIN ledger |->
        IF ledger[i].type = "income" THEN ledger[i].amount ELSE -ledger[i].amount]
Others == Rows("income", FALSE) \cup Rows("expense", FALSE)
Current(i) == ledger[i].recurring /\ \A j \in DOMAIN ledger :
                 ledger[j].recurring /\ Stream(j) = Stream(i) => ledger[j].month <= ledger[i].month
Window(w) == {m \in MonthsOf(Others) : Cardinality({n \in MonthsOf(Others) : n > m}) < w}
Expected(k, w) ==
    LET net == [m \in Window(w) |->
                  SumFunctionOnSet(Signed, {i \in Others : ledger[i].month = m})]
        rank(m) == Cardinality({n \in Window(w) : n < m})
        pairs == {p \in Window(w) \X Window(w) : p[1] < p[2]}
        gap(p) == rank(p[2]) - rank(p[1])
        slope == <<SumFunction([p \in pairs |-> gap(p) * (net[p[2]] - net[p[1]])]),
                   SumFunction([p \in pairs |-> gap(p) * gap(p)])>>
        mean == <<SumFunction(net), Cardinality(Window(w))>>
        rate == <<SumFunctionOnSet(Signed, {i \in DOMAIN ledger : Current(i)}), 1>>
    IN  IF Window(w) = {} THEN rate
        ELSE IF pairs = {} THEN Plus(rate, mean)
        ELSE Plus(rate, Plus(mean, <<k * slope[1], slope[2]>>))

ExpectedGrowth ==
    LET earned(m) == Sum({i \in AllRows("income") : ledger[i].month = m})
        months == MonthsOf(AllRows("income"))
        later(m) == Cardinality({n \in months : n > m})
    IN  {<<earned(m) - earned(n), earned(n)>> :
            m \in {k \in months : later(k) = 0}, n \in {k \in months : later(k) = 1}}

OneCurrency == \A i, j \in DOMAIN ledger : ledger[i].currency = ledger[j].currency

(* A projection of a ledger of one currency that nobody changed meanwhile is what *)
(* its rows mean: merged dictionaries, slices and sums over sorted months lose    *)
(* and repeat nothing (projections.py:130-190).                                   *)
QuietProjectionIsExact ==
    run.step = "done" /\ touched = {} /\ OneCurrency =>
        /\ \A k \in 1 .. MonthsAhead : Forecast[k] = Rounded(Expected(k, run.window))
        /\ Growth = IF ExpectedGrowth = {} THEN <<>> ELSE CHOOSE g \in ExpectedGrowth : TRUE

(* The base and the trend never both count a transaction (projections.py:150-153), *)
(* unless it was edited between the queries; and one that nobody touched and that  *)
(* does not recur is counted, whatever else was committed between them.            *)
CountedOnce ==
    run.step = "done" =>
        /\ \A c, d \in counted : c[1] = d[1] /\ c[1] \notin edited => c = d
        /\ \A i \in Others \ touched : \E c \in counted : c[1] = i

(* ADR-0008: when a new month's payment of a category lands, it replaces the       *)
(* category's rate in the forecast's base and is not added to it.                  *)
Rate(type) == Sum(Latest(type))
RenewalReplacesRate ==
    [][\A type \in {"income", "expense"}, i \in DOMAIN ledger' \ DOMAIN ledger :
          LET row == ledger'[i]
              stream == {j \in Rows(type, TRUE) :
                            Stream(j) = <<type, row.category, row.currency>>}
          IN  row.type = type /\ row.recurring /\ (\A j \in stream : ledger[j].month < row.month)
              => Rate(type)' = Rate(type) - Sum(Latest(type) \cap stream) + row.amount]_vars
=============================================================================
