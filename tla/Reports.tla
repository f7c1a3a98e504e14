------------------------------ MODULE Reports ------------------------------
(***************************************************************************)
(* What the dashboard, /reports, /projections and the tools that only read *)
(* make of the ledger and of one projection: core/reporting.py, the series *)
(* of web/charts.py and the pages' own arithmetic in web/routes.py.        *)
(*                                                                         *)
(* A page of reports and the digest read by several statements, and other  *)
(* sessions commit between them.  Readers change nothing, so they are      *)
(* taken one at a time: a page, the digest or a projection.                *)
(*                                                                         *)
(* Dates are months.  A month is numbered 12 * year + month - 1, so that   *)
(* the calendar arithmetic of charts.add_months can be told from a sum.    *)
(***************************************************************************)
EXTENDS Projections

CONSTANTS
    Today,         \* the month it is
    HistoryShown,  \* the parameter max_history_months
    RowLimit       \* the parameter limit of list_transactions

ASSUME ReportsAssumption ==
    Today \in Nat /\ HistoryShown \in Nat \ {0} /\ RowLimit \in Nat \ {0}

VARIABLE page  \* what /reports or get_digest has read, since changes = page.at

(* Mutant: the year is not carried.                                              *)
AddInYear(d, n) == <<d[1], ((d[2] - 1 + n) % 12) + 1>>

(* charts.add_months, of a date <<year, month>>; n may be negative.              *)
AddMonths(d, n) ==
    LET index == d[2] - 1 + n IN <<d[1] + index \div 12, (index % 12) + 1>>

Date(m) == <<m \div 12, (m % 12) + 1>>
MonthsAfter(m, n) == LET d == AddMonths(Date(m), n) IN 12 * d[1] + d[2] - 1
----------------------------------------------------------------------------
(* reporting.py.  A total is a function of the keys there are rows for.          *)
Dated(from, to) == {i \in DOMAIN ledger : from <= ledger[i].month /\ ledger[i].month <= to}
ByCategory == [i \in DOMAIN ledger |-> <<ledger[i].category, ledger[i].currency>>]
ByMonthKey == [i \in DOMAIN ledger |-> <<ledger[i].month, ledger[i].currency>>]
Totals(S, key, amount) ==
    [k \in {key[i] : i \in S} |->
        SumFunctionOnSet(amount, {i \in S : key[i] = k})]

(* Mutant: rows are summed as they are stored, income and expense alike.         *)
Unsigned == [i \in DOMAIN ledger |-> ledger[i].amount]

SignedAmount ==
    [i \in DOMAIN ledger |->
        IF ledger[i].type = "income" THEN ledger[i].amount ELSE -ledger[i].amount]

TotalsByCategory(S) == Totals(S, ByCategory, AmountOf)
TotalsByMonth(S) == Totals(S, ByMonthKey, AmountOf)
NetTotalsByMonth(S) == Totals(S, ByMonthKey, SignedAmount)

(* month_over_month_delta; a month or a currency that is missing counts zero.    *)
MonthOverMonthDelta(net, previous) ==
    LET latest == Max({k[1] : k \in DOMAIN net})
    IN  [c \in {k[2] : k \in {j \in DOMAIN net : j[1] \in {latest, previous}}} |->
            At(net, <<latest, c>>) - At(net, <<previous, c>>)]

(* The tool get_totals, of the type that is asked for or of both.                *)
GetTotals(types, groupBy, from, to) ==
    LET rows == Dated(from, to) \cap UNION {AllRows(type) : type \in types}
    IN  IF groupBy = "month" THEN TotalsByMonth(rows) ELSE TotalsByCategory(rows)

(* What list_transactions may return of the rows S: the latest, at most RowLimit; *)
(* rows of one month in any order.                                               *)
Listings(S) ==
    {T \in SUBSET S : /\ Cardinality(T) = Min({RowLimit, Cardinality(S)})
                      /\ \A i \in T, j \in S \ T : ledger[i].month >= ledger[j].month}
----------------------------------------------------------------------------
(* The dashboard.  Its breakdowns are of this whole month.                       *)
ThisMonth(type) == AllRows(type) \cap Dated(Today, Today)
ExpenseTotals == TotalsByCategory(ThisMonth("expense"))
CogsRows == {i \in ThisMonth("expense") : ledger[i].category = "cogs"}

(* _infra_breakdown_rows: here the sum of the vendors' rows of a currency.       *)
InfraTotals(T) == Totals(T, [i \in T |-> ledger[i].currency], AmountOf)

(* charts.build_net_series: months with activity, then the forecast's, which     *)
(* begins after this month.                                                      *)
NetSeries(history, forecast) ==
    LET months == Trailing(Sorted({k[1] : k \in DOMAIN history}), HistoryShown)
        value(m) == SumFunctionOnSet(history, {k \in DOMAIN history : k[1] = m})
    IN  [n \in 1 .. Len(months) |->
            [month |-> months[n], value |-> value(months[n]), isForecast |-> FALSE]]
        \o [n \in 1 .. Len(forecast) |->
            [month |-> MonthsAfter(Today, n), value |-> forecast[n], isForecast |-> TRUE]]

Series == NetSeries(NetTotalsByMonth(DOMAIN ledger), Forecast)

(* current_month_net, as the sequence of the values it may have: one or none.    *)
Hero ==
    LET past == {n \in DOMAIN Series : ~Series[n].isForecast}
    IN  IF past = {} THEN << >> ELSE <<Series[Max(past)].value>>

Below(runway, months) == runway[1] < months * runway[2]

(* _runway_segments: of each segment whether it is filled, and in which tone.    *)
RunwaySegments(runway) ==
    IF runway = << >> THEN [k \in 1 .. 12 |-> "filled"]
    ELSE [k \in 1 .. 12 |->
            IF k > Rounded(runway) THEN "empty"
            ELSE IF Below(runway, 3) THEN "critical"
            ELSE IF Below(runway, 6) THEN "warning" ELSE "filled"]

(* Mutant: the boundary of the critical half is critical.                        *)
FindingAtHalf(runway) ==
    IF runway = << >> \/ ~Below(runway, 6) THEN "filled"
    ELSE IF 2 * runway[1] <= 6 * runway[2] THEN "critical" ELSE "warning"

(* runway_threshold_finding: its severity, "filled" if it does not fire.         *)
RunwayFinding(runway) ==
    IF runway = << >> \/ ~Below(runway, 6) THEN "filled"
    ELSE IF 2 * runway[1] < 6 * runway[2] THEN "critical" ELSE "warning"
----------------------------------------------------------------------------
(* /reports: the months asked for, by default the last six; three statements.     *)
MonthsAsked(from, to) == IF from > to THEN <<MonthsAfter(Today, -5), Today>> ELSE <<from, to>>
Reported(window) == Dated(window[1], window[2])

NoPage == [step |-> "none"]

OpenReports(from, to) ==
    /\ page.step = "none"
    /\ LET window == MonthsAsked(from, to)
       IN  page' = [step |-> "net", at |-> changes, window |-> window,
                    net |-> NetTotalsByMonth(Reported(window))]

ReadExpenses ==
    /\ page.step = "net"
    /\ page' = [step |-> "expense", at |-> page.at, window |-> page.window, net |-> page.net,
                expense |-> TotalsByCategory(Reported(page.window) \cap AllRows("expense"))]

ReadIncomes ==
    /\ page.step = "expense"
    /\ page' = [step |-> "reports", at |-> page.at, window |-> page.window, net |-> page.net,
                expense |-> page.expense,
                income |-> TotalsByCategory(Reported(page.window) \cap AllRows("income"))]

(* What get_digest lists of all time, in two statements.                         *)
OpenDigest ==
    /\ page.step = "none"
    /\ page' = [step |-> "by_month", at |-> changes, byMonth |-> TotalsByMonth(DOMAIN ledger)]

ReadCategories ==
    /\ page.step = "by_month"
    /\ page' = [step |-> "digest", at |-> page.at, byMonth |-> page.byMonth,
                byCategory |-> TotalsByCategory(DOMAIN ledger)]

ClosePage == page.step \in {"reports", "digest"} /\ page' = NoPage

ReadPage == \/ \E from, to \in Months : OpenReports(from, to)
            \/ ReadExpenses \/ ReadIncomes \/ OpenDigest \/ ReadCategories \/ ClosePage

MomDelta(net) ==
    IF net = << >> THEN << >>
    ELSE MonthOverMonthDelta(net, MonthsAfter(Max({k[1] : k \in DOMAIN net}), -1))
----------------------------------------------------------------------------
rvars == <<ledger, spent, changes, run, touched, edited, counted, page>>

ReportsInit == Init /\ page = NoPage
ReportsNext == \/ Change /\ UNCHANGED page
               \/ page = NoPage /\ Read /\ UNCHANGED page
               \/ run = Idle /\ ReadPage /\ UNCHANGED vars
ReportsSpec == ReportsInit /\ [][ReportsNext]_rvars
----------------------------------------------------------------------------
Net(S) == Sum(S \cap AllRows("income")) - Sum(S \cap AllRows("expense"))
In(S, m, c) == {i \in S : ledger[i].month = m /\ ledger[i].currency = c}
Added(totals, c) == SumFunctionOnSet(totals, {k \in DOMAIN totals : k[2] = c})

(* The numbers of one page of reports agree, unless something is committed between *)
(* the page's statements: in each currency the months' net totals add up to the  *)
(* income less the expense of the categories, and the change shown is that since *)
(* the calendar month before the last one, across a new year and when one of the *)
(* two months is missing (routes.py:483-498, reporting.py:161-173).  So do the   *)
(* two groupings of the digest (server.py:320-321), with the same exception, and *)
(* of get_totals for the same rows (server.py:236-262).                          *)
ReportsAddUp ==
    /\ page.step = "reports" /\ page.at = changes => \A c \in Currencies :
          LET rows == Reported(page.window)
              latest == Max(MonthsOf(rows))
          IN  /\ Added(page.net, c) = Added(page.income, c) - Added(page.expense, c)
              /\ rows # {} => At(MomDelta(page.net), c)
                                = Net(In(rows, latest, c)) - Net(In(rows, latest - 1, c))
    /\ page.step = "digest" /\ page.at = changes => \A c \in Currencies :
          Added(page.byMonth, c) = Added(page.byCategory, c)
    /\ run = Idle /\ page = NoPage =>
          \A from, to \in Months, c \in Currencies, types \in SUBSET {"income", "expense"} :
             Added(GetTotals(types, "month", from, to), c)
               = Added(GetTotals(types, "category", from, to), c)

(* The dashboard tells one story of this month, if nothing was committed while   *)
(* it was read: the hero's net is this month's income less the breakdown below    *)
(* it, as long as no later month has rows and this one has (routes.py:52-56); the *)
(* breakdown of the infrastructure sums up to the category's total unless there   *)
(* are more rows than are listed; no month has two bars, and none is out of order *)
(* unless a row is dated in the future.                                          *)
DashboardTellsOneStory ==
    run.step = "done" =>
        /\ touched = {} /\ DOMAIN ledger # {} /\ Max(MonthsOf(DOMAIN ledger)) = Today =>
             Hero = <<Sum(ThisMonth("income")) - SumFunction(ExpenseTotals)>>
        /\ \A T \in Listings(CogsRows), c \in Currencies :
             /\ At(InfraTotals(T), c) <= At(ExpenseTotals, <<"cogs", c>>)
             /\ Cardinality(CogsRows) <= RowLimit =>
                    At(InfraTotals(T), c) = At(ExpenseTotals, <<"cogs", c>>)
        /\ LET bars == Series
           IN  (\A i \in DOMAIN ledger : ledger[i].month <= Today) =>
                  \A m, n \in DOMAIN bars : m < n => bars[m].month < bars[n].month

(* The meter of the dashboard warns exactly as the alert does, at the boundaries *)
(* too (routes.py:598-606, alerts.py:104-118): what is filled has the tone of the *)
(* finding, and nothing is filled only where the finding is critical.            *)
MeterMatchesAlert ==
    run.step = "done" => \A cash \in Balances :
        LET runway == Runway(cash)
            segments == RunwaySegments(runway)
            shown == {segments[k] : k \in 1 .. 12} \ {"empty"}
        IN  \/ shown = {RunwayFinding(runway)}
            \/ shown = {} /\ RunwayFinding(runway) = "critical"
=============================================================================
