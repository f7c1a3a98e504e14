---------------------------- MODULE ReportsProofs ----------------------------
(***************************************************************************)
(* Theorems about Reports, for any rows, months, currencies and parameters *)
(* of the pages: the numbers that different queries and charts make of one *)
(* ledger agree.  Pages change nothing but what they have read themselves, *)
(* so the invariant of ProjectionsProofs holds beside them; to it is added *)
(* that what a page has read is what the ledger says, unless something was *)
(* committed since its first statement.                                    *)
(***************************************************************************)
EXTENDS Reports, ProjectionsProofs

(* What Totals is at a key, and what some of its totals add up to.               *)
LEMMA TotalAt ==
    ASSUME NEW S, NEW key, NEW amount, NEW k
    PROVE  At(Totals(S, key, amount), k) = SumFunctionOnSet(amount, {i \in S : key[i] = k})
<1>1. CASE k \in {key[i] : i \in S}
    BY <1>1 DEF At, Totals
<1>2. CASE k \notin {key[i] : i \in S}
    <2>1. {i \in S : key[i] = k} = {}
        BY <1>2
    <2>2. At(Totals(S, key, amount), k) = 0
        BY <1>2 DEF At, Totals
    <2>3. QED BY <2>1, <2>2, SumEmpty
<1>3. QED BY <1>1, <1>2

LEMMA TotalsOf ==
    ASSUME NEW S, IsFiniteSet(S), NEW key, NEW amount, \A i \in S : amount[i] \in Int,
           NEW K \in SUBSET DOMAIN Totals(S, key, amount)
    PROVE  SumFunctionOnSet(Totals(S, key, amount), K) = SumFunctionOnSet(amount, {i \in S : key[i] \in K})
<1> DEFINE T == Totals(S, key, amount)
           R == {i \in S : key[i] \in K}
           U == [k \in K |-> SumFunctionOnSet(amount, {i \in R : key[i] = k})]
<1>1. DOMAIN T = {key[i] : i \in S} /\ IsFiniteSet(DOMAIN T)
    <2>1. DOMAIN T = {key[i] : i \in S}
        BY DEF Totals
    <2>2. QED BY <2>1, FiniteImage
<1>2. IsFiniteSet(K) /\ IsFiniteSet(R)
    BY <1>1, FS_Subset
<1>3. SumFunctionOnSet(U, K) = SumFunctionOnSet(amount, R)
    BY <1>2, SumGroups
<1>4. ASSUME NEW k \in K PROVE U[k] = T[k] /\ U[k] \in Int
    <2>1. {i \in R : key[i] = k} = {i \in S : key[i] = k} /\ k \in {key[i] : i \in S}
        BY <1>1
    <2>2. T[k] = SumFunctionOnSet(amount, {i \in S : key[i] = k})
        BY <2>1 DEF Totals
    <2> DEFINE G == {i \in R : key[i] = k}
    <2>3. IsFiniteSet(G) /\ \A i \in G : amount[i] \in Int
        BY <1>2, FS_Subset
    <2>4. SumFunctionOnSet(amount, G) \in Int
        <3> HIDE DEF G
        <3>1. QED BY <2>3, SumType
    <2>5. U[k] = SumFunctionOnSet(amount, G)
        OBVIOUS
    <2>6. QED BY <2>1, <2>2, <2>4, <2>5
<1> HIDE DEF U, T, R
<1>5. SumFunctionOnSet(U, K) = SumFunctionOnSet(T, K)
    BY <1>2, <1>4, SumCongruent
<1>6. QED BY <1>3, <1>5 DEF T, R

(* Rows: their types, and that what is summed with its sign is the net.           *)
LEMMA SignedIsNet ==
    ASSUME Inv, NEW S \in SUBSET DOMAIN ledger
    PROVE  SumFunctionOnSet(SignedAmount, S) = Net(S) /\ Net(S) \in Int
<1> DEFINE I == S \cap AllRows("income")
           E == S \cap AllRows("expense")
<1>1. /\ \A i : i \in S <=> i \in I \/ i \in E
      /\ \A i \in I : ledger[i].type = "income"
      /\ \A i \in E : ledger[i].type = "expense"
    BY RowsByType DEF Inv
<1>2. SignedAmount = Signed /\ Net(S) = Sum(I) - Sum(E)
    BY DEF SignedAmount, Signed, Net
<1> HIDE DEF I, E
<1>3. SumFunctionOnSet(Signed, S) = Sum(I) - Sum(E) /\ Sum(I) \in Nat /\ Sum(E) \in Nat
    BY <1>1, SignedSum
<1>4. QED BY <1>2, <1>3

LEMMA RowSums ==
    ASSUME Inv, NEW S \in SUBSET DOMAIN ledger
    PROVE  /\ IsFiniteSet(S)
           /\ \A i \in S : /\ AmountOf[i] = ledger[i].amount /\ AmountOf[i] \in Nat /\ SignedAmount[i] \in Int
                           /\ ByCategory[i] = <<ledger[i].category, ledger[i].currency>>
                           /\ ByMonthKey[i] = <<ledger[i].month, ledger[i].currency>>
<1>1. IsFiniteSet(S) /\ \A i \in S : AmountOf[i] = ledger[i].amount /\ AmountOf[i] \in Nat
    BY RowsFinite DEF Inv
<1>2. \A i \in S : SignedAmount[i] \in Int
    BY <1>1 DEF SignedAmount
<1>3. QED BY <1>1, <1>2 DEF ByCategory, ByMonthKey

(* The totals of one currency add up to its rows, whatever they are grouped by.  *)
LEMMA AddedIs ==
    ASSUME Inv, NEW S \in SUBSET DOMAIN ledger, NEW c
    PROVE  /\ Added(TotalsByMonth(S), c) = Sum({i \in S : ledger[i].currency = c})
           /\ Added(TotalsByCategory(S), c) = Sum({i \in S : ledger[i].currency = c})
           /\ Added(NetTotalsByMonth(S), c) = Net({i \in S : ledger[i].currency = c})
<1> DEFINE R == {i \in S : ledger[i].currency = c}
<1>1. ASSUME NEW key, NEW amount, \A i \in S : amount[i] \in Int /\ key[i][2] = ledger[i].currency
      PROVE  Added(Totals(S, key, amount), c) = SumFunctionOnSet(amount, R)
    <2> DEFINE T == Totals(S, key, amount)
               K == {k \in DOMAIN T : k[2] = c}
    <2>1. DOMAIN T = {key[i] : i \in S}
        BY DEF Totals
    <2>2. {i \in S : key[i] \in K} = R
        <3> HIDE DEF T
        <3>1. QED BY <1>1, <2>1
    <2>3. K \in SUBSET DOMAIN T
        OBVIOUS
    <2>4. SumFunctionOnSet(T, K) = SumFunctionOnSet(amount, {i \in S : key[i] \in K})
        <3>1. IsFiniteSet(S) /\ \A i \in S : amount[i] \in Int
            BY <1>1, RowSums
        <3> HIDE DEF K
        <3>2. QED BY <2>3, <3>1, TotalsOf
    <2>5. QED BY <2>2, <2>4 DEF Added
<1>2. Added(TotalsByMonth(S), c) = Sum(R)
    <2>1. \A i \in S : AmountOf[i] \in Int /\ ByMonthKey[i][2] = ledger[i].currency
        BY RowSums
    <2>2. QED BY <1>1, <2>1 DEF TotalsByMonth, Sum
<1>3. Added(TotalsByCategory(S), c) = Sum(R)
    <2>1. \A i \in S : AmountOf[i] \in Int /\ ByCategory[i][2] = ledger[i].currency
        BY RowSums
    <2>2. QED BY <1>1, <2>1 DEF TotalsByCategory, Sum
<1>4. Added(NetTotalsByMonth(S), c) = SumFunctionOnSet(SignedAmount, R)
    <2>1. \A i \in S : SignedAmount[i] \in Int /\ ByMonthKey[i][2] = ledger[i].currency
        BY RowSums
    <2>2. QED BY <1>1, <2>1 DEF NetTotalsByMonth
<1>5. R \in SUBSET DOMAIN ledger
    OBVIOUS
<1> HIDE DEF R
<1>6. SumFunctionOnSet(SignedAmount, R) = Net(R)
    BY <1>5, SignedIsNet
<1>7. QED BY <1>2, <1>3, <1>4, <1>6 DEF R
----------------------------------------------------------------------------
(* charts.add_months counts months, across new years and backwards.              *)
LEMMA AddMonthsAdds == ASSUME NEW m \in Nat, NEW n \in Int PROVE MonthsAfter(m, n) = m + n
BY DEF MonthsAfter, AddMonths, Date

LEMMA RowMonths ==
    ASSUME Inv, NEW S \in SUBSET DOMAIN ledger
    PROVE  /\ MonthsOf(S) \in SUBSET Nat /\ IsFiniteSet(MonthsOf(S))
           /\ DOMAIN NetTotalsByMonth(S) = {<<ledger[i].month, ledger[i].currency>> : i \in S}
           /\ MonthsOf(S) = {k[1] : k \in DOMAIN NetTotalsByMonth(S)}
           /\ S # {} => MonthsOf(S) # {}
<1>1. MonthsOf(S) \in SUBSET Nat /\ IsFiniteSet(MonthsOf(S))
    BY RowsFinite, NumbersAssumption DEF Inv
<1>2. DOMAIN NetTotalsByMonth(S) = {<<ledger[i].month, ledger[i].currency>> : i \in S}
    BY RowSums DEF NetTotalsByMonth, Totals
<1> DEFINE D == DOMAIN NetTotalsByMonth(S)
<1>3. \A m : m \in MonthsOf(S) <=> m \in {k[1] : k \in D}
    <2>1. \A k \in D : \E i \in S : k[1] = ledger[i].month
        BY <1>2
    <2>2. \A i \in S : \E k \in D : k[1] = ledger[i].month
        <3>1. \A i \in S : <<ledger[i].month, ledger[i].currency>> \in D
            BY <1>2
        <3>2. QED BY <3>1
    <2> HIDE DEF D
    <2>3. QED BY <2>1, <2>2 DEF MonthsOf
<1>4. MonthsOf(S) = {k[1] : k \in D}
    <2> HIDE DEF D
    <2>1. QED BY <1>3
<1>5. S # {} => MonthsOf(S) # {}
    BY DEF MonthsOf
<1>6. QED BY <1>1, <1>2, <1>4, <1>5

(* The change since the calendar month before is that of the two months' rows.   *)
LEMMA DeltaIs ==
    ASSUME Inv, NEW S \in SUBSET DOMAIN ledger, S # {}, NEW c
    PROVE  LET latest == Max(MonthsOf(S))
           IN  At(MomDelta(NetTotalsByMonth(S)), c)
                 = Net(In(S, latest, c)) - Net(In(S, latest - 1, c))
<1> DEFINE latest == Max(MonthsOf(S))
           net == NetTotalsByMonth(S)
           keys == {k \in DOMAIN net : k[1] \in {latest, latest - 1}}
           delta == [d \in {k[2] : k \in keys} |-> At(net, <<latest, d>>) - At(net, <<latest - 1, d>>)]
<1>1. latest \in Nat
    <2>1. MonthsOf(S) \in SUBSET Nat /\ IsFiniteSet(MonthsOf(S)) /\ MonthsOf(S) # {}
        BY RowMonths
    <2>2. MonthsOf(S) \in SUBSET Int
        BY <2>1
    <2>3. QED BY <2>1, <2>2, GreatestOf
<1>2. MomDelta(net) = delta
    <2>1. Max({k[1] : k \in DOMAIN net}) = latest /\ MonthsAfter(latest, -1) = latest - 1
        <3>1. {k[1] : k \in DOMAIN net} = MonthsOf(S)
            BY RowMonths
        <3>2. -1 \in Int /\ latest + (-1) = latest - 1
            BY <1>1
        <3> HIDE DEF net
        <3>3. MonthsAfter(latest, -1) = latest - 1
            <4> HIDE DEF latest
            <4>1. QED BY <1>1, <3>2, AddMonthsAdds
        <3>4. QED BY <3>1, <3>3
    <2>2. DOMAIN net # {}
        BY RowMonths
    <2>3. net # << >>
        BY <2>2
    <2> HIDE DEF latest, net
    <2>4. QED BY <2>1, <2>3 DEF MomDelta, MonthOverMonthDelta
<1>3. ASSUME NEW m PROVE At(net, <<m, c>>) = Net(In(S, m, c)) /\ Net(In(S, m, c)) \in Int
    <2>1. In(S, m, c) \in SUBSET DOMAIN ledger
        BY DEF In
    <2>2. {i \in S : ByMonthKey[i] = <<m, c>>} = In(S, m, c)
        BY RowSums DEF In
    <2>3. At(net, <<m, c>>) = SumFunctionOnSet(SignedAmount, {i \in S : ByMonthKey[i] = <<m, c>>})
        BY TotalAt DEF NetTotalsByMonth
    <2>4. QED BY <2>1, <2>2, <2>3, SignedIsNet
<1>4. At(delta, c) = At(net, <<latest, c>>) - At(net, <<latest - 1, c>>)
    <2>1. CASE c \in {k[2] : k \in keys}
        <3>1. c \in DOMAIN delta /\ delta[c] = At(net, <<latest, c>>) - At(net, <<latest - 1, c>>)
            BY <2>1
        <3> HIDE DEF delta
        <3>2. QED BY <3>1 DEF At
    <2>2. CASE c \notin {k[2] : k \in keys}
        <3>1. <<latest, c>> \notin DOMAIN net /\ <<latest - 1, c>> \notin DOMAIN net
            BY <2>2
        <3>2. c \notin DOMAIN delta
            BY <2>2
        <3> HIDE DEF delta, net
        <3>3. At(delta, c) = 0 /\ At(net, <<latest, c>>) = 0 /\ At(net, <<latest - 1, c>>) = 0
            BY <3>1, <3>2 DEF At
        <3>4. QED BY <3>3
    <2>3. QED BY <2>1, <2>2
<1>5. QED BY <1>2, <1>3, <1>4

(* Pages and the digest leave everything else alone, so that the invariant of    *)
(* Projections holds beside them.                                                *)
LEMMA PagesRead == ReportsSpec => Spec
<1>1. ReportsInit => Init
    BY DEF ReportsInit
<1>2. [ReportsNext]_rvars => [Next]_vars
    BY DEF ReportsNext, rvars, vars, Next
<1>3. QED BY <1>1, <1>2, PTL DEF ReportsSpec, Spec

LEMMA ReportsAlways == ReportsSpec => []Inv
BY PagesRead, Always, PTL

(* What a page has read is that of the ledger, unless something was committed     *)
(* since its first statement.                                                    *)
NetOf(w) == NetTotalsByMonth(Reported(w))
ExpensesOf(w) == TotalsByCategory(Reported(w) \cap AllRows("expense"))
IncomesOf(w) == TotalsByCategory(Reported(w) \cap AllRows("income"))
DigestMonths == TotalsByMonth(DOMAIN ledger)
DigestCategories == TotalsByCategory(DOMAIN ledger)

PageFresh ==
    /\ \A w : page.step \in {"net", "expense", "reports"} /\ page.window = w => page.net = NetOf(w)
    /\ \A w : page.step \in {"expense", "reports"} /\ page.window = w => page.expense = ExpensesOf(w)
    /\ \A w : page.step = "reports" /\ page.window = w => page.income = IncomesOf(w)
    /\ page.step \in {"by_month", "digest"} => page.byMonth = DigestMonths
    /\ page.step = "digest" => page.byCategory = DigestCategories

PageFits ==
    page.step # "none" => page.at \in Nat /\ page.at <= changes /\ (page.at = changes => PageFresh)

LEMMA SameTables ==
    ASSUME UNCHANGED ledger
    PROVE  /\ \A w : NetOf(w)' = NetOf(w) /\ ExpensesOf(w)' = ExpensesOf(w) /\ IncomesOf(w)' = IncomesOf(w)
           /\ DigestMonths' = DigestMonths /\ DigestCategories' = DigestCategories
BY DEF NetOf, ExpensesOf, IncomesOf, DigestMonths, DigestCategories, Reported, Dated, AllRows, Rows,
       NetTotalsByMonth, TotalsByMonth, TotalsByCategory, Totals, ByMonthKey, ByCategory, AmountOf, SignedAmount

LEMMA ReadPageStep ==
    ASSUME Inv, PageFits, ReadPage, UNCHANGED vars
    PROVE  PageFits'
<1>1. changes \in Nat /\ changes' = changes /\ UNCHANGED ledger
    BY NumbersAssumption DEF Inv, TypeOK, vars
<1>2. /\ \A w : NetOf(w)' = NetOf(w) /\ ExpensesOf(w)' = ExpensesOf(w) /\ IncomesOf(w)' = IncomesOf(w)
      /\ DigestMonths' = DigestMonths /\ DigestCategories' = DigestCategories
    BY <1>1, SameTables
<1>3. ASSUME NEW from \in Months, NEW to \in Months, OpenReports(from, to) PROVE PageFits'
    <2> DEFINE window == MonthsAsked(from, to)
    <2>1. page' = [step |-> "net", at |-> changes, window |-> window, net |-> NetOf(window)]
        BY <1>3 DEF OpenReports, NetOf
    <2> HIDE DEF window
    <2>2. /\ page'.step = "net" /\ page'.at = changes /\ page'.window = window
          /\ page'.net = NetOf(window)
        BY <2>1
    <2>3. QED BY <1>1, <1>2, <2>2 DEF PageFits, PageFresh
<1>4. ASSUME ReadExpenses PROVE PageFits'
    <2>1. /\ page.step = "net" /\ page'.step = "expense" /\ page'.at = page.at /\ page'.window = page.window
          /\ page'.net = page.net /\ page'.expense = ExpensesOf(page.window)
        BY <1>4 DEF ReadExpenses, ExpensesOf
    <2>2. QED BY <1>1, <1>2, <2>1 DEF PageFits, PageFresh
<1>5. ASSUME ReadIncomes PROVE PageFits'
    <2>1. /\ page.step = "expense" /\ page'.step = "reports" /\ page'.at = page.at /\ page'.window = page.window
          /\ page'.net = page.net /\ page'.expense = page.expense /\ page'.income = IncomesOf(page.window)
        BY <1>5 DEF ReadIncomes, IncomesOf
    <2>2. QED BY <1>1, <1>2, <2>1 DEF PageFits, PageFresh
<1>6. ASSUME OpenDigest PROVE PageFits'
    <2>1. page'.step = "by_month" /\ page'.at = changes /\ page'.byMonth = DigestMonths
        BY <1>6 DEF OpenDigest, DigestMonths
    <2>2. QED BY <1>1, <1>2, <2>1 DEF PageFits, PageFresh
<1>7. ASSUME ReadCategories PROVE PageFits'
    <2>1. /\ page.step = "by_month" /\ page'.step = "digest" /\ page'.at = page.at
          /\ page'.byMonth = page.byMonth /\ page'.byCategory = DigestCategories
        BY <1>7 DEF ReadCategories, DigestCategories
    <2>2. QED BY <1>1, <1>2, <2>1 DEF PageFits, PageFresh
<1>8. ASSUME ClosePage PROVE PageFits'
    BY <1>8 DEF ClosePage, NoPage, PageFits
<1>9. QED BY <1>3, <1>4, <1>5, <1>6, <1>7, <1>8 DEF ReadPage

LEMMA PageInit == ReportsInit => PageFits
BY DEF ReportsInit, PageFits, NoPage

LEMMA PageStep == ASSUME Inv, PageFits, [ReportsNext]_rvars PROVE PageFits'
<1>1. CASE Change /\ UNCHANGED page
    <2>1. changes \in Nat /\ changes' = changes + 1 /\ page' = page
        BY <1>1, NumbersAssumption DEF Change, Record, Edit, Delete, Changed, Inv, TypeOK
    <2>2. page'.step # "none" => page'.at \in Nat /\ page'.at <= changes' /\ page'.at # changes'
        BY <2>1 DEF PageFits
    <2>3. QED BY <2>2 DEF PageFits
<1>2. CASE page = NoPage /\ Read /\ UNCHANGED page
    BY <1>2 DEF NoPage, PageFits
<1>3. CASE run = Idle /\ ReadPage /\ UNCHANGED vars
    BY <1>3, ReadPageStep
<1>4. CASE UNCHANGED rvars
    <2>1. /\ \A w : NetOf(w)' = NetOf(w) /\ ExpensesOf(w)' = ExpensesOf(w) /\ IncomesOf(w)' = IncomesOf(w)
          /\ DigestMonths' = DigestMonths /\ DigestCategories' = DigestCategories
        BY <1>4, SameTables DEF rvars
    <2>2. page' = page /\ changes' = changes
        BY <1>4 DEF rvars
    <2>3. QED BY <2>1, <2>2 DEF PageFits, PageFresh
<1>5. QED BY <1>1, <1>2, <1>3, <1>4 DEF ReportsNext

LEMMA PagesFit == ReportsSpec => []PageFits
<1>1. Inv /\ PageFits /\ [ReportsNext]_rvars => PageFits'
    BY PageStep
<1>2. QED BY <1>1, PageInit, ReportsAlways, PTL DEF ReportsSpec

(* For any rows, months and currencies, and any commits in between: the numbers  *)
(* of a page that nothing was committed under agree, and so do the groupings of   *)
(* the digest and of the totals.                                                 *)
THEOREM ReportsAgree == ReportsSpec => []ReportsAddUp
<1>1. ASSUME Inv, NEW c, NEW rows \in SUBSET DOMAIN ledger
      PROVE  /\ Added(NetTotalsByMonth(rows), c)
                  = Added(TotalsByCategory(rows \cap AllRows("income")), c)
                      - Added(TotalsByCategory(rows \cap AllRows("expense")), c)
             /\ Added(TotalsByMonth(rows), c) = Added(TotalsByCategory(rows), c)
    <2> DEFINE ofC(S) == {i \in S : ledger[i].currency = c}
    <2>1. rows \cap AllRows("income") \in SUBSET DOMAIN ledger /\ rows \cap AllRows("expense") \in SUBSET DOMAIN ledger
        OBVIOUS
    <2>2. Added(NetTotalsByMonth(rows), c) = Net(ofC(rows))
        BY <1>1, AddedIs
    <2>3. /\ Added(TotalsByCategory(rows \cap AllRows("income")), c) = Sum(ofC(rows \cap AllRows("income")))
          /\ Added(TotalsByCategory(rows \cap AllRows("expense")), c) = Sum(ofC(rows \cap AllRows("expense")))
        BY <1>1, <2>1, AddedIs
    <2>4. /\ ofC(rows \cap AllRows("income")) = ofC(rows) \cap AllRows("income")
          /\ ofC(rows \cap AllRows("expense")) = ofC(rows) \cap AllRows("expense")
        OBVIOUS
    <2>5. Added(TotalsByMonth(rows), c) = Added(TotalsByCategory(rows), c)
        BY <1>1, AddedIs
    <2>6. QED BY <2>2, <2>3, <2>4, <2>5 DEF Net
<1>2. ASSUME Inv, PageFits, page.step = "reports", page.at = changes, NEW c \in Currencies
      PROVE  LET rows == Reported(page.window)
                 latest == Max(MonthsOf(rows))
             IN  /\ Added(page.net, c) = Added(page.income, c) - Added(page.expense, c)
                 /\ rows # {} => At(MomDelta(page.net), c)
                                   = Net(In(rows, latest, c)) - Net(In(rows, latest - 1, c))
    <2> DEFINE rows == Reported(page.window)
    <2>1. rows \in SUBSET DOMAIN ledger
        BY DEF Reported, Dated
    <2>2. page.net = NetOf(page.window) /\ page.expense = ExpensesOf(page.window) /\ page.income = IncomesOf(page.window)
        BY <1>2 DEF PageFits, PageFresh
    <2>3. /\ page.net = NetTotalsByMonth(rows)
          /\ page.expense = TotalsByCategory(rows \cap AllRows("expense"))
          /\ page.income = TotalsByCategory(rows \cap AllRows("income"))
        BY <2>2 DEF NetOf, ExpensesOf, IncomesOf
    <2> HIDE DEF rows
    <2>4. Added(page.net, c) = Added(page.income, c) - Added(page.expense, c)
        BY <1>1, <1>2, <2>1, <2>3
    <2>5. rows # {} => At(MomDelta(page.net), c)
                        = Net(In(rows, Max(MonthsOf(rows)), c)) - Net(In(rows, Max(MonthsOf(rows)) - 1, c))
        BY <1>2, <2>1, <2>3, DeltaIs
    <2>6. QED BY <2>4, <2>5 DEF rows
<1>3. ASSUME Inv, PageFits, page.step = "digest", page.at = changes, NEW c \in Currencies
      PROVE  Added(page.byMonth, c) = Added(page.byCategory, c)
    <2>1. page.byMonth = TotalsByMonth(DOMAIN ledger) /\ page.byCategory = TotalsByCategory(DOMAIN ledger)
        BY <1>3 DEF PageFits, PageFresh, DigestMonths, DigestCategories
    <2>2. DOMAIN ledger \in SUBSET DOMAIN ledger
        OBVIOUS
    <2>3. QED BY <1>1, <1>3, <2>1, <2>2
<1>4. ASSUME Inv, NEW from \in Months, NEW to \in Months, NEW c \in Currencies,
             NEW types \in SUBSET {"income", "expense"}
      PROVE  Added(GetTotals(types, "month", from, to), c) = Added(GetTotals(types, "category", from, to), c)
    <2> DEFINE S == Dated(from, to) \cap UNION {AllRows(type) : type \in types}
    <2>1. S \in SUBSET DOMAIN ledger
        BY DEF Dated
    <2>2. GetTotals(types, "month", from, to) = TotalsByMonth(S) /\ GetTotals(types, "category", from, to) = TotalsByCategory(S)
        BY DEF GetTotals
    <2> HIDE DEF S
    <2>3. QED BY <1>1, <1>4, <2>1, <2>2
<1>5. Inv /\ PageFits => ReportsAddUp
    BY <1>2, <1>3, <1>4 DEF ReportsAddUp
<1>6. QED BY <1>5, ReportsAlways, PagesFit, PTL
----------------------------------------------------------------------------
(* The bars of the dashboard: a sorted slice of the months, then the forecast's.  *)
LEMMA ConcatForm ==
    ASSUME NEW m \in Nat, NEW n \in Nat, NEW S, NEW a \in [1 .. m -> S], NEW b \in [1 .. n -> S]
    PROVE  /\ DOMAIN (a \o b) = 1 .. m + n
           /\ \A k \in 1 .. m : (a \o b)[k] = a[k]
           /\ \A k \in 1 .. n : (a \o b)[m + k] = b[k]
<1>1. a \in Seq(S) /\ b \in Seq(S) /\ Len(a) = m /\ Len(b) = n
    OBVIOUS
<1>2. QED BY <1>1

Shown == Trailing(Sorted(MonthsOf(DOMAIN ledger)), HistoryShown)
ValueOf(m) == Net({i \in DOMAIN ledger : ledger[i].month = m})

LEMMA ShownForm ==
    ASSUME Inv
    PROVE  /\ Len(Shown) \in Nat /\ \A n \in 1 .. Len(Shown) : Shown[n] \in MonthsOf(DOMAIN ledger)
           /\ \A m, n \in 1 .. Len(Shown) : m < n => Shown[m] < Shown[n]
           /\ DOMAIN ledger # {} => Len(Shown) > 0 /\ Shown[Len(Shown)] = Max(MonthsOf(DOMAIN ledger))
<1> DEFINE M == MonthsOf(DOMAIN ledger)
           all == Sorted(M)
           L == Len(Shown)
           C == Cardinality(M)
<1>1. /\ M \in SUBSET Nat /\ IsFiniteSet(M) /\ M \in SUBSET Int
      /\ DOMAIN ledger # {} => M # {}
    <2>1. DOMAIN ledger \in SUBSET DOMAIN ledger
        OBVIOUS
    <2>2. M \in SUBSET Nat /\ IsFiniteSet(M) /\ (DOMAIN ledger # {} => M # {})
        BY <2>1, RowMonths
    <2>3. QED BY <2>2
<1> HIDE DEF M
<1>2. /\ C \in Nat /\ all \in Seq(M) /\ Len(all) = C /\ all \in [1 .. C -> M]
      /\ \A i, j \in 1 .. C : i < j => all[i] < all[j]
      /\ \A x \in M : \E i \in 1 .. C : all[i] = x
    BY <1>1, SortedForm
<1>3. Shown = Trailing(all, HistoryShown) /\ HistoryShown \in Nat \ {0}
    BY ReportsAssumption DEF Shown, M
<1> HIDE DEF all, C
<1>4. /\ Shown \in Seq(M) /\ L = IF C < HistoryShown THEN C ELSE HistoryShown
      /\ \A k \in 1 .. L : Shown[k] = all[C - L + k]
    <2> DEFINE t == Trailing(all, HistoryShown)
    <2>1. /\ t \in Seq(M) /\ Len(t) = IF Len(all) < HistoryShown THEN Len(all) ELSE HistoryShown
          /\ \A k \in 1 .. Len(t) : t[k] = all[Len(all) - Len(t) + k]
        <3>1. all \in Seq(M) /\ HistoryShown \in Nat \ {0}
            BY <1>2, <1>3
        <3>2. QED BY ONLY <3>1, TrailingForm
    <2>2. Shown = t
        BY <1>3
    <2> HIDE DEF t
    <2>3. QED BY <1>2, <2>1, <2>2
<1>5. L \in Nat /\ L <= C /\ \A n \in 1 .. L : C - L + n \in 1 .. C
    BY <1>2, <1>3, <1>4
<1>6. \A n \in 1 .. L : Shown[n] \in M
    BY <1>2, <1>4, <1>5
<1>7. \A m, n \in 1 .. L : m < n => Shown[m] < Shown[n]
    <2>1. SUFFICES ASSUME NEW m \in 1 .. L, NEW n \in 1 .. L, m < n PROVE Shown[m] < Shown[n]
        OBVIOUS
    <2>2. C - L + m < C - L + n /\ C - L + m \in 1 .. C /\ C - L + n \in 1 .. C
        BY <1>2, <1>5, <2>1
    <2>3. QED BY <1>2, <1>4, <2>2
<1>8. ASSUME M # {} PROVE L > 0 /\ Shown[L] = Max(M)
    <2>1. PICK x \in M : TRUE
        BY <1>8
    <2>2. C > 0
        BY <1>2, <2>1
    <2>3. L > 0 /\ L \in 1 .. L /\ C - L + L = C
        BY <1>2, <1>3, <1>4, <1>5, <2>2
    <2>4. Shown[L] = all[C]
        BY <1>4, <2>3
    <2>5. all[C] \in M /\ \A y \in M : y <= all[C]
        <3>1. C \in 1 .. C
            BY <1>2, <2>2
        <3>2. \A i \in 1 .. C : all[i] <= all[C]
            <4>1. SUFFICES ASSUME NEW i \in 1 .. C PROVE all[i] <= all[C]
                OBVIOUS
            <4>2. all[i] \in Int /\ all[C] \in Int
                BY <1>1, <1>2, <3>1
            <4>3. i = C \/ i < C
                BY <1>2
            <4>4. QED BY <1>2, <3>1, <4>2, <4>3
        <3>3. QED BY <1>2, <3>1, <3>2
    <2>6. Max(M) = all[C]
        BY <1>1, <2>5, GreatestIs
    <2>7. QED BY <2>3, <2>4, <2>6
<1>9. QED BY <1>1, <1>5, <1>6, <1>7, <1>8 DEF M

LEMMA SeriesForm ==
    ASSUME Inv, run.step = "done"
    PROVE  /\ DOMAIN Series = 1 .. Len(Shown) + MonthsAhead
           /\ \A k \in 1 .. Len(Shown) :
                 Series[k] = [month |-> Shown[k], value |-> ValueOf(Shown[k]), isForecast |-> FALSE]
           /\ \A k \in 1 .. Len(Shown) : Series[k].isForecast = FALSE /\ Series[k].value = ValueOf(Shown[k])
           /\ \A k \in 1 .. MonthsAhead :
                 /\ Series[Len(Shown) + k].month = Today + k
                 /\ Series[Len(Shown) + k].isForecast = TRUE
<1> DEFINE history == NetTotalsByMonth(DOMAIN ledger)
           value(m) == SumFunctionOnSet(history, {k \in DOMAIN history : k[1] = m})
           past == [n \in 1 .. Len(Shown) |->
                      [month |-> Shown[n], value |-> value(Shown[n]), isForecast |-> FALSE]]
           next == [n \in 1 .. Len(Forecast) |->
                      [month |-> MonthsAfter(Today, n), value |-> Forecast[n], isForecast |-> TRUE]]
<1>1. DOMAIN ledger \in SUBSET DOMAIN ledger
    OBVIOUS
<1>2. Series = past \o next
    <2>1. {k[1] : k \in DOMAIN history} = MonthsOf(DOMAIN ledger)
        BY <1>1, RowMonths
    <2>2. Trailing(Sorted({k[1] : k \in DOMAIN history}), HistoryShown) = Shown
        BY <2>1 DEF Shown
    <2>3. QED BY <2>2 DEF Series, NetSeries
<1>3. Len(Forecast) = MonthsAhead /\ MonthsAhead \in Nat /\ Len(Shown) \in Nat
    BY ForecastType, ShownForm, NumbersAssumption
<1>4. ASSUME NEW m PROVE value(m) = ValueOf(m)
    <2> DEFINE K == {k \in DOMAIN history : k[1] = m}
               R == {i \in DOMAIN ledger : ledger[i].month = m}
    <2>1. SumFunctionOnSet(history, K) = SumFunctionOnSet(SignedAmount, {i \in DOMAIN ledger : ByMonthKey[i] \in K})
        <3>1. K \in SUBSET DOMAIN Totals(DOMAIN ledger, ByMonthKey, SignedAmount)
            BY DEF NetTotalsByMonth
        <3>2. IsFiniteSet(DOMAIN ledger) /\ \A i \in DOMAIN ledger : SignedAmount[i] \in Int
            BY <1>1, RowSums
        <3> HIDE DEF K
        <3>3. QED BY <3>1, <3>2, TotalsOf DEF NetTotalsByMonth
    <2>2. {i \in DOMAIN ledger : ByMonthKey[i] \in K} = R
        <3>1. \A i \in DOMAIN ledger : ByMonthKey[i] \in DOMAIN history /\ ByMonthKey[i][1] = ledger[i].month
            <4>1. DOMAIN history = {<<ledger[i].month, ledger[i].currency>> : i \in DOMAIN ledger}
                BY <1>1, RowMonths
            <4>2. \A i \in DOMAIN ledger : ByMonthKey[i] = <<ledger[i].month, ledger[i].currency>>
                BY <1>1, RowSums
            <4> HIDE DEF history
            <4>3. QED BY <4>1, <4>2
        <3> HIDE DEF history
        <3>2. QED BY <3>1
    <2>3. R \in SUBSET DOMAIN ledger
        OBVIOUS
    <2>4. SumFunctionOnSet(SignedAmount, R) = Net(R)
        <3> HIDE DEF R
        <3>1. QED BY <2>3, SignedIsNet
    <2>5. QED BY <2>1, <2>2, <2>4 DEF ValueOf
<1> HIDE DEF history, value
<1> DEFINE bars == {past[k] : k \in 1 .. Len(Shown)} \cup {next[k] : k \in 1 .. MonthsAhead}
<1>5. past \in [1 .. Len(Shown) -> bars] /\ next \in [1 .. MonthsAhead -> bars]
    BY <1>3
<1>6. /\ \A k \in 1 .. Len(Shown) :
             past[k] = [month |-> Shown[k], value |-> ValueOf(Shown[k]), isForecast |-> FALSE]
      /\ \A k \in 1 .. MonthsAhead : next[k].month = Today + k /\ next[k].isForecast = TRUE
    <2>1. \A k \in 1 .. MonthsAhead : MonthsAfter(Today, k) = Today + k
        BY <1>3, AddMonthsAdds, ReportsAssumption
    <2>2. QED BY <1>3, <1>4, <2>1
<1> HIDE DEF past, next, bars
<1>7. /\ DOMAIN Series = 1 .. Len(Shown) + MonthsAhead
      /\ \A k \in 1 .. Len(Shown) : Series[k] = past[k]
      /\ \A k \in 1 .. MonthsAhead : Series[Len(Shown) + k] = next[k]
    BY <1>2, <1>3, <1>5, ConcatForm
<1>8. \A k \in 1 .. Len(Shown) : Series[k].isForecast = FALSE /\ Series[k].value = ValueOf(Shown[k])
    <2>1. SUFFICES ASSUME NEW k \in 1 .. Len(Shown)
                   PROVE  Series[k].isForecast = FALSE /\ Series[k].value = ValueOf(Shown[k])
        OBVIOUS
    <2>2. Series[k] = [month |-> Shown[k], value |-> ValueOf(Shown[k]), isForecast |-> FALSE]
        BY <1>6, <1>7
    <2>3. QED BY <2>2
<1>9. QED BY <1>6, <1>7, <1>8

(* The hero's net is that of this month, which is the breakdown's.               *)
LEMMA HeroIs ==
    ASSUME Inv, run.step = "done", DOMAIN ledger # {}, Max(MonthsOf(DOMAIN ledger)) = Today
    PROVE  Hero = <<Sum(ThisMonth("income")) - SumFunction(ExpenseTotals)>>
<1> DEFINE L == Len(Shown)
           past == {n \in DOMAIN Series : ~Series[n].isForecast}
           R == {i \in DOMAIN ledger : ledger[i].month = Today}
<1>1. L \in Nat /\ L > 0 /\ Shown[L] = Today /\ MonthsAhead \in Nat
    BY ShownForm, NumbersAssumption
<1>2. past = 1 .. L
    <2>1. DOMAIN Series = 1 .. L + MonthsAhead
        BY SeriesForm
    <2>2. \A k \in 1 .. L : Series[k].isForecast = FALSE
        BY SeriesForm
    <2>3. \A k \in 1 .. MonthsAhead : Series[L + k].isForecast = TRUE
        BY SeriesForm
    <2>4. \A n \in L + 1 .. L + MonthsAhead : Series[n].isForecast = TRUE
        <3>1. SUFFICES ASSUME NEW n \in L + 1 .. L + MonthsAhead PROVE Series[n].isForecast = TRUE
            OBVIOUS
        <3>2. n - L \in 1 .. MonthsAhead /\ L + (n - L) = n
            BY <1>1
        <3>3. QED BY <2>3, <3>2
    <2>5. \A n \in 1 .. L + MonthsAhead : n \in 1 .. L \/ n \in L + 1 .. L + MonthsAhead
        BY <1>1
    <2>6. 1 .. L \subseteq 1 .. L + MonthsAhead
        BY <1>1
    <2> HIDE DEF L
    <2>7. QED BY <2>1, <2>2, <2>4, <2>5, <2>6
<1>3. Max(past) = L /\ past # {}
    <2>1. 1 .. L \in SUBSET Int /\ L \in 1 .. L /\ \A x \in 1 .. L : x <= L
        BY <1>1
    <2> HIDE DEF past, L
    <2>2. QED BY <1>2, <2>1, GreatestIs
<1>4. Hero = <<ValueOf(Today)>>
    <2>1. L \in 1 .. L
        BY <1>1
    <2>2. Series[L].value = ValueOf(Today)
        BY <1>1, <2>1, SeriesForm
    <2>3. Hero = IF past = {} THEN << >> ELSE <<Series[Max(past)].value>>
        BY DEF Hero
    <2> HIDE DEF past, L
    <2>4. QED BY <1>3, <2>2, <2>3
<1>5. \A type \in {"income", "expense"} : ThisMonth(type) = R \cap AllRows(type) /\ ThisMonth(type) \in SUBSET DOMAIN ledger
    <2>1. \A i \in DOMAIN ledger : ledger[i].month \in Nat
        BY NumbersAssumption DEF Inv, TypeOK, Row
    <2>2. Dated(Today, Today) = R
        BY <2>1, ReportsAssumption DEF Dated
    <2>3. QED BY <2>2 DEF ThisMonth
<1>6. SumFunction(ExpenseTotals) = Sum(ThisMonth("expense"))
    <2> DEFINE S == ThisMonth("expense")
               T == Totals(S, ByCategory, AmountOf)
    <2>1. ExpenseTotals = T
        BY DEF ExpenseTotals, TotalsByCategory
    <2>2. IsFiniteSet(S) /\ \A i \in S : AmountOf[i] \in Int
        BY <1>5, RowSums
    <2>3. DOMAIN T = {ByCategory[i] : i \in S}
        BY DEF Totals
    <2>4. SumFunctionOnSet(T, DOMAIN T) = SumFunctionOnSet(AmountOf, {i \in S : ByCategory[i] \in DOMAIN T})
        <3> HIDE DEF S
        <3>1. DOMAIN T \in SUBSET DOMAIN T
            OBVIOUS
        <3>2. QED BY <2>2, <3>1, TotalsOf
    <2>5. {i \in S : ByCategory[i] \in DOMAIN T} = S
        <3> HIDE DEF T, S
        <3>1. QED BY <2>3
    <2> HIDE DEF T
    <2>6. QED BY <2>1, <2>4, <2>5 DEF SumFunction, Sum
<1>7. QED BY <1>4, <1>5, <1>6 DEF ValueOf, Net

(* The vendors' breakdown is of rows of the category it breaks down.             *)
LEMMA InfraIs ==
    ASSUME Inv, NEW T \in Listings(CogsRows), NEW c
    PROVE  /\ At(InfraTotals(T), c) <= At(ExpenseTotals, <<"cogs", c>>)
           /\ Cardinality(CogsRows) <= RowLimit => At(InfraTotals(T), c) = At(ExpenseTotals, <<"cogs", c>>)
<1> DEFINE ofC(S) == {i \in S : ledger[i].currency = c}
<1>1. /\ CogsRows \in SUBSET DOMAIN ledger /\ ThisMonth("expense") \in SUBSET DOMAIN ledger
      /\ T \in SUBSET CogsRows /\ Cardinality(T) = Min({RowLimit, Cardinality(CogsRows)})
    BY DEF Listings, CogsRows, ThisMonth, Dated
<1>2. At(InfraTotals(T), c) = SumFunctionOnSet(AmountOf, ofC(T))
    <2> DEFINE currency == [i \in T |-> ledger[i].currency]
    <2>1. At(InfraTotals(T), c) = SumFunctionOnSet(AmountOf, {i \in T : currency[i] = c})
        BY TotalAt DEF InfraTotals
    <2>2. {i \in T : currency[i] = c} = ofC(T)
        OBVIOUS
    <2>3. QED BY <2>1, <2>2
<1>3. At(ExpenseTotals, <<"cogs", c>>) = SumFunctionOnSet(AmountOf, ofC(CogsRows))
    <2>1. At(ExpenseTotals, <<"cogs", c>>)
            = SumFunctionOnSet(AmountOf, {i \in ThisMonth("expense") : ByCategory[i] = <<"cogs", c>>})
        BY TotalAt DEF ExpenseTotals, TotalsByCategory
    <2>2. \A i \in ThisMonth("expense") : ByCategory[i] = <<ledger[i].category, ledger[i].currency>>
        BY <1>1, RowSums
    <2>3. {i \in ThisMonth("expense") : ByCategory[i] = <<"cogs", c>>} = ofC(CogsRows)
        BY <2>2 DEF CogsRows
    <2>4. QED BY <2>1, <2>3
<1>4. SumFunctionOnSet(AmountOf, ofC(T)) <= SumFunctionOnSet(AmountOf, ofC(CogsRows))
    <2>1. /\ ofC(CogsRows) \in SUBSET DOMAIN ledger /\ ofC(T) \in SUBSET ofC(CogsRows)
        BY <1>1
    <2> HIDE DEF ofC
    <2>2. IsFiniteSet(ofC(CogsRows)) /\ \A i \in ofC(CogsRows) : AmountOf[i] \in Nat
        BY <2>1, RowSums
    <2>3. QED BY <2>1, <2>2, SumSubset
<1>5. Cardinality(CogsRows) <= RowLimit => T = CogsRows
    <2>1. IsFiniteSet(CogsRows) /\ Cardinality(CogsRows) \in Nat /\ RowLimit \in Nat
        BY <1>1, RowSums, FS_CardinalityType, ReportsAssumption
    <2>2. SUFFICES ASSUME Cardinality(CogsRows) <= RowLimit PROVE T = CogsRows
        OBVIOUS
    <2> DEFINE n == Cardinality(CogsRows)
    <2>3. Min({RowLimit, n}) = n
        <3>1. n \in Int /\ RowLimit \in Int /\ n <= RowLimit
            BY <2>1, <2>2
        <3> HIDE DEF n
        <3>2. QED BY <3>1 DEF Min
    <2>4. QED BY <1>1, <2>1, <2>3, FS_Subset
<1>6. QED BY <1>2, <1>3, <1>4, <1>5

LEMMA BarsOrdered ==
    ASSUME Inv, run.step = "done", \A i \in DOMAIN ledger : ledger[i].month <= Today,
           NEW m \in DOMAIN Series, NEW n \in DOMAIN Series, m < n
    PROVE  Series[m].month < Series[n].month
<1> DEFINE L == Len(Shown)
<1>1. L \in Nat /\ MonthsAhead \in Nat /\ Today \in Nat
    BY ShownForm, NumbersAssumption, ReportsAssumption
<1>2. /\ \A k \in 1 .. L : Series[k].month = Shown[k] /\ Shown[k] \in Int /\ Shown[k] <= Today
    <2>1. SUFFICES ASSUME NEW k \in 1 .. L
                   PROVE  Series[k].month = Shown[k] /\ Shown[k] \in Int /\ Shown[k] <= Today
        OBVIOUS
    <2>2. Series[k] = [month |-> Shown[k], value |-> ValueOf(Shown[k]), isForecast |-> FALSE]
        BY <2>1, SeriesForm
    <2>3. Shown[k] \in MonthsOf(DOMAIN ledger)
        BY <2>1, ShownForm
    <2>4. \A i \in DOMAIN ledger : ledger[i].month \in Int
        BY NumbersAssumption DEF Inv, TypeOK, Row
    <2>5. QED BY <2>2, <2>3, <2>4 DEF MonthsOf
<1>3. \A k \in 1 .. MonthsAhead : Series[L + k].month = Today + k
    BY SeriesForm
<1>4. m \in 1 .. L + MonthsAhead /\ n \in 1 .. L + MonthsAhead
    BY SeriesForm
<1>5. \A i, j \in 1 .. L : i < j => Shown[i] < Shown[j]
    BY ShownForm
<1> HIDE DEF L
<1>6. ASSUME NEW k \in L + 1 .. L + MonthsAhead PROVE Series[k].month = Today + (k - L)
    <2>1. k - L \in 1 .. MonthsAhead /\ L + (k - L) = k
        BY <1>1
    <2>2. Series[L + (k - L)].month = Today + (k - L)
        BY <1>3, <2>1
    <2>3. QED BY <2>1, <2>2
<1>7. CASE n \in 1 .. L
    <2>1. m \in 1 .. L
        BY <1>1, <1>4, <1>7
    <2>2. QED BY <1>2, <1>5, <1>7, <2>1
<1>8. CASE m \in 1 .. L /\ n \in L + 1 .. L + MonthsAhead
    <2>1. Series[n].month = Today + (n - L) /\ n - L > 0 /\ n - L \in Int
        BY <1>1, <1>6, <1>8
    <2>2. Series[m].month \in Int /\ Series[m].month <= Today
        BY <1>2, <1>8
    <2>3. QED BY <1>1, <2>1, <2>2
<1>9. CASE m \in L + 1 .. L + MonthsAhead /\ n \in L + 1 .. L + MonthsAhead
    <2>1. Series[m].month = Today + (m - L) /\ Series[n].month = Today + (n - L)
        BY <1>6, <1>9
    <2>2. Today + (m - L) < Today + (n - L)
        BY <1>1, <1>4
    <2>3. QED BY <2>1, <2>2
<1>10. QED BY <1>1, <1>4, <1>7, <1>8, <1>9

(* For any ledger, window and limit: the hero, the breakdowns and the bars of the *)
(* dashboard tell one story.                                                      *)
THEOREM DashboardAgrees == ReportsSpec => []DashboardTellsOneStory
<1>1. Inv => DashboardTellsOneStory
    BY HeroIs, InfraIs, BarsOrdered DEF DashboardTellsOneStory
<1>2. QED BY <1>1, ReportsAlways, PTL
----------------------------------------------------------------------------
(* Rounding moves a quotient by at most a half.                                  *)
LEMMA RoundedNear ==
    ASSUME NEW q \in Fractions
    PROVE  /\ Rounded(q) \in Int
           /\ 2 * q[1] - q[2] <= 2 * (q[2] * Rounded(q)) /\ 2 * (q[2] * Rounded(q)) <= 2 * q[1] + q[2]
<1> DEFINE a == q[1]
           b == q[2]
           d == a \div b
           r == a % b
<1>1. a \in Int /\ b \in Nat \ {0}
    BY DEF Fractions
<1>2. d \in Int /\ r \in 0 .. b - 1 /\ a = b * d + r
    BY <1>1, DivMod
<1>3. Rounded(q) = IF 2 * r - b < 0 \/ (2 * r - b = 0 /\ d % 2 = 0) THEN d ELSE d + 1
    BY DEF Rounded
<1> HIDE DEF a, b, d, r
<1> DEFINE bd == b * d
<1>4. bd \in Int /\ b * (d + 1) = bd + b
    BY <1>1, <1>2
<1>5. a = bd + r
    BY <1>2
<1> HIDE DEF bd
<1>6. CASE 2 * r - b < 0 \/ (2 * r - b = 0 /\ d % 2 = 0)
    <2>1. Rounded(q) = d /\ b * Rounded(q) = bd
        BY <1>3, <1>6 DEF bd
    <2>2. 2 * r <= b
        BY <1>1, <1>2, <1>6
    <2>3. 2 * a - b <= 2 * bd /\ 2 * bd <= 2 * a + b
        BY <1>1, <1>2, <1>4, <1>5, <2>2
    <2>4. QED BY <1>2, <2>1, <2>3 DEF a, b
<1>7. CASE ~(2 * r - b < 0 \/ (2 * r - b = 0 /\ d % 2 = 0))
    <2>1. Rounded(q) = d + 1 /\ b * Rounded(q) = bd + b
        BY <1>3, <1>4, <1>7
    <2>2. 2 * r >= b
        BY <1>1, <1>2, <1>7
    <2>3. 2 * a - b <= 2 * (bd + b) /\ 2 * (bd + b) <= 2 * a + b
        BY <1>1, <1>2, <1>4, <1>5, <2>2
    <2>4. QED BY <1>2, <2>1, <2>3 DEF a, b
<1>8. QED BY <1>6, <1>7

(* For any balance and forecast: the meter has the tone of the alert's severity.  *)
THEOREM MeterAgrees == ReportsSpec => []MeterMatchesAlert
<1>1. ASSUME Inv, run.step = "done", NEW cash \in Balances
      PROVE  LET runway == Runway(cash)
                 segments == RunwaySegments(runway)
                 shown == {segments[k] : k \in 1 .. 12} \ {"empty"}
             IN  \/ shown = {RunwayFinding(runway)}
                 \/ shown = {} /\ RunwayFinding(runway) = "critical"
    <2> DEFINE b == Burn
               runway == Runway(cash)
               segments == RunwaySegments(runway)
               shown == {segments[k] : k \in 1 .. 12} \ {"empty"}
               tone == IF Below(runway, 3) THEN "critical" ELSE IF Below(runway, 6) THEN "warning" ELSE "filled"
    <2>0. SUFFICES \/ shown = {RunwayFinding(runway)}
                   \/ shown = {} /\ RunwayFinding(runway) = "critical"
        OBVIOUS
    <2>1. b \in Int /\ cash \in Int /\ MonthsAhead \in Nat \ {0}
        BY <1>1, ForecastType, NumbersAssumption DEF Burn
    <2>2. runway = IF b <= 0 THEN << >> ELSE <<cash * MonthsAhead, b>>
        BY DEF Runway
    <2> HIDE DEF b
    <2>3. CASE b <= 0
        <3>1. RunwayFinding(runway) = "filled" /\ segments = [k \in 1 .. 12 |-> "filled"]
            BY <2>2, <2>3 DEF RunwayFinding, RunwaySegments
        <3>2. \A k \in 1 .. 12 : segments[k] = "filled"
            BY <3>1
        <3>3. 1 \in 1 .. 12
            OBVIOUS
        <3> HIDE DEF segments, runway
        <3>4. shown = {"filled"}
            BY <3>2, <3>3
        <3>5. QED BY <3>1, <3>4
    <2>4. CASE ~(b <= 0)
        <3> DEFINE n == cash * MonthsAhead
        <3>1. n \in Int /\ b \in Nat \ {0} /\ runway = <<n, b>>
            BY <2>1, <2>2, <2>4
        <3> HIDE DEF n, runway
        <3>2. runway # << >> /\ runway[1] = n /\ runway[2] = b /\ runway \in Fractions
            BY <3>1 DEF Fractions
        <3>3. Below(runway, 3) <=> n < 3 * b
            BY <3>2 DEF Below
        <3>4. Below(runway, 6) <=> n < 6 * b
            BY <3>2 DEF Below
        <3>5. tone \in {"critical", "warning", "filled"} /\ RunwayFinding(runway) = tone
            <4>1. 2 * n < 6 * b <=> n < 3 * b
                BY <3>1
            <4>2. QED BY <3>1, <3>2, <3>3, <3>4, <4>1 DEF RunwayFinding
        <3>6. \A k \in 1 .. 12 : segments[k] = IF k > Rounded(runway) THEN "empty" ELSE tone
            BY <3>2 DEF RunwaySegments
        <3> DEFINE f == Rounded(runway)
        <3>7. f \in Int /\ 2 * n - b <= 2 * (b * f)
            BY <3>2, RoundedNear
        <3> HIDE DEF f, segments, tone
        <3>8. CASE f >= 1
            <4>1. 1 \in 1 .. 12 /\ segments[1] = tone
                BY <3>6, <3>7, <3>8 DEF f
            <4>2. \A k \in 1 .. 12 : segments[k] \in {"empty", tone}
                BY <3>6
            <4>3. tone # "empty"
                BY <3>5
            <4>4. shown = {tone}
                BY <4>1, <4>2, <4>3
            <4>5. QED BY <3>5, <4>4
        <3>9. CASE f <= 0
            <4>1. \A k \in 1 .. 12 : segments[k] = "empty"
                BY <3>6, <3>7, <3>9 DEF f
            <4>2. shown = {}
                BY <4>1
            <4>3. n < 3 * b
                <5>1. b * f <= 0 /\ b * f \in Int
                    BY <3>1, <3>7, <3>9
                <5>2. QED BY <3>1, <3>7, <5>1
            <4>4. tone = "critical"
                BY <3>3, <4>3 DEF tone
            <4>5. RunwayFinding(runway) = "critical"
                BY <3>5, <4>4
            <4> HIDE DEF shown
            <4>6. QED BY <4>2, <4>5
        <3>10. QED BY <3>7, <3>8, <3>9
    <2>5. QED BY <2>3, <2>4, <2>1
<1>2. Inv => MeterMatchesAlert
    BY <1>1 DEF MeterMatchesAlert
<1>3. QED BY <1>2, ReportsAlways, PTL
==============================================================================
