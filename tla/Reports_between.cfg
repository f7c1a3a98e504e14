SPECIFICATION ReportsSpec
CONSTANTS
    Ids = {t1, t2, t3}
    Kinds <- TwoExpensesOneIncome
    Currencies = {"COP"}
    Months = {11, 12, 13}
    Amounts = {5}
    TrendWindows = {2, 3}
    MonthsAhead = 2
    Balances <- CashBalances
    MaxChanges = 3
    Today = 12
    HistoryShown = 2
    RowLimit = 2
SYMMETRY IdSymmetry
CHECK_DEADLOCK FALSE
INVARIANTS TypeOK QuietProjectionIsExact CountedOnce
INVARIANTS ReportsAddUp DashboardTellsOneStory MeterMatchesAlert
PROPERTIES RenewalReplacesRate
