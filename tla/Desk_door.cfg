SPECIFICATION Spec
CONSTANTS
    Users = {ana}
    Agents = {agent}
    TxIds = {t1}
    BudgetIds = {}
    Limits = {10}
    NoRow = NoRow
    NoId = NoId
    MaxPosts = 2
CHECK_DEADLOCK FALSE
INVARIANT LedgerFitsTheDoor
