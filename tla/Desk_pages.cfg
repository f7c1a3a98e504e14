SPECIFICATION Spec
CONSTANTS
    Users = {ana, ben}
    Agents = {agent}
    TxIds = {t1, t2}
    BudgetIds = {b1}
    Limits = {10, 20}
    NoRow = NoRow
    NoId = NoId
    MaxPosts = 4
SYMMETRY Symmetry
CHECK_DEADLOCK FALSE
INVARIANTS TypeOK GivenValuesSurvive OnlyCorrectionsPassTheDoor EditsNeverDuplicate
