SPECIFICATION FairSpec
CONSTANTS
    Ids = {t1, t2}
    Keys = {k1}
    NoKey = NoKey
    Columns = {c1}
    Values = {v1, v2}
    NoRow = NoRow
    Sessions = {chat1, chat2, ui}
    UiSessions = {ui}
    MaxBegun = 3
CHECK_DEADLOCK FALSE
INVARIANTS TypeOK OneRowPerKey OneAnswerPerKey ChatAnswersAreTrue HistoryStartsWithCreate
PROPERTY EverySessionEnds
