SPECIFICATION Spec
CONSTANTS
    Ids = {t1, t2}
    Keys = {k1}
    NoKey = NoKey
    Columns = {c1, c2}
    Values = {v1, v2}
    NoRow = NoRow
    Sessions = {chat, ui}
    UiSessions = {ui}
    MaxBegun = 3
SYMMETRY Symmetry
CHECK_DEADLOCK FALSE
INVARIANT RetriesNeverRaise
