SPECIFICATION Spec
CONSTANTS
    Ids = {t1}
    Keys = {}
    NoKey = NoKey
    Columns = {c1, c2}
    Values = {v1, v2}
    NoRow = NoRow
    Sessions = {chat, ui1, ui2}
    UiSessions = {ui1, ui2}
    MaxBegun = 4
SYMMETRY Symmetry
CHECK_DEADLOCK FALSE
INVARIANTS LedgerReplaysFromAudit OneHolderWhoGoesOn
PROPERTIES ImplementsAuditedLedger DeletedForEver
