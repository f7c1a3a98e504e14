SPECIFICATION Spec
CONSTANTS
    Keys = {k1, k2}
    Retention = 1
    MaxDay = 2
    MaxId = 2
    MaxVersion = 2
    MaxRestores = 2
SYMMETRY KeySymmetry
CHECK_DEADLOCK FALSE
INVARIANTS TypeOK RetentionHolds HistoryFitsRows
PROPERTY DrillLeavesLedger
