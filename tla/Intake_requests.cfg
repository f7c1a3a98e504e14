SPECIFICATION FairSpec
CONSTANTS
    Intents = {i1}
    Slots = {s1, s2}
    Amounts = {4, 25}
    Currencies = {"USD", "COP"}
    Rate = 9
    RateUnit = 4
    MaxSlips = 2
    MaxFailures = 1
CHECK_DEADLOCK FALSE
INVARIANTS TypeOK RecordedOnce  RecordedAsMeant
 
