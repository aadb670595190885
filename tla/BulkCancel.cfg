CONSTANTS
    Cancellers = {c1, c2}
    Total = 5
    SaveEvery = 2
    MaxCrashes = 1
SPECIFICATION FairSpec
INVARIANT CountersAddUp
INVARIANT SettledHasNoPending
INVARIANT RecordsSends
 
CHECK_DEADLOCK FALSE
