CONSTANTS
    Newest = 2
    Outgoing = {2}
    Changed = {1}
    Reactors = {r1}
    MaxJobs = 2
    MaxOthers = 1
SPECIFICATION FairSpec
INVARIANT OneJobAtATime
INVARIANT LiveNeverClashes
 
INVARIANT RowAgrees
PROPERTY QueueDrains
CHECK_DEADLOCK FALSE
