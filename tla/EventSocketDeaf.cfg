CONSTANTS
    MaxReconnects = 2
    Grace = 1
    Deadline = 2
SPECIFICATION FairSpec
PROPERTY EvolutionHearsAgain
CHECK_DEADLOCK FALSE
