CONSTANTS
    MaxReconnects = 2
    Grace = 1
    Deadline = 2
SPECIFICATION FairSpec
INVARIANT ReadyIsTold
 
PROPERTY KeepsContract
PROPERTY BaileysDropAnswered
PROPERTY EvolutionLossNoticed
PROPERTY EvolutionReattaches
PROPERTY WwebjsLinkingEnds
CHECK_DEADLOCK FALSE
