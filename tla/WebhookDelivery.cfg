CONSTANTS
    Webhooks = {w1, w2}
    NoWebhook = NoWebhook
    Budgets = {0, 2}
    MaxStalls = 1
    MaxCrashes = 2
SPECIFICATION FairSpec
INVARIANT PostsWithinBudget
INVARIANT OneVerdict
PROPERTY VerdictIsLast
PROPERTY EveryoneServed
PROPERTY JobAnswered
CHECK_DEADLOCK FALSE
