CONSTANTS
    Engines = {e1, e2, e3}
    NoEngine = NoEngine
    Clients = {c1}
    Retries = {r1}
    AutoReconnect = TRUE
    Limited = FALSE
    MaxAttempts = 1
    TeardownMayFail = FALSE
    Reported = {"pairing"}
    Tracked = {"pairing", "ready"}
    MaxWrites = 1
    MaxStrays = 1
SPECIFICATION Spec
CHECK_DEADLOCK FALSE
INVARIANT StopLeavesNoEngine
