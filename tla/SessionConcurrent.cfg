CONSTANTS
    Engines = {e1, e2, e3}
    NoEngine = NoEngine
    Clients = {c1, c2}
    Retries = {r1}
    AutoReconnect = TRUE
    Limited = TRUE
    MaxAttempts = 1
    TeardownMayFail = TRUE
    Reported = {}
    Tracked = {}
    MaxWrites = 1
    MaxStrays = 0
SPECIFICATION Spec
INVARIANT ClosedEngineNotInMap
INVARIANT HonouredEngineHasPolicy
SYMMETRY ClientSymmetry
