CONSTANTS
    Plugins = {"translation", "auto-reply"}
    Priority <- TranslationFirst
    Calls = {1, 2, 3}
    Runs = {1}
    ScanRows = {1, 2, 3}
    Payload = {2, 3}
    Batch = 2
    NullsFirst = TRUE
    Accounts = {"x", "y"}
    Clients = {"client"}
    Limit = 1
    AdminRequests = {1, 2}
    Agents = {"agent"}
    Views = {"view"}
    MaxMessages = 3
    Participants = {"p", "q"}
    Languages = {"en", "es"}
    Handlers = {1, 2}
    KeyRequests = {1, 2}
    MaxUses = 2
    Sessions = {"s", "t"}
    Chats = {"c", "d"}
    Incoming <- OnlyHome
    MaxSends = 1
    MaxLoads = 2
    PageSessions = {"s", "t", "u"}
    Allowed = {"s", "t"}
    MaxPending = 4
    MaxAttempts = 2
    MaxAsks = 1
SPECIFICATION MCSpec
INVARIANT TypeOK
INVARIANT ChainHolds
INVARIANT DisabledHasNoHook
INVARIANT LimitHeld
 
INVARIANT SettingsStand
INVARIANT UsageExact
INVARIANT RoomShowsItsChat
INVARIANT ShownOnce
INVARIANT PageHears
INVARIANT NeverWaitsInVain
PROPERTY EveryRowTried
CHECK_DEADLOCK FALSE
