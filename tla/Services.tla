-------------------------------- MODULE Services --------------------------------
(***************************************************************************)
(* The services beside the message path.  They share no state, so a        *)
(* behaviour is one of one service: `service` picks it, and the variables  *)
(* of the others stand still.                                              *)
(***************************************************************************)
EXTENDS Naturals, FiniteSets

CONSTANTS
    Plugins, Priority, Calls, Runs,           \* PluginHooks
    ScanRows, Payload, Batch, NullsFirst,     \* MessageRetryScan
    Accounts, Clients, Limit, AdminRequests,  \* OmegaSessions
    Agents, Views, MaxMessages,               \* OmegaConversation
    Participants, Languages, Handlers,        \* GroupTranslation
    KeyRequests, MaxUses,                     \* ApiKeyUsage
    Sessions, Chats, Incoming, MaxSends, MaxLoads,   \* ChatRoom
    PageSessions, Allowed, MaxPending, MaxAttempts,  \* EventRooms
    MaxAsks                                   \* WorkspaceInbox

VARIABLES
    service,
    hookStatus, hookCall, hooks, hookRun,         \* PluginHooks
    msgState, msgDue, msgBatch,                   \* MessageRetryScan
    listed, sessionRow, sessionReq, excused,      \* OmegaSessions
    chat, chatRow, chatReq, chatEvents,           \* OmegaConversation
    group, handler, ordered, groupTorn,           \* GroupTranslation
    keyRow, keyPending, keyReq, keyUses, keyTorn, \* ApiKeyUsage
    session, active, ready, bubbles, loading,     \* ChatRoom
    older, source, load, newest, recovery, sending, sends, table, known, events,
    selected, connected, failed, socket, attempts, wire, peer, \* EventRooms
    user, inbox, open, shown, fetching, busy, fetch, ask, posting \* WorkspaceInbox

Hooks == INSTANCE PluginHooks WITH status <- hookStatus, call <- hookCall, run <- hookRun

Scan == INSTANCE MessageRetryScan WITH
    Rows <- ScanRows, state <- msgState, due <- msgDue, batch <- msgBatch

Assignment == INSTANCE OmegaSessions WITH
    Requests <- AdminRequests, row <- sessionRow, req <- sessionReq

Conversation == INSTANCE OmegaConversation WITH
    row <- chatRow, req <- chatReq, events <- chatEvents

Group == INSTANCE GroupTranslation WITH state <- group, torn <- groupTorn

Keys == INSTANCE ApiKeyUsage WITH
    Requests <- KeyRequests,
    row <- keyRow, pending <- keyPending, req <- keyReq, uses <- keyUses, torn <- keyTorn

Page == INSTANCE ChatRoom

Rooms == INSTANCE EventRooms WITH Sessions <- PageSessions, session <- selected

Inbox == INSTANCE WorkspaceInbox WITH
    selected <- open, bubbles <- shown, loading <- fetching, load <- fetch, sending <- posting

\* Nothing in the code depends on how many there are; what stands for nobody and nothing
\* is none of them.
ASSUME ServicesAssumption ==
    /\ Plugins # {} /\ Priority \in [Plugins -> Nat]
    /\ IsFiniteSet(ScanRows) /\ ScanRows \subseteq Nat /\ Batch \in Nat
    /\ Assignment!SessionsAssumption
    /\ MaxMessages \in Nat
    /\ "none" \notin Participants /\ "none" \notin Languages
    /\ IsFiniteSet(KeyRequests) /\ MaxUses \in Nat
    /\ IsFiniteSet(Sessions) /\ IsFiniteSet(Chats) /\ "none" \notin Chats
    /\ MaxSends \in Nat /\ MaxLoads \in Nat
    /\ "none" \notin PageSessions \cup Allowed /\ MaxAttempts \in Nat
    /\ MaxAsks \in Nat

hookVars == <<hookStatus, hookCall, hooks, hookRun>>
scanVars == <<msgState, msgDue, msgBatch>>
sessionVars == <<listed, sessionRow, sessionReq, excused>>
chatVars == <<chat, chatRow, chatReq, chatEvents>>
groupVars == <<group, handler, ordered, groupTorn>>
keyVars == <<keyRow, keyPending, keyReq, keyUses, keyTorn>>
roomVars == <<session, active, ready, bubbles, loading, older, source, load, newest,
              recovery, sending, sends, table, known, events>>
socketVars == <<selected, connected, failed, socket, attempts, wire, peer>>
inboxVars == <<user, inbox, open, shown, fetching, busy, fetch, ask, posting>>
vars == <<service, hookVars, scanVars, sessionVars, chatVars, groupVars, keyVars, roomVars,
          socketVars, inboxVars>>

Init ==
    /\ service \in {"hooks", "scan", "sessions", "conversation", "group", "keys", "page",
                    "rooms", "inbox"}
    /\ Hooks!Init /\ Scan!Init /\ Assignment!Init /\ Conversation!Init /\ Group!Init
    /\ Keys!Init /\ Page!Init /\ Rooms!Init /\ Inbox!Init

Next ==
    /\ UNCHANGED service
    /\ \/ /\ service = "hooks" /\ Hooks!Next
          /\ UNCHANGED <<scanVars, sessionVars, chatVars, groupVars, keyVars, roomVars, socketVars, inboxVars>>
       \/ /\ service = "scan" /\ Scan!Next
          /\ UNCHANGED <<hookVars, sessionVars, chatVars, groupVars, keyVars, roomVars, socketVars, inboxVars>>
       \/ /\ service = "sessions" /\ Assignment!Next
          /\ UNCHANGED <<hookVars, scanVars, chatVars, groupVars, keyVars, roomVars, socketVars, inboxVars>>
       \/ /\ service = "conversation" /\ Conversation!Next
          /\ UNCHANGED <<hookVars, scanVars, sessionVars, groupVars, keyVars, roomVars, socketVars, inboxVars>>
       \/ /\ service = "group" /\ Group!Next
          /\ UNCHANGED <<hookVars, scanVars, sessionVars, chatVars, keyVars, roomVars, socketVars, inboxVars>>
       \/ /\ service = "keys" /\ Keys!Next
          /\ UNCHANGED <<hookVars, scanVars, sessionVars, chatVars, groupVars, roomVars, socketVars, inboxVars>>
       \/ /\ service = "page" /\ Page!Next
          /\ UNCHANGED <<hookVars, scanVars, sessionVars, chatVars, groupVars, keyVars, socketVars, inboxVars>>
       \/ /\ service = "rooms" /\ Rooms!Next
          /\ UNCHANGED <<hookVars, scanVars, sessionVars, chatVars, groupVars, keyVars, roomVars, inboxVars>>
       \/ /\ service = "inbox" /\ Inbox!Next
          /\ UNCHANGED <<hookVars, scanVars, sessionVars, chatVars, groupVars, keyVars, roomVars, socketVars>>

Spec == Init /\ [][Next]_vars

\* The scan's interval; nothing is assumed of the others.
FairSpec == Spec /\ Scan!Fairness

-----------------------------------------------------------------------------
(* Properties, each of one service and stated in its module *)

\* PluginHooks: a message is shown to the handlers registered when it came.
ChainHolds == Hooks!ChainHolds

\* PluginHooks: of a disabled plugin nothing stays registered.
DisabledHasNoHook == Hooks!DisabledHasNoHook

\* MessageRetryScan: no message that can be retried is passed over for ever.
EveryRowTried == Scan!EveryRowTried

\* OmegaSessions: a client has at most the sessions its plan allows.
LimitHeld == Assignment!LimitHeld

\* OmegaConversation: a customer's turn is counted once.
TurnCountedOnce == Conversation!TurnCountedOnce

\* GroupTranslation: what a command has set stays set.
SettingsStand == Group!SettingsStand

\* ApiKeyUsage: the uses of a key are all accounted for.
UsageExact == Keys!UsageExact

\* ChatRoom: a room shows no message of another one.
RoomShowsItsChat == Page!RoomShowsItsChat

\* ChatRoom: a message is shown once.
ShownOnce == Page!ShownOnce

\* EventRooms: the page hears of the session it shows.
PageHears == Rooms!PageHears

\* WorkspaceInbox: neither the polling nor the room waits for a request that nobody answers.
NeverWaitsInVain == Inbox!NeverWaitsInVain

\* The state of every service is typed.
TypeOK ==
    /\ Hooks!TypeOK /\ Scan!TypeOK /\ Assignment!TypeOK /\ Conversation!TypeOK
    /\ Group!TypeOK /\ Keys!TypeOK /\ Page!TypeOK /\ Rooms!TypeOK /\ Inbox!TypeOK

=============================================================================
