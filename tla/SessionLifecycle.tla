-------------------------- MODULE SessionLifecycle --------------------------
(***************************************************************************)
(* The life of one session in SessionService: which engine object the      *)
(* `engines` map holds, the `stoppingSessions` mark, the reconnect policy  *)
(* with its timer, the persisted status, and the asynchronous operations   *)
(* (start, stop, delete, executeReconnect) that interleave at each await.  *)
(* Every map of the service is keyed by session id and every operation     *)
(* touches one id, so one session is modelled.  Each step is the code that *)
(* runs between two awaits.                                                *)
(***************************************************************************)
EXTENDS Naturals, FiniteSets

CONSTANTS
    Engines,         \* identities of engine objects
    NoEngine,        \* "engines.get(id) === undefined"
    Clients,         \* callers of start / stop / delete; each has one call at a time
    Retries,         \* slots for executeReconnect runs in flight
    AutoReconnect,   \* session.config.autoReconnect !== false
    Limited,         \* is maxReconnectAttempts a positive number
    MaxAttempts,     \* that number; unused when retries are unlimited
    TeardownMayFail, \* may engine.disconnect() / engine.destroy() reject
    Reported,        \* statuses engines report through onQRCode and onStateChanged
    Tracked,         \* statuses whose persistence the instance follows
    MaxWrites,       \* bound: status updates in flight, each of another kind
    MaxStrays        \* bound: armed timers of replaced policies

ASSUME NoEngineAssumption == NoEngine \notin Engines
ASSUME OpsAssumption == Clients \cap Retries = {}
ASSUME FlagsAssumption ==
    /\ AutoReconnect \in BOOLEAN
    /\ Limited \in BOOLEAN
    /\ TeardownMayFail \in BOOLEAN
ASSUME TrackedAssumption ==
    Tracked \subseteq {"initializing", "pairing", "ready", "disconnected", "failed"}
ASSUME ReportedAssumption == Reported \subseteq Tracked \ {"failed"}
ASSUME BoundsAssumption ==
    /\ MaxAttempts \in Nat
    /\ MaxWrites \in Nat \ {0}
    /\ MaxStrays \in Nat

VARIABLES
    process,   \* "up", "draining" and "drained" (in and after onModuleDestroy) or "down"
    doomed,    \* the engine onModuleDestroy is destroying
    life,      \* life of each engine object
    current,   \* engines.get(id)
    stopping,  \* stoppingSessions.has(id)
    policy,    \* reconnectStates.get(id)
    strays,    \* armed timers whose policy start() has replaced in the map
    op,        \* the operation each client or retry slot is awaiting in
    row,       \* persisted session status, or "absent" once the row is removed
    writes     \* fire-and-forget status updates that have not landed yet

vars == <<process, doomed, life, current, stopping, policy, strays, op, row, writes>>

Ops == Clients \cup Retries

\* qr_ready and authenticating are one status here: both are on the way to ready.
Status == {"created", "initializing", "pairing", "ready", "disconnected", "failed"}
ActiveStatus == {"initializing", "pairing", "ready"}

\* none: not constructed; built: factory.create returned; live: initialize was
\* called with the callbacks; lost: the engine reported a disconnect or an
\* error; closed: disconnect() or destroy() resolved.
Life == {"none", "built", "live", "lost", "closed"}
Talking == {"live", "lost"}

NoPolicy == [on |-> FALSE, armed |-> FALSE, attempts |-> 0]
FreshPolicy == [on |-> TRUE, armed |-> FALSE, attempts |-> 0]
Policies == [on : BOOLEAN, armed : BOOLEAN, attempts : 0..MaxAttempts]

Kinds == {"none", "start", "stop", "delete", "reconnect"}
\* The await an operation is suspended in.
Awaits == {"idle", "hook", "marking", "initializing", "closing", "undoing",
           "cleanup", "writing", "removing"}
Operations == [kind : Kinds, at : Awaits, eng : Engines \cup {NoEngine}]
IdleOp == [kind |-> "none", at |-> "idle", eng |-> NoEngine]

TypeOK ==
    /\ process \in {"up", "draining", "drained", "down"}
    /\ doomed \in Engines \cup {NoEngine}
    /\ life \in [Engines -> Life]
    /\ current \in Engines \cup {NoEngine}
    /\ stopping \in BOOLEAN
    /\ policy \in Policies
    /\ strays \in 0..MaxStrays
    /\ op \in [Ops -> Operations]
    /\ row \in Status \cup {"absent"}
    /\ writes \subseteq Status

-----------------------------------------------------------------------------
(* Helpers *)

Running == process # "down"

\* isCurrentEngine: the guard of every engine callback.
IsCurrent(e) == ~stopping /\ current = e

\* An object identity that a fresh engine may take: nothing refers to it any more.
Unreferenced(e) == e # current /\ e # doomed /\ \A o \in Ops : op[o].eng # e

FreshEngine == CHOOSE e \in Engines : Unreferenced(e)

Suspend(o, kind, await, e) ==
    op' = [op EXCEPT ![o] = [kind |-> kind, at |-> await, eng |-> e]]

Return(o) == op' = [op EXCEPT ![o] = IdleOp]

\* UPDATE sessions SET status WHERE id: affects no row once the session is deleted.
Persist(s) == row' = IF row = "absent" \/ s \notin Tracked THEN row ELSE s

Issue(ws, s) == ws \cup ({s} \cap Tracked)

Room(ws, s) == s \in Tracked => s \notin ws /\ Cardinality(ws) < MaxWrites

\* Constructing an engine replaces whatever the map held.  `gone` is the engine
\* the same step has just torn down, NoEngine if none.
Register(o, kind, gone) ==
    /\ \E e \in Engines : Unreferenced(e)
    /\ life' = [x \in Engines |-> IF x = FreshEngine THEN "built"
                                  ELSE IF x = gone THEN "closed" ELSE life[x]]
    /\ current' = FreshEngine
    /\ Suspend(o, kind, "marking", FreshEngine)

\* The early returns of scheduleReconnect.
WillSchedule ==
    policy.on /\ AutoReconnect /\ ~policy.armed /\ ~stopping

RetriesExhausted == Limited /\ policy.attempts >= MaxAttempts

\* scheduleReconnect: nothing, or the terminal FAILED write, or an armed timer.
\* ws are the status updates the caller has issued before it.  An unlimited
\* attempts counter only feeds the capped backoff exponent, so it is not kept.
ScheduleReconnect(ws) ==
    \/ /\ ~WillSchedule
       /\ writes' = ws
       /\ UNCHANGED policy
    \/ /\ WillSchedule
       /\ RetriesExhausted
       /\ Room(ws, "failed")
       /\ writes' = Issue(ws, "failed")
       /\ UNCHANGED policy
    \/ /\ WillSchedule
       /\ ~RetriesExhausted
       /\ policy' = [policy EXCEPT !.armed = TRUE,
                                   !.attempts = IF Limited THEN @ + 1 ELSE @]
       /\ writes' = ws

-----------------------------------------------------------------------------
(* start *)

\* findOne resolves to a row, the map is empty: the stop mark is dropped and
\* the session:starting hook is awaited.  Otherwise start throws and changes nothing.
StartBegins(c) ==
    /\ Running
    /\ op[c] = IdleOp
    /\ row # "absent"
    /\ current = NoEngine
    /\ stopping' = FALSE
    /\ Suspend(c, "start", "hook", NoEngine)
    /\ UNCHANGED <<process, doomed, life, current, policy, strays, row, writes>>

\* The hook has run: a new policy object replaces the old one, whose armed timer
\* (if any) is neither cleared nor reachable from now on; then initializeEngine.
StartRegisters(c) ==
    /\ Running
    /\ op[c].kind = "start" /\ op[c].at = "hook"
    /\ policy' = FreshPolicy
    /\ strays' = IF policy.armed /\ strays < MaxStrays THEN strays + 1 ELSE strays
    /\ Register(c, "start", NoEngine)
    /\ UNCHANGED <<process, doomed, stopping, row, writes>>

-----------------------------------------------------------------------------
(* initializeEngine, shared by start and executeReconnect *)

\* updateStatus(INITIALIZING) has landed; engine.initialize(callbacks) is called,
\* also on an engine that a stop has closed in the meantime.
MarkInitializing(o) ==
    /\ Running
    /\ op[o].at = "marking"
    /\ Persist("initializing")
    /\ life' = [life EXCEPT ![op[o].eng] = "live"]
    /\ Suspend(o, op[o].kind, "initializing", op[o].eng)
    /\ UNCHANGED <<process, doomed, current, stopping, policy, strays, writes>>

\* Mutant: no second look at the stop mark.
InitializeSucceeds_NoRecheck(o) ==
    /\ Running
    /\ op[o].at = "initializing"
    /\ Return(o)
    /\ UNCHANGED <<process, doomed, life, current, stopping, policy, strays, row, writes>>

\* engine.initialize() resolves.  start returns; executeReconnect looks at the
\* stop mark once more and tears down whatever the map holds by now.
InitializeSucceeds(o) ==
    /\ Running
    /\ op[o].at = "initializing"
    /\ IF op[o].kind = "reconnect" /\ stopping /\ current # NoEngine
         THEN Suspend(o, "reconnect", "undoing", current)
         ELSE Return(o)
    /\ UNCHANGED <<process, doomed, life, current, stopping, policy, strays, row, writes>>

\* Mutant: the entry is deleted only after the destruction, if at all.
CleanUp_KeepsEntry(o) ==
    /\ Suspend(o, op[o].kind, "cleanup", current)
    /\ UNCHANGED <<process, doomed, life, current, stopping, policy, strays, row, writes>>

\* cleanupFailedEngine: take the map's engine out before awaiting its destruction.
CleanUp(o) ==
    /\ current' = NoEngine
    /\ Suspend(o, op[o].kind, "cleanup", current)
    /\ UNCHANGED <<process, doomed, life, stopping, policy, strays, row, writes>>

\* The status update or engine.initialize() rejects.
InitializeFails(o) ==
    /\ Running
    /\ op[o].at \in {"marking", "initializing"}
    /\ CleanUp(o)

\* destroyEngineSafely settles: the engine is closed, or its destroy() failed or
\* outlived the 10 s race and the engine is abandoned as it is.  start rethrows;
\* executeReconnect schedules the next attempt.
CleanupSettles(o) ==
    /\ Running
    /\ op[o].at = "cleanup"
    /\ \/ life' = [x \in Engines |-> IF x = op[o].eng THEN "closed" ELSE life[x]]
       \/ TeardownMayFail /\ UNCHANGED life
    /\ Return(o)
    /\ IF op[o].kind = "reconnect"
         THEN ScheduleReconnect(writes)
         ELSE UNCHANGED <<policy, writes>>
    /\ UNCHANGED <<process, doomed, current, stopping, strays, row>>

-----------------------------------------------------------------------------
(* executeReconnect *)

\* Mutant: an engine still in the map is taken for a running one.
ExecuteReconnect_OnlyIfEmpty(r) ==
    IF stopping \/ current # NoEngine
      THEN UNCHANGED <<op, life, current>>
      ELSE Register(r, "reconnect", NoEngine)

\* executeReconnect up to its first await; its caller is the timer callback of the
\* policy in the map or of a replaced one.
ExecuteReconnect(r) ==
    IF stopping
      THEN UNCHANGED <<op, life, current>>
    ELSE IF current # NoEngine
      THEN Suspend(r, "reconnect", "closing", current) /\ UNCHANGED <<life, current>>
      ELSE Register(r, "reconnect", NoEngine)

TimerFires(r) ==
    /\ Running
    /\ op[r] = IdleOp
    /\ policy.armed
    /\ policy' = [policy EXCEPT !.armed = FALSE]
    /\ ExecuteReconnect(r)
    /\ UNCHANGED <<process, doomed, stopping, strays, row, writes>>

StrayTimerFires(r) ==
    /\ Running
    /\ op[r] = IdleOp
    /\ strays > 0
    /\ strays' = strays - 1
    /\ ExecuteReconnect(r)
    /\ UNCHANGED <<process, doomed, stopping, policy, row, writes>>

\* oldEngine.destroy() resolves: engines.delete(id) and initializeEngine, at once.
ReconnectReplaces(r) ==
    /\ Running
    /\ op[r].kind = "reconnect" /\ op[r].at = "closing"
    /\ Register(r, "reconnect", op[r].eng)
    /\ UNCHANGED <<process, doomed, stopping, policy, strays, row, writes>>

\* The stop mark was seen after the initialization: the engine found in the map
\* is destroyed and the entry of this session deleted.
ReconnectUndone(r) ==
    /\ Running
    /\ op[r].at = "undoing"
    /\ life' = [life EXCEPT ![op[r].eng] = "closed"]
    /\ current' = NoEngine
    /\ Return(r)
    /\ UNCHANGED <<process, doomed, stopping, policy, strays, row, writes>>

\* Either destroy() rejects: the catch block cleans up.
ReconnectTeardownFails(r) ==
    /\ Running
    /\ TeardownMayFail
    /\ op[r].kind = "reconnect" /\ op[r].at \in {"closing", "undoing"}
    /\ CleanUp(r)

-----------------------------------------------------------------------------
(* stop and delete *)

\* Mutant: the retry is called off but the session is not marked.
TeardownBegins_NoMark(c, kind, next) ==
    /\ Running
    /\ op[c] = IdleOp
    /\ row # "absent"
    /\ policy' = NoPolicy
    /\ Suspend(c, kind, IF current = NoEngine THEN next ELSE "closing", current)
    /\ UNCHANGED <<process, doomed, life, current, stopping, strays, row, writes>>

\* Up to the first await: mark, cancelReconnect, and the engine the map holds.
TeardownBegins(c, kind, next) ==
    /\ Running
    /\ op[c] = IdleOp
    /\ row # "absent"
    /\ stopping' = TRUE
    /\ policy' = NoPolicy
    /\ Suspend(c, kind, IF current = NoEngine THEN next ELSE "closing", current)
    /\ UNCHANGED <<process, doomed, life, current, strays, row, writes>>

StopBegins(c) == TeardownBegins(c, "stop", "writing")
DeleteBegins(c) == TeardownBegins(c, "delete", "removing")

\* disconnect() (stop) or destroy() (delete) resolves: the entry of this session
\* is deleted, whichever engine it holds by now.
TeardownCloses(c) ==
    /\ Running
    /\ op[c].kind \in {"stop", "delete"} /\ op[c].at = "closing"
    /\ life' = [life EXCEPT ![op[c].eng] = "closed"]
    /\ current' = NoEngine
    /\ Suspend(c, op[c].kind, IF op[c].kind = "stop" THEN "writing" ELSE "removing", NoEngine)
    /\ UNCHANGED <<process, doomed, stopping, policy, strays, row, writes>>

\* It rejects: stop or delete throws and leaves map and mark as they are.
TeardownFails(c) ==
    /\ Running
    /\ TeardownMayFail
    /\ op[c].kind \in {"stop", "delete"} /\ op[c].at = "closing"
    /\ Return(c)
    /\ UNCHANGED <<process, doomed, life, current, stopping, policy, strays, row, writes>>

StopReturns(c) ==
    /\ Running
    /\ op[c].at = "writing"
    /\ Persist("disconnected")
    /\ Return(c)
    /\ UNCHANGED <<process, doomed, life, current, stopping, policy, strays, writes>>

DeleteReturns(c) ==
    /\ Running
    /\ op[c].at = "removing"
    /\ row' = "absent"
    /\ Return(c)
    /\ UNCHANGED <<process, doomed, life, current, stopping, policy, strays, writes>>

-----------------------------------------------------------------------------
(* Engine callbacks: all muted unless the engine is the current one *)

\* onQRCode, and onStateChanged for every engine status but FAILED.
EngineReportsStatus(e, s) ==
    /\ Running
    /\ life[e] \in Talking
    /\ IsCurrent(e)
    /\ Room(writes, s)
    /\ writes' = Issue(writes, s)
    /\ UNCHANGED <<process, doomed, life, current, stopping, policy, strays, op, row>>

\* onReady: the pending retry is called off and the attempts start over.
EngineReady(e) ==
    /\ Running
    /\ life[e] \in Talking
    /\ IsCurrent(e)
    /\ Room(writes, "ready")
    /\ life' = [life EXCEPT ![e] = "live"]
    /\ policy' = [policy EXCEPT !.armed = FALSE, !.attempts = 0]
    /\ writes' = Issue(writes, "ready")
    /\ UNCHANGED <<process, doomed, current, stopping, strays, op, row>>

\* onDisconnected, and onError for a recoverable reason.
EngineLost(e) ==
    /\ Running
    /\ life[e] \in Talking
    /\ IsCurrent(e)
    /\ Room(writes, "disconnected")
    /\ life' = [life EXCEPT ![e] = "lost"]
    /\ ScheduleReconnect(Issue(writes, "disconnected"))
    /\ UNCHANGED <<process, doomed, current, stopping, strays, op, row>>

\* onError for a terminal authentication error: no retry.
EngineAuthFails(e) ==
    /\ Running
    /\ life[e] \in Talking
    /\ IsCurrent(e)
    /\ Room(writes, "failed")
    /\ writes' = Issue(writes, "failed")
    /\ UNCHANGED <<process, doomed, life, current, stopping, policy, strays, op, row>>

\* A fire-and-forget update lands; nothing orders it against the other updates.
StatusLands(s) ==
    /\ s \in writes
    /\ writes' = writes \ {s}
    /\ Persist(s)
    /\ UNCHANGED <<process, doomed, life, current, stopping, policy, strays, op>>

-----------------------------------------------------------------------------
(* The process: shutdown, crash, restart *)

\* onModuleDestroy clears the timers of the policies in the map, then awaits the
\* destruction of the engines the map holds at that moment ...
ShutdownBegins ==
    /\ process = "up"
    /\ process' = "draining"
    /\ policy' = NoPolicy
    /\ doomed' = current
    /\ UNCHANGED <<life, current, stopping, strays, op, row, writes>>

\* ... each of which settles or is given up after 10 s ...
ShutdownDestroys ==
    /\ process = "draining"
    /\ doomed # NoEngine
    /\ \/ life' = [life EXCEPT ![doomed] = "closed"]
       \/ TeardownMayFail /\ UNCHANGED life
    /\ doomed' = NoEngine
    /\ UNCHANGED <<process, current, stopping, policy, strays, op, row, writes>>

\* ... and empties the map.
ShutdownClears ==
    /\ process = "draining"
    /\ doomed = NoEngine
    /\ process' = "drained"
    /\ current' = NoEngine
    /\ UNCHANGED <<doomed, life, stopping, policy, strays, op, row, writes>>

\* The process ends, orderly or by a crash: its memory and its engines are gone.
\* Updates still in flight are lost, or have landed before.
ProcessEnds ==
    /\ Running
    /\ process' = "down"
    /\ doomed' = NoEngine
    /\ life' = [e \in Engines |-> "none"]
    /\ current' = NoEngine
    /\ stopping' = FALSE
    /\ policy' = NoPolicy
    /\ strays' = 0
    /\ op' = [o \in Ops |-> IdleOp]
    /\ writes' = {}
    /\ UNCHANGED row

\* onModuleInit: no engine runs yet, so no row may claim one.  AUTO_START_SESSIONS
\* adds calls of start, which StartBegins covers.
Boot ==
    /\ process = "down"
    /\ process' = "up"
    /\ row' = IF row \in ActiveStatus THEN "disconnected" ELSE row
    /\ UNCHANGED <<doomed, life, current, stopping, policy, strays, op, writes>>

Init ==
    /\ process = "up"
    /\ doomed = NoEngine
    /\ life = [e \in Engines |-> "none"]
    /\ current = NoEngine
    /\ stopping = FALSE
    /\ policy = NoPolicy
    /\ strays = 0
    /\ op = [o \in Ops |-> IdleOp]
    /\ row = "created"
    /\ writes = {}

ClientStep(c) ==
    \/ StartBegins(c) \/ StartRegisters(c)
    \/ StopBegins(c) \/ DeleteBegins(c)
    \/ TeardownCloses(c) \/ TeardownFails(c)
    \/ StopReturns(c) \/ DeleteReturns(c)

RetryStep(r) ==
    \/ TimerFires(r) \/ StrayTimerFires(r)
    \/ ReconnectReplaces(r) \/ ReconnectUndone(r) \/ ReconnectTeardownFails(r)

InitializeStep(o) ==
    \/ MarkInitializing(o)
    \/ InitializeSucceeds(o) \/ InitializeFails(o) \/ CleanupSettles(o)

EngineStep(e) ==
    \/ \E s \in Reported : EngineReportsStatus(e, s)
    \/ EngineReady(e) \/ EngineLost(e) \/ EngineAuthFails(e)

ServiceStep ==
    \/ \E c \in Clients : ClientStep(c)
    \/ \E r \in Retries : RetryStep(r)
    \/ \E o \in Ops : InitializeStep(o)
    \/ \E e \in Engines : EngineStep(e)
    \/ \E s \in Status : StatusLands(s)

ProcessStep == ShutdownBegins \/ ShutdownDestroys \/ ShutdownClears \/ ProcessEnds \/ Boot

Next == ServiceStep \/ ProcessStep

Spec == Init /\ [][Next]_vars

\* What the code's scheduling guarantees: a promise an operation awaits settles,
\* an armed timer fires, an update lands.  Callers and engines owe nothing.
Settles(o) ==
    \/ InitializeStep(o)
    \/ o \in Clients /\ \/ StartRegisters(o) \/ TeardownCloses(o) \/ TeardownFails(o)
                        \/ StopReturns(o) \/ DeleteReturns(o)
    \/ o \in Retries /\ \/ ReconnectReplaces(o) \/ ReconnectUndone(o)
                        \/ ReconnectTeardownFails(o)

Fairness ==
    /\ \A o \in Ops : WF_vars(Settles(o))
    /\ WF_vars(\E r \in Retries : TimerFires(r) \/ StrayTimerFires(r))
    /\ \A s \in Status : WF_vars(StatusLands(s))

\* The liveness claim is about a process that stays up: one that ends restarts
\* from the same state as Init, with another row.
UpSpec == Init /\ [][ServiceStep]_vars /\ Fairness

-----------------------------------------------------------------------------
(* Properties *)

\* The map never hands out an engine that an operation has already torn down,
\* although stop, delete and executeReconnect may each be closing an engine
\* while another of them registers the next one.  (During shutdown the map is
\* emptied only after the engines are destroyed.)
ClosedEngineNotInMap ==
    process = "up" /\ current # NoEngine => life[current] # "closed"

\* An engine whose callbacks are honoured never runs without a reconnect policy,
\* so no disconnect is dropped for want of one -- except while a start() that
\* overtook a stop() is still in its session:starting hook.
StartInHook == \E c \in Clients : op[c].kind = "start" /\ op[c].at = "hook"

HonouredEngineHasPolicy ==
    process = "up" /\ current # NoEngine /\ ~stopping => policy.on \/ StartInHook

Quiet == process = "up" /\ \A o \in Ops : op[o] = IdleOp

\* stop() and delete() against an in-flight executeReconnect: when everything
\* awaited has settled and the stop mark still stands, the map holds no engine.
\* Holds for callers that await one call before the next.
StoppedIsDown == Quiet /\ stopping => current = NoEngine

\* "tears down an engine created when a stop lands during init": once everything
\* has settled, a stopped session has left no engine running outside the map either.
StopLeavesNoEngine ==
    Quiet /\ stopping => \A e \in Engines : life[e] \in {"none", "closed"}

\* A lost connection of a running session with unlimited retries is answered:
\* the engine recovers, is replaced or taken out, or the session is stopped.
LossAnswered ==
    \A e \in Engines :
        (current = e /\ life[e] = "lost" /\ ~stopping)
            ~> (current # e \/ life[e] # "lost" \/ stopping)
=============================================================================
