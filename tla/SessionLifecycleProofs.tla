----------------------- MODULE SessionLifecycleProofs -----------------------
(***************************************************************************)
(* Safety of one session's life cycle, for any number of engines, callers  *)
(* and reconnects in flight: the type invariant, and the three invariants  *)
(* the runs check, from one inductive invariant and, for a stop, a second. *)
(***************************************************************************)
EXTENDS SessionLifecycle, TLAPS

\* An engine that cleanupFailedEngine is destroying is no longer in the map.
DetachedBeforeCleanup ==
    process = "up" =>
        \A o \in Ops : op[o].at = "cleanup" /\ op[o].eng # NoEngine => op[o].eng # current

\* Only a policy that is installed has a timer.
ArmedIsOn == policy.armed => policy.on

\* Nothing can put an engine into the map.
Dormant ==
    /\ current = NoEngine
    /\ strays = 0
    /\ \A o \in Ops : ~(op[o].kind = "reconnect" /\ op[o].at = "closing")

\* A process that is down has kept nothing.
DownIsDormant == process = "down" => Dormant /\ policy = NoPolicy

\* Without a stop mark and without a policy the session was never started since
\* the last boot, or a start is about to install the policy.
UnmanagedIsDormant ==
    process = "up" /\ ~stopping /\ ~policy.on => StartInHook \/ Dormant

IInv ==
    /\ TypeOK
    /\ ClosedEngineNotInMap
    /\ DetachedBeforeCleanup
    /\ ArmedIsOn
    /\ DownIsDormant
    /\ UnmanagedIsDormant

-----------------------------------------------------------------------------
(* What the helpers do *)

\* The identity Register takes is an engine nothing refers to.
LEMMA FreshEngineIsUnreferenced ==
    ASSUME \E e \in Engines : Unreferenced(e)
    PROVE  FreshEngine \in Engines /\ Unreferenced(FreshEngine)
  BY DEF FreshEngine

\* Constructing an engine keeps the types.
LEMMA RegisterType ==
    ASSUME TypeOK, NEW o \in Ops, NEW kind \in Kinds,
           NEW gone \in Engines \cup {NoEngine}, Register(o, kind, gone)
    PROVE  /\ life' \in [Engines -> Life]
           /\ current' \in Engines \cup {NoEngine}
           /\ op' \in [Ops -> Operations]
  <1>1. FreshEngine \in Engines
    BY FreshEngineIsUnreferenced DEF Register
  <1>2. QED
    BY <1>1 DEF Register, Suspend, TypeOK, Life, Operations, Awaits

\* scheduleReconnect keeps the types: the retry counter stays within the limit.
LEMMA ScheduleReconnectType ==
    ASSUME TypeOK, NEW ws \in SUBSET Status, ScheduleReconnect(ws)
    PROVE  policy' \in Policies /\ writes' \subseteq Status
  <1>1. CASE ~WillSchedule
    BY <1>1 DEF ScheduleReconnect, TypeOK
  <1>2. CASE WillSchedule /\ RetriesExhausted
    BY <1>2 DEF ScheduleReconnect, TypeOK, Issue, Status
  <1>3. CASE WillSchedule /\ ~RetriesExhausted
    <2>1. IF Limited THEN policy.attempts + 1 \in 0..MaxAttempts ELSE policy.attempts \in 0..MaxAttempts
      BY <1>3, BoundsAssumption DEF RetriesExhausted, TypeOK, Policies
    <2>2. QED
      BY <1>3, <2>1 DEF ScheduleReconnect, TypeOK, Policies
  <1>4. QED
    BY <1>1, <1>2, <1>3

\* scheduleReconnect arms only a policy that is installed and installs none.
LEMMA ScheduleReconnectPolicy ==
    ASSUME TypeOK, NEW ws, ScheduleReconnect(ws)
    PROVE  policy'.on = policy.on /\ (policy'.armed => policy.armed \/ policy.on)
  BY DEF ScheduleReconnect, WillSchedule, TypeOK, Policies

-----------------------------------------------------------------------------
(* Type correctness *)

\* No policy is a value of the policy type.
LEMMA NoPolicyType == NoPolicy \in Policies
  BY BoundsAssumption DEF NoPolicy, Policies

\* onReady leaves a policy: the one it found, disarmed and with no attempt counted.
LEMMA ResetPolicyType ==
    ASSUME NEW p \in Policies
    PROVE  [p EXCEPT !.armed = FALSE, !.attempts = 0] \in Policies
  <1>1. 0 \in 0..MaxAttempts
    BY BoundsAssumption
  <1>2. QED
    BY <1>1 DEF Policies

\* The service starts in a well-typed state.
LEMMA InitType == Init => TypeOK
  <1> SUFFICES ASSUME Init PROVE TypeOK
    OBVIOUS
  <1>1. op \in [Ops -> Operations]
    BY DEF Init, IdleOp, Operations, Kinds, Awaits
  <1>2. policy \in Policies /\ strays \in 0..MaxStrays
    BY NoPolicyType, BoundsAssumption DEF Init
  <1>3. QED
    BY <1>1, <1>2 DEF Init, TypeOK, Life, Status

\* A step of start, stop or delete keeps the types.
LEMMA ClientStepType ==
    ASSUME TypeOK, NEW c \in Clients, ClientStep(c)
    PROVE  TypeOK'
  <1> c \in Ops
    BY DEF Ops
  <1>1. CASE StartBegins(c)
    BY <1>1 DEF StartBegins, TypeOK, Suspend, Operations, Kinds, Awaits
  <1>2. CASE StartRegisters(c)
    <2>1. /\ life' \in [Engines -> Life]
          /\ current' \in Engines \cup {NoEngine}
          /\ op' \in [Ops -> Operations]
      BY <1>2, RegisterType DEF StartRegisters, Kinds
    <2>2. policy' \in Policies /\ strays' \in 0..MaxStrays
      BY <1>2, BoundsAssumption DEF StartRegisters, TypeOK, FreshPolicy, Policies
    <2>3. QED
      BY <1>2, <2>1, <2>2 DEF StartRegisters, TypeOK
  <1>3. CASE StopBegins(c) \/ DeleteBegins(c)
    <2>1. policy' \in Policies
      BY <1>3, NoPolicyType DEF StopBegins, DeleteBegins, TeardownBegins
    <2>2. op' \in [Ops -> Operations]
      BY <1>3 DEF StopBegins, DeleteBegins, TeardownBegins, TypeOK, Suspend, Operations, Kinds, Awaits
    <2>3. QED
      BY <1>3, <2>1, <2>2 DEF StopBegins, DeleteBegins, TeardownBegins, TypeOK
  <1>4. CASE TeardownCloses(c)
    BY <1>4 DEF TeardownCloses, TypeOK, Suspend, Operations, Kinds, Awaits, Life
  <1>5. CASE TeardownFails(c)
    BY <1>5 DEF TeardownFails, TypeOK, Return, IdleOp, Operations, Kinds, Awaits
  <1>6. CASE StopReturns(c)
    BY <1>6 DEF StopReturns, TypeOK, Return, IdleOp, Operations, Kinds, Awaits, Persist, Status
  <1>7. CASE DeleteReturns(c)
    BY <1>7 DEF DeleteReturns, TypeOK, Return, IdleOp, Operations, Kinds, Awaits
  <1>8. QED
    BY <1>1, <1>2, <1>3, <1>4, <1>5, <1>6, <1>7 DEF ClientStep

\* executeReconnect up to its first await.
LEMMA ExecuteReconnectType ==
    ASSUME TypeOK, NEW r \in Ops, ExecuteReconnect(r)
    PROVE  /\ life' \in [Engines -> Life]
           /\ current' \in Engines \cup {NoEngine}
           /\ op' \in [Ops -> Operations]
  <1>1. CASE stopping
    BY <1>1 DEF ExecuteReconnect, TypeOK
  <1>2. CASE ~stopping /\ current # NoEngine
    BY <1>2 DEF ExecuteReconnect, TypeOK, Suspend, Operations, Kinds, Awaits
  <1>3. CASE ~stopping /\ current = NoEngine
    BY <1>3, RegisterType DEF ExecuteReconnect, Kinds
  <1>4. QED
    BY <1>1, <1>2, <1>3

\* A step of executeReconnect, or the timer that begins it, keeps the types.
LEMMA RetryStepType ==
    ASSUME TypeOK, NEW r \in Retries, RetryStep(r)
    PROVE  TypeOK'
  <1> r \in Ops
    BY DEF Ops
  <1>1. CASE TimerFires(r)
    BY <1>1, ExecuteReconnectType DEF TimerFires, TypeOK, Policies
  <1>2. CASE StrayTimerFires(r)
    <2>1. strays' \in 0..MaxStrays
      BY <1>2, BoundsAssumption DEF StrayTimerFires, TypeOK
    <2>2. QED
      BY <1>2, <2>1, ExecuteReconnectType DEF StrayTimerFires, TypeOK
  <1>3. CASE ReconnectReplaces(r)
    <2>1. op[r].eng \in Engines \cup {NoEngine}
      BY DEF TypeOK, Operations
    <2>2. QED
      BY <1>3, <2>1, RegisterType DEF ReconnectReplaces, TypeOK, Kinds
  <1>4. CASE ReconnectUndone(r)
    BY <1>4 DEF ReconnectUndone, TypeOK, Return, IdleOp, Operations, Kinds, Awaits, Life
  <1>5. CASE ReconnectTeardownFails(r)
    BY <1>5 DEF ReconnectTeardownFails, CleanUp, TypeOK, Suspend, Operations, Kinds, Awaits
  <1>6. QED
    BY <1>1, <1>2, <1>3, <1>4, <1>5 DEF RetryStep

\* A step of initializeEngine or of cleanupFailedEngine keeps the types.
LEMMA InitializeStepType ==
    ASSUME TypeOK, NEW o \in Ops, InitializeStep(o)
    PROVE  TypeOK'
  <1>1. CASE MarkInitializing(o)
    BY <1>1 DEF MarkInitializing, TypeOK, Persist, Suspend, Operations, Kinds, Awaits, Life, Status
  <1>2. CASE InitializeSucceeds(o)
    BY <1>2 DEF InitializeSucceeds, TypeOK, Suspend, Return, IdleOp, Operations, Kinds, Awaits
  <1>3. CASE InitializeFails(o)
    BY <1>3 DEF InitializeFails, CleanUp, TypeOK, Suspend, Operations, Kinds, Awaits
  <1>4. CASE CleanupSettles(o)
    <2>1. life' \in [Engines -> Life] /\ op' \in [Ops -> Operations]
      BY <1>4 DEF CleanupSettles, TypeOK, Life, Return, IdleOp, Operations, Kinds, Awaits
    <2>2. policy' \in Policies /\ writes' \subseteq Status
      BY <1>4, ScheduleReconnectType DEF CleanupSettles, TypeOK
    <2>3. QED
      BY <1>4, <2>1, <2>2 DEF CleanupSettles, TypeOK
  <1>5. QED
    BY <1>1, <1>2, <1>3, <1>4 DEF InitializeStep

\* An engine callback keeps the types.
LEMMA EngineStepType ==
    ASSUME TypeOK, NEW e \in Engines, EngineStep(e)
    PROVE  TypeOK'
  <1>1. CASE \E s \in Reported : EngineReportsStatus(e, s)
    BY <1>1, ReportedAssumption, TrackedAssumption DEF EngineReportsStatus, TypeOK, Issue, Status
  <1>2. CASE EngineReady(e)
    <2>1. policy' \in Policies
      BY <1>2, ResetPolicyType DEF EngineReady, TypeOK
    <2>2. QED
      BY <1>2, <2>1 DEF EngineReady, TypeOK, Issue, Status, Life
  <1>3. CASE EngineLost(e)
    <2>1. Issue(writes, "disconnected") \in SUBSET Status
      BY DEF Issue, TypeOK, Status
    <2>2. policy' \in Policies /\ writes' \subseteq Status
      BY <1>3, <2>1, ScheduleReconnectType DEF EngineLost
    <2>3. QED
      BY <1>3, <2>2 DEF EngineLost, TypeOK, Life
  <1>4. CASE EngineAuthFails(e)
    BY <1>4 DEF EngineAuthFails, TypeOK, Issue, Status
  <1>5. QED
    BY <1>1, <1>2, <1>3, <1>4 DEF EngineStep

\* Shutdown, the end of the process and its restart keep the types.
LEMMA ProcessStepType == TypeOK /\ ProcessStep => TypeOK'
  <1> SUFFICES ASSUME TypeOK, ProcessStep PROVE TypeOK'
    OBVIOUS
  <1>1. CASE ShutdownBegins
    BY <1>1, NoPolicyType DEF ShutdownBegins, TypeOK
  <1>2. CASE ShutdownDestroys
    BY <1>2 DEF ShutdownDestroys, TypeOK, Life
  <1>3. CASE ShutdownClears
    BY <1>3 DEF ShutdownClears, TypeOK
  <1>4. CASE ProcessEnds
    <2>1. policy' \in Policies /\ strays' \in 0..MaxStrays
      BY <1>4, NoPolicyType, BoundsAssumption DEF ProcessEnds
    <2>2. op' \in [Ops -> Operations]
      BY <1>4 DEF ProcessEnds, IdleOp, Operations, Kinds, Awaits
    <2>3. QED
      BY <1>4, <2>1, <2>2 DEF ProcessEnds, TypeOK, Life
  <1>5. CASE Boot
    BY <1>5 DEF Boot, TypeOK, Status
  <1>6. QED
    BY <1>1, <1>2, <1>3, <1>4, <1>5 DEF ProcessStep

\* Every step keeps the types.
LEMMA NextType == TypeOK /\ [Next]_vars => TypeOK'
  <1> SUFFICES ASSUME TypeOK, [Next]_vars PROVE TypeOK'
    OBVIOUS
  <1>1. CASE ServiceStep
    <2>1. CASE \E s \in Status : StatusLands(s)
      BY <2>1 DEF StatusLands, TypeOK, Persist
    <2>2. QED
      BY <1>1, <2>1, ClientStepType, RetryStepType, InitializeStepType, EngineStepType
      DEF ServiceStep
  <1>2. CASE ProcessStep
    BY <1>2, ProcessStepType
  <1>3. CASE UNCHANGED vars
    BY <1>3 DEF vars, TypeOK
  <1>4. QED
    BY <1>1, <1>2, <1>3 DEF Next

\* Every variable of the session stays in its type; the retry counter, the only
\* one that counts up, stays within maxReconnectAttempts.
THEOREM TypeCorrect == Spec => []TypeOK
  BY InitType, NextType, PTL DEF Spec

-----------------------------------------------------------------------------
(* The inductive invariant *)

\* The inductive invariant holds at first: no engine, no policy, no operation.
LEMMA InitIInv == Init => IInv
  BY InitType
  DEF Init, IInv, ClosedEngineNotInMap, DetachedBeforeCleanup, ArmedIsOn, DownIsDormant,
      UnmanagedIsDormant, Dormant, NoPolicy, IdleOp

\* Registering a fresh engine puts a built one in the map that nobody is destroying.
LEMMA RegisterKeepsMap ==
    ASSUME IInv, NEW o \in Ops, NEW kind \in Kinds, NEW gone, Register(o, kind, gone),
           process' = process
    PROVE  ClosedEngineNotInMap' /\ DetachedBeforeCleanup'
  <1>1. FreshEngine \in Engines /\ Unreferenced(FreshEngine)
    BY FreshEngineIsUnreferenced DEF Register
  <1>2. current' = FreshEngine /\ life'[FreshEngine] = "built"
    BY <1>1 DEF Register
  <1>3. ClosedEngineNotInMap'
    BY <1>2 DEF ClosedEngineNotInMap
  <1>4. \A x \in Ops : op'[x].at = "cleanup" => op'[x].eng # FreshEngine
    <2>1. TAKE x \in Ops
    <2>2. CASE x = o
      BY <2>2 DEF Register, Suspend, IInv, TypeOK
    <2>3. CASE x # o
      BY <2>3, <1>1 DEF Register, Suspend, Unreferenced, IInv, TypeOK
    <2>4. QED
      BY <2>2, <2>3
  <1>5. QED
    BY <1>2, <1>3, <1>4 DEF DetachedBeforeCleanup

\* cleanupFailedEngine empties the map before it destroys what was there.
LEMMA CleanUpKeepsMap ==
    ASSUME IInv, NEW o \in Ops, CleanUp(o)
    PROVE  ClosedEngineNotInMap' /\ DetachedBeforeCleanup'
  BY NoEngineAssumption DEF IInv, TypeOK, CleanUp, ClosedEngineNotInMap, DetachedBeforeCleanup

\* Map and engines: a step of a caller.
LEMMA ClientStepKeepsMap ==
    ASSUME IInv, NEW c \in Clients, ClientStep(c)
    PROVE  ClosedEngineNotInMap' /\ DetachedBeforeCleanup'
  <1> c \in Ops
    BY DEF Ops
  <1> USE NoEngineAssumption DEF ClosedEngineNotInMap, DetachedBeforeCleanup, IInv
  <1>1. CASE StartBegins(c)
    BY <1>1 DEF StartBegins, Suspend, TypeOK
  <1>2. CASE StartRegisters(c)
    BY <1>2, RegisterKeepsMap DEF StartRegisters, Kinds
  <1>3. CASE StopBegins(c) \/ DeleteBegins(c)
    BY <1>3 DEF StopBegins, DeleteBegins, TeardownBegins, Suspend, TypeOK
  <1>4. CASE TeardownCloses(c)
    BY <1>4 DEF TeardownCloses, Suspend, TypeOK
  <1>5. CASE TeardownFails(c)
    BY <1>5 DEF TeardownFails, Return, IdleOp, TypeOK
  <1>6. CASE StopReturns(c) \/ DeleteReturns(c)
    BY <1>6 DEF StopReturns, DeleteReturns, Return, IdleOp, TypeOK
  <1>7. QED
    BY <1>1, <1>2, <1>3, <1>4, <1>5, <1>6 DEF ClientStep

\* Map and engines: executeReconnect up to its first await.
LEMMA ExecuteReconnectKeepsMap ==
    ASSUME IInv, NEW r \in Ops, ExecuteReconnect(r), process' = process
    PROVE  ClosedEngineNotInMap' /\ DetachedBeforeCleanup'
  <1>1. CASE stopping
    BY <1>1 DEF ExecuteReconnect, IInv, ClosedEngineNotInMap, DetachedBeforeCleanup
  <1>2. CASE ~stopping /\ current # NoEngine
    BY <1>2 DEF ExecuteReconnect, Suspend, IInv, TypeOK, ClosedEngineNotInMap, DetachedBeforeCleanup
  <1>3. CASE ~stopping /\ current = NoEngine
    BY <1>3, RegisterKeepsMap DEF ExecuteReconnect, Kinds
  <1>4. QED
    BY <1>1, <1>2, <1>3

\* Map and engines: a step of a reconnect.
LEMMA RetryStepKeepsMap ==
    ASSUME IInv, NEW r \in Retries, RetryStep(r)
    PROVE  ClosedEngineNotInMap' /\ DetachedBeforeCleanup'
  <1> r \in Ops
    BY DEF Ops
  <1>1. CASE TimerFires(r) \/ StrayTimerFires(r)
    BY <1>1, ExecuteReconnectKeepsMap DEF TimerFires, StrayTimerFires
  <1>2. CASE ReconnectReplaces(r)
    BY <1>2, RegisterKeepsMap DEF ReconnectReplaces, Kinds
  <1>3. CASE ReconnectUndone(r)
    BY <1>3, NoEngineAssumption
    DEF ReconnectUndone, Return, IdleOp, IInv, TypeOK, ClosedEngineNotInMap, DetachedBeforeCleanup
  <1>4. CASE ReconnectTeardownFails(r)
    BY <1>4, CleanUpKeepsMap DEF ReconnectTeardownFails
  <1>5. QED
    BY <1>1, <1>2, <1>3, <1>4 DEF RetryStep

\* Map and engines: a step of initializeEngine or of the cleanup after it.
LEMMA InitializeStepKeepsMap ==
    ASSUME IInv, NEW o \in Ops, InitializeStep(o)
    PROVE  ClosedEngineNotInMap' /\ DetachedBeforeCleanup'
  <1> USE DEF ClosedEngineNotInMap, DetachedBeforeCleanup, IInv
  <1>1. CASE MarkInitializing(o)
    BY <1>1 DEF MarkInitializing, Suspend, TypeOK
  <1>2. CASE InitializeSucceeds(o)
    BY <1>2 DEF InitializeSucceeds, Suspend, Return, IdleOp, TypeOK
  <1>3. CASE InitializeFails(o)
    BY <1>3, CleanUpKeepsMap DEF InitializeFails
  <1>4. CASE CleanupSettles(o)
    <2>1. process = "up" /\ op[o].eng # NoEngine => op[o].eng # current
      BY <1>4 DEF CleanupSettles
    <2>2. process = "up" /\ current # NoEngine => life'[current] = life[current]
      BY <1>4, <2>1 DEF CleanupSettles, TypeOK
    <2>3. QED
      BY <1>4, <2>2 DEF CleanupSettles, Return, IdleOp, TypeOK
  <1>5. QED
    BY <1>1, <1>2, <1>3, <1>4 DEF InitializeStep

\* Map and engines: a callback, a landing update, the process itself.
LEMMA OtherStepsKeepMap ==
    ASSUME IInv,
           \/ \E e \in Engines : EngineStep(e)
           \/ \E s \in Status : StatusLands(s)
           \/ ProcessStep
           \/ UNCHANGED vars
    PROVE  ClosedEngineNotInMap' /\ DetachedBeforeCleanup'
  <1> USE DEF ClosedEngineNotInMap, DetachedBeforeCleanup, IInv, TypeOK
  <1>1. CASE \E e \in Engines : EngineStep(e)
    BY <1>1 DEF EngineStep, EngineReportsStatus, EngineReady, EngineLost, EngineAuthFails, IsCurrent
  <1>2. CASE \E s \in Status : StatusLands(s)
    BY <1>2 DEF StatusLands
  <1>3. CASE ProcessStep
    BY <1>3 DEF ProcessStep, ShutdownBegins, ShutdownDestroys, ShutdownClears, ProcessEnds, Boot,
                DownIsDormant, Dormant, IdleOp
  <1>4. CASE UNCHANGED vars
    BY <1>4 DEF vars
  <1>5. QED
    BY <1>1, <1>2, <1>3, <1>4

-----------------------------------------------------------------------------
(* The policy part of the invariant *)

PolicyInv == ArmedIsOn /\ DownIsDormant /\ UnmanagedIsDormant

\* Policy and dormancy: a step of a caller.  start() wakes a dormant session in its hook
\* and installs the policy before it constructs the engine.
LEMMA ClientStepKeepsPolicy ==
    ASSUME IInv, NEW c \in Clients, ClientStep(c)
    PROVE  PolicyInv'
  <1> c \in Ops
    BY DEF Ops
  <1> USE DEF IInv, PolicyInv, ArmedIsOn, DownIsDormant, UnmanagedIsDormant, Running
  <1>1. CASE StartBegins(c)
    <2>1. StartInHook'
      BY <1>1 DEF StartBegins, Suspend, StartInHook, TypeOK
    <2>2. QED
      BY <1>1, <2>1 DEF StartBegins
  <1>2. CASE StartRegisters(c)
    BY <1>2 DEF StartRegisters, FreshPolicy
  <1>3. CASE StopBegins(c) \/ DeleteBegins(c)
    BY <1>3 DEF StopBegins, DeleteBegins, TeardownBegins, NoPolicy
  <1>4. CASE TeardownCloses(c)
    BY <1>4 DEF TeardownCloses, Suspend, StartInHook, Dormant, TypeOK
  <1>5. CASE TeardownFails(c)
    BY <1>5 DEF TeardownFails, Return, IdleOp, StartInHook, Dormant, TypeOK
  <1>6. CASE StopReturns(c) \/ DeleteReturns(c)
    <2>1. StartInHook => StartInHook'
      BY <1>6 DEF StopReturns, DeleteReturns, Return, StartInHook, TypeOK, Ops
    <2>2. Dormant => Dormant'
      BY <1>6 DEF StopReturns, DeleteReturns, Return, IdleOp, Dormant, TypeOK
    <2>3. QED
      BY <1>6, <2>1, <2>2 DEF StopReturns, DeleteReturns
  <1>7. QED
    BY <1>1, <1>2, <1>3, <1>4, <1>5, <1>6 DEF ClientStep

\* A timer exists only where the session is not dormant, so a reconnect never
\* starts from a dormant one.
LEMMA RetryStepKeepsPolicy ==
    ASSUME IInv, NEW r \in Retries, RetryStep(r)
    PROVE  PolicyInv'
  <1> r \in Ops
    BY DEF Ops
  <1> USE DEF IInv, PolicyInv, ArmedIsOn, DownIsDormant, UnmanagedIsDormant, Running
  <1>1. StartInHook => StartInHook'
    <2> SUFFICES ASSUME StartInHook PROVE StartInHook'
      OBVIOUS
    <2>1. PICK c \in Clients : op[c].kind = "start" /\ op[c].at = "hook"
      BY DEF StartInHook
    <2>2. c # r
      BY OpsAssumption
    <2>3. op'[c] = op[c]
      BY <2>2 DEF RetryStep, TimerFires, StrayTimerFires, ReconnectReplaces, ReconnectUndone,
                  ReconnectTeardownFails, ExecuteReconnect, CleanUp, Register, Suspend, Return,
                  TypeOK, Ops
    <2>4. QED
      BY <2>1, <2>3 DEF StartInHook
  <1>2. CASE TimerFires(r)
    <2>1. policy'.on = policy.on /\ policy'.armed = FALSE
      BY <1>2 DEF TimerFires, TypeOK, Policies
    <2>2. policy.on /\ process # "down" /\ process' = process
      BY <1>2 DEF TimerFires
    <2>3. QED
      BY <2>1, <2>2
  <1>3. CASE StrayTimerFires(r)
    BY <1>1, <1>3 DEF StrayTimerFires, Dormant
  <1>4. CASE ReconnectReplaces(r)
    BY <1>1, <1>4 DEF ReconnectReplaces, Dormant
  <1>5. CASE ReconnectUndone(r)
    BY <1>1, <1>5 DEF ReconnectUndone, Return, IdleOp, Dormant, TypeOK
  <1>6. CASE ReconnectTeardownFails(r)
    BY <1>1, <1>6 DEF ReconnectTeardownFails, CleanUp, Suspend, Dormant, TypeOK
  <1>7. QED
    BY <1>2, <1>3, <1>4, <1>5, <1>6 DEF RetryStep

\* Policy and dormancy: a step of initializeEngine, whose failure may arm the next retry.
LEMMA InitializeStepKeepsPolicy ==
    ASSUME IInv, NEW o \in Ops, InitializeStep(o)
    PROVE  PolicyInv'
  <1> USE DEF IInv, PolicyInv, ArmedIsOn, DownIsDormant, UnmanagedIsDormant, Running
  <1>1. CASE MarkInitializing(o)
    BY <1>1 DEF MarkInitializing, Suspend, StartInHook, Dormant, TypeOK, Ops
  <1>2. CASE InitializeSucceeds(o)
    BY <1>2 DEF InitializeSucceeds, Suspend, Return, IdleOp, StartInHook, Dormant, TypeOK, Ops
  <1>3. CASE InitializeFails(o)
    BY <1>3 DEF InitializeFails, CleanUp, Suspend, StartInHook, Dormant, TypeOK, Ops
  <1>4. CASE CleanupSettles(o)
    <2>1. policy'.on = policy.on /\ (policy'.armed => policy'.on)
      BY <1>4, ScheduleReconnectPolicy DEF CleanupSettles
    <2>2. (StartInHook => StartInHook') /\ (Dormant => Dormant')
      BY <1>4 DEF CleanupSettles, Return, IdleOp, StartInHook, Dormant, TypeOK, Ops
    <2>3. QED
      BY <1>4, <2>1, <2>2 DEF CleanupSettles
  <1>5. QED
    BY <1>1, <1>2, <1>3, <1>4 DEF InitializeStep

\* Policy and dormancy: callbacks arm only a policy that is installed; shutdown and the
\* end of the process remove policy and timers together.
LEMMA OtherStepsKeepPolicy ==
    ASSUME IInv,
           \/ \E e \in Engines : EngineStep(e)
           \/ \E s \in Status : StatusLands(s)
           \/ ProcessStep
           \/ UNCHANGED vars
    PROVE  PolicyInv'
  <1> USE DEF IInv, PolicyInv, ArmedIsOn, DownIsDormant, UnmanagedIsDormant, Running
  <1>1. CASE \E e \in Engines : EngineStep(e)
    <2> PICK e \in Engines : EngineStep(e)
      BY <1>1
    <2>1. /\ policy'.on = policy.on /\ (policy'.armed => policy'.on)
          /\ UNCHANGED <<process, current, stopping, strays, op>>
      <3>1. CASE EngineLost(e)
        BY <3>1, ScheduleReconnectPolicy DEF EngineLost
      <3>2. CASE EngineReady(e)
        BY <3>2 DEF EngineReady, TypeOK, Policies
      <3>3. CASE EngineAuthFails(e) \/ \E s \in Reported : EngineReportsStatus(e, s)
        BY <3>3 DEF EngineAuthFails, EngineReportsStatus
      <3>4. QED
        BY <3>1, <3>2, <3>3 DEF EngineStep
    <2>2. Running
      BY DEF EngineStep, EngineReportsStatus, EngineReady, EngineLost, EngineAuthFails
    <2>3. QED
      BY <2>1, <2>2 DEF StartInHook, Dormant
  <1>2. CASE \E s \in Status : StatusLands(s)
    BY <1>2 DEF StatusLands, StartInHook, Dormant
  <1>3. CASE ProcessStep
    BY <1>3 DEF ProcessStep, ShutdownBegins, ShutdownDestroys, ShutdownClears, ProcessEnds, Boot,
                NoPolicy, Dormant, IdleOp
  <1>4. CASE UNCHANGED vars
    BY <1>4 DEF vars, StartInHook, Dormant
  <1>5. QED
    BY <1>1, <1>2, <1>3, <1>4

\* Every step keeps the inductive invariant.
LEMMA NextIInv == IInv /\ [Next]_vars => IInv'
  <1> SUFFICES ASSUME IInv, [Next]_vars PROVE IInv'
    OBVIOUS
  <1>1. TypeOK'
    BY NextType DEF IInv
  <1>2. ClosedEngineNotInMap' /\ DetachedBeforeCleanup'
    BY ClientStepKeepsMap, RetryStepKeepsMap, InitializeStepKeepsMap, OtherStepsKeepMap
    DEF Next, ServiceStep
  <1>3. PolicyInv'
    BY ClientStepKeepsPolicy, RetryStepKeepsPolicy, InitializeStepKeepsPolicy, OtherStepsKeepPolicy
    DEF Next, ServiceStep
  <1>4. QED
    BY <1>1, <1>2, <1>3 DEF IInv, PolicyInv

\* The inductive invariant holds in every reachable state.
LEMMA AlwaysIInv == Spec => []IInv
  BY InitIInv, NextIInv, PTL DEF Spec

\* For any number of concurrent starts, stops, deletes and reconnects: the map
\* never holds an engine whose teardown an operation has completed.
THEOREM MapIsClean == Spec => []ClosedEngineNotInMap
  <1>1. IInv => ClosedEngineNotInMap
    BY DEF IInv
  <1>2. QED
    BY AlwaysIInv, <1>1, PTL

\* For any number of concurrent operations: an engine whose callbacks are honoured
\* has a reconnect policy, or a start in its hook is about to install one.
THEOREM LossIsNeverUnmanaged == Spec => []HonouredEngineHasPolicy
  <1>1. IInv => HonouredEngineHasPolicy
    BY DEF IInv, UnmanagedIsDormant, Dormant, HonouredEngineHasPolicy
  <1>2. QED
    BY AlwaysIInv, <1>1, PTL

-----------------------------------------------------------------------------
(* One caller at a time *)

\* Somebody will still take the engine out of the map: the stop or delete that has
\* found it there, or a reconnect that looks at the stop mark when it is initialized.
Attended ==
    \E o \in Ops :
        \/ op[o].kind \in {"stop", "delete"} /\ op[o].at = "closing"
        \/ op[o].kind = "reconnect" /\ op[o].at \in {"marking", "initializing", "undoing"}

\* The caller that starts the session is not stopping it.
StartIsWanted == \A c \in Clients : op[c].kind = "start" => ~stopping

StopInv ==
    /\ process = "down" => ~stopping
    /\ process = "up" /\ stopping /\ current # NoEngine => Attended
    /\ StartIsWanted

\* Whatever another operation does, the one that attends to the engine goes on.
LEMMA AttendedStays ==
    ASSUME TypeOK, Attended, NEW o \in Ops, NEW x, op' = [op EXCEPT ![o] = x],
           \/ x.kind = "reconnect" /\ x.at \in {"marking", "initializing", "undoing"}
           \/ ~(op[o].kind \in {"stop", "delete"} /\ op[o].at = "closing")
              /\ ~(op[o].kind = "reconnect" /\ op[o].at \in {"marking", "initializing", "undoing"})
    PROVE  Attended'
  <1>1. op'[o] = x /\ \A p \in Ops : p # o => op'[p] = op[p]
    BY DEF TypeOK
  <1>2. QED
    BY <1>1 DEF Attended

\* Whoever registers an engine for a reconnect attends to it.
LEMMA RegisterAttends ==
    ASSUME TypeOK, NEW o \in Ops, NEW gone, Register(o, "reconnect", gone)
    PROVE  Attended'
  <1>1. op'[o] = [kind |-> "reconnect", at |-> "marking", eng |-> FreshEngine]
    BY DEF Register, Suspend, TypeOK
  <1>2. QED
    BY <1>1 DEF Attended

\* A step of the caller: it stops only when it is not starting, and stays with the engine
\* it has found until it is disconnected.
LEMMA ClientStepKeepsStop ==
    ASSUME TypeOK, StopInv, ~TeardownMayFail, \A c, d \in Clients : c = d,
           NEW c \in Clients, ClientStep(c)
    PROVE  StopInv'
  <1> c \in Ops /\ \A d \in Clients : d = c
    BY DEF Ops
  <1> USE DEF StopInv, StartIsWanted, Running
  <1>1. CASE StartBegins(c)
    BY <1>1 DEF StartBegins
  <1>2. CASE StartRegisters(c)
    BY <1>2 DEF StartRegisters
  <1>3. CASE StopBegins(c) \/ DeleteBegins(c)
    <2>1. PICK kind \in {"stop", "delete"}, next \in {"writing", "removing"} : TeardownBegins(c, kind, next)
      BY <1>3 DEF StopBegins, DeleteBegins
    <2>2. op'[c] = [kind |-> kind, at |-> IF current = NoEngine THEN next ELSE "closing", eng |-> current]
      BY <2>1 DEF TeardownBegins, Suspend, TypeOK
    <2>3. current' = current /\ process' = process /\ process # "down"
      BY <2>1 DEF TeardownBegins
    <2>4. current # NoEngine => Attended'
      BY <2>2 DEF Attended
    <2>5. StartIsWanted'
      BY <2>2
    <2>6. QED
      BY <2>3, <2>4, <2>5
  <1>4. CASE TeardownCloses(c)
    <2>1. op'[c].kind # "start" /\ UNCHANGED <<process, stopping>> /\ current' = NoEngine
      BY <1>4 DEF TeardownCloses, Suspend, TypeOK
    <2>2. QED
      BY <2>1
  <1>5. CASE TeardownFails(c)
    BY <1>5 DEF TeardownFails
  <1>6. CASE StopReturns(c) \/ DeleteReturns(c)
    <2>1. op' = [op EXCEPT ![c] = IdleOp] /\ UNCHANGED <<process, stopping, current>>
      BY <1>6 DEF StopReturns, DeleteReturns, Return
    <2>2. op[c].at \in {"writing", "removing"}
      BY <1>6 DEF StopReturns, DeleteReturns
    <2>3. Attended => Attended'
      BY <2>1, <2>2, AttendedStays
    <2>4. StartIsWanted'
      BY <2>1 DEF IdleOp, TypeOK
    <2>5. QED
      BY <2>1, <2>3, <2>4
  <1>7. QED
    BY <1>1, <1>2, <1>3, <1>4, <1>5, <1>6 DEF ClientStep

\* A step of executeReconnect: the engine it registers is its own to undo.
LEMMA RetryStepKeepsStop ==
    ASSUME TypeOK, StopInv, NEW r \in Retries, RetryStep(r)
    PROVE  StopInv'
  <1> r \in Ops /\ r \notin Clients
    BY OpsAssumption DEF Ops
  <1> USE DEF StopInv, Running
  <1>1. UNCHANGED <<process, stopping>> /\ process # "down"
    BY DEF RetryStep, TimerFires, StrayTimerFires, ReconnectReplaces, ReconnectUndone, ReconnectTeardownFails, CleanUp
  <1>2. StartIsWanted'
    <2>1. op' = op \/ \E x : op' = [op EXCEPT ![r] = x]
      <3>1. CASE ExecuteReconnect(r)
        BY <3>1 DEF ExecuteReconnect, Register, Suspend
      <3>2. CASE ReconnectReplaces(r)
        BY <3>2 DEF ReconnectReplaces, Register, Suspend
      <3>3. CASE ReconnectUndone(r)
        BY <3>3 DEF ReconnectUndone, Return
      <3>4. CASE ReconnectTeardownFails(r)
        BY <3>4 DEF ReconnectTeardownFails, CleanUp, Suspend
      <3>5. QED
        BY <3>1, <3>2, <3>3, <3>4 DEF RetryStep, TimerFires, StrayTimerFires
    <2>2. \A c \in Clients : op'[c] = op[c]
      BY <2>1 DEF Ops, TypeOK
    <2>3. QED
      BY <1>1, <2>2 DEF StartIsWanted
  <1>3. CASE TimerFires(r) \/ StrayTimerFires(r)
    <2>1. ExecuteReconnect(r)
      BY <1>3 DEF TimerFires, StrayTimerFires
    <2>2. stopping => UNCHANGED <<op, current>>
      BY <2>1 DEF ExecuteReconnect
    <2>3. QED
      BY <1>1, <1>2, <2>2 DEF Attended
  <1>4. CASE ReconnectReplaces(r)
    BY <1>1, <1>2, <1>4, RegisterAttends DEF ReconnectReplaces
  <1>5. CASE ReconnectUndone(r) \/ ReconnectTeardownFails(r)
    BY <1>1, <1>2, <1>5 DEF ReconnectUndone, ReconnectTeardownFails, CleanUp
  <1>6. QED
    BY <1>3, <1>4, <1>5 DEF RetryStep

\* A step of initializeEngine: it ends with the engine taken out, or with a second look
\* at the stop mark.
LEMMA InitializeStepKeepsStop ==
    ASSUME TypeOK, StopInv, NEW o \in Ops, InitializeStep(o)
    PROVE  StopInv'
  <1> USE DEF StopInv, Running
  <1>1. UNCHANGED <<process, stopping>> /\ process # "down"
    BY DEF InitializeStep, MarkInitializing, InitializeSucceeds, InitializeFails, CleanUp, CleanupSettles
  <1>2. StartIsWanted'
    <2>1. \A c \in Clients : op'[c].kind \in {op[c].kind, "none", "reconnect"}
      BY DEF InitializeStep, MarkInitializing, InitializeSucceeds, InitializeFails, CleanUp, CleanupSettles,
             Suspend, Return, IdleOp, TypeOK, Ops
    <2>2. QED
      BY <1>1, <2>1 DEF StartIsWanted
  <1>3. CASE MarkInitializing(o)
    <2>1. /\ UNCHANGED current
          /\ op[o].at = "marking"
          /\ op' = [op EXCEPT ![o] = [kind |-> op[o].kind, at |-> "initializing", eng |-> op[o].eng]]
      BY <1>3 DEF MarkInitializing, Suspend
    <2>2. Attended => Attended'
      BY <2>1, AttendedStays
    <2>3. QED
      BY <1>1, <1>2, <2>1, <2>2
  <1>4. CASE InitializeSucceeds(o)
    <2>1. UNCHANGED current /\ op[o].at = "initializing"
      BY <1>4 DEF InitializeSucceeds
    <2>2. CASE op[o].kind = "reconnect" /\ stopping /\ current # NoEngine
      <3>1. op' = [op EXCEPT ![o] = [kind |-> "reconnect", at |-> "undoing", eng |-> current]]
        BY <1>4, <2>2 DEF InitializeSucceeds, Suspend
      <3>2. Attended => Attended'
        BY <3>1, AttendedStays
      <3>3. QED
        BY <1>1, <1>2, <2>1, <3>2
    <2>3. CASE op[o].kind # "reconnect"
      <3>1. op' = [op EXCEPT ![o] = IdleOp]
        BY <1>4, <2>3 DEF InitializeSucceeds, Return
      <3>2. Attended => Attended'
        BY <2>1, <2>3, <3>1, AttendedStays
      <3>3. QED
        BY <1>1, <1>2, <2>1, <3>2
    <2>4. QED
      BY <1>1, <1>2, <2>1, <2>2, <2>3
  <1>5. CASE InitializeFails(o)
    BY <1>1, <1>2, <1>5 DEF InitializeFails, CleanUp
  <1>6. CASE CleanupSettles(o)
    <2>1. UNCHANGED current /\ op[o].at = "cleanup" /\ op' = [op EXCEPT ![o] = IdleOp]
      BY <1>6 DEF CleanupSettles, Return
    <2>2. Attended => Attended'
      BY <2>1, AttendedStays
    <2>3. QED
      BY <1>1, <1>2, <2>1, <2>2
  <1>7. QED
    BY <1>3, <1>4, <1>5, <1>6 DEF InitializeStep

\* Callbacks leave map and mark alone; the end of the process takes the mark with it.
LEMMA OtherStepsKeepStop ==
    ASSUME TypeOK, StopInv,
           \/ \E e \in Engines : EngineStep(e)
           \/ \E s \in Status : StatusLands(s)
           \/ ProcessStep
           \/ UNCHANGED vars
    PROVE  StopInv'
  <1> USE DEF StopInv
  <1>1. CASE UNCHANGED <<process, current, stopping, op>>
    BY <1>1 DEF Attended, StartIsWanted
  <1>2. CASE \E e \in Engines : EngineStep(e)
    BY <1>1, <1>2 DEF EngineStep, EngineReportsStatus, EngineReady, EngineLost, EngineAuthFails
  <1>3. CASE (\E s \in Status : StatusLands(s)) \/ UNCHANGED vars
    BY <1>1, <1>3 DEF StatusLands, vars
  <1>4. CASE ProcessStep
    <2>1. CASE ProcessEnds
      BY <2>1 DEF ProcessEnds, StartIsWanted, IdleOp
    <2>2. CASE Boot
      BY <2>2 DEF Boot, StartIsWanted
    <2>3. CASE ShutdownBegins \/ ShutdownDestroys \/ ShutdownClears
      BY <2>3 DEF ShutdownBegins, ShutdownDestroys, ShutdownClears, StartIsWanted
    <2>4. QED
      BY <1>4, <2>1, <2>2, <2>3 DEF ProcessStep
  <1>5. QED
    BY <1>2, <1>3, <1>4

\* SessionService.stop and delete of a caller that awaits each call, where teardowns do
\* not reject: for any number of reconnects in flight and stray timers, when everything
\* awaited has settled and the stop mark stands, the map holds no engine.
THEOREM StoppedSessionIsDown ==
    ASSUME ~TeardownMayFail, \A c, d \in Clients : c = d
    PROVE  Spec => []StoppedIsDown
  <1>1. Init => TypeOK /\ StopInv
    BY InitType DEF Init, StopInv, StartIsWanted, IdleOp
  <1>2. TypeOK /\ StopInv /\ [Next]_vars => (TypeOK /\ StopInv)'
    <2> SUFFICES ASSUME TypeOK, StopInv, [Next]_vars PROVE TypeOK' /\ StopInv'
      OBVIOUS
    <2>1. TypeOK'
      BY NextType
    <2>2. StopInv'
      BY ClientStepKeepsStop, RetryStepKeepsStop, InitializeStepKeepsStop, OtherStepsKeepStop
      DEF Next, ServiceStep
    <2>3. QED
      BY <2>1, <2>2
  <1>3. TypeOK /\ StopInv => StoppedIsDown
    BY DEF StopInv, StoppedIsDown, Quiet, Attended, IdleOp
  <1>4. QED
    BY <1>1, <1>2, <1>3, PTL DEF Spec

=============================================================================
