--------------------------- MODULE EngineFactoryProofs --------------------------
(***************************************************************************)
(* Each adapter implements EngineContract, comes to rest when it is closed *)
(* and tells its READY, for every number of reconnects, grace and deadline.*)
(* The argument is one inductive invariant per adapter, which says what an *)
(* adapter that is new, or closed, cannot be in the middle of.             *)
(***************************************************************************)
EXTENDS EngineFactory, TLAPS

Told == status = "ready" /\ owner \in {"starting", "running"} => said = "ready"

\* Nothing goes on before initialize; a closed adapter knows that it is, and that
\* is what keeps its timer and its socket away.
BaileysInv ==
    /\ owner = "new" =>
           connecting = "nobody" /\ sock = "none" /\ ~ ticking /\ ~ rendering /\ ~ leaving
    /\ owner = "closed" => intentional /\ ~ ticking /\ (~ leaving => ~ Baileys!Alive)
    /\ Told

\* The same of Evolution Go.  What initialize does not wait for any more it does
\* not do any more; readyNotified says whether the last callback was onReady.
EvolutionInv ==
    /\ owner = "new" =>
           /\ phase = "none" /\ wire = "none" /\ opening = "nobody" /\ mail = "none"
           /\ ~ wsTimer /\ ~ health /\ ~ poll /\ probe = "none" /\ ~ asking
           /\ status = "disconnected" /\ ~ leaving
    /\ owner = "running" => phase = "over"
    /\ opening = "initialize" => phase = "socket"
    /\ notified /\ owner \in {"starting", "running"} => said = "ready"
    /\ owner = "closed" =>
           /\ closing
           /\ ~ interrupted => phase = "over"
           /\ ~ interrupted /\ ~ leaving
                  => wire \in {"none", "aborted"} /\ ~ wsTimer /\ ~ health /\ ~ poll
    /\ leaving => owner = "closed"
    /\ Told

\* The same of whatsapp-web.js, whose teardown takes the client with it.
WwebjsInv ==
    /\ owner = "new" =>
           /\ starting = "none" /\ client = "none" /\ probes = 0
           /\ ~ drawing /\ ~ loop /\ ~ ending
    /\ owner = "closed" => tearing /\ (~ ending => client = "none" /\ ~ loop)
    /\ Told

IInv ==
    /\ TypeOK
    /\ kind = "baileys" => BaileysInv
    /\ kind = "evolution-go" => EvolutionInv
    /\ kind = "whatsapp-web.js" => WwebjsInv

ContractStep == Contract!Next \/ UNCHANGED <<owner, said>>

-----------------------------------------------------------------------------
(* Baileys *)

\* Every step of a Baileys adapter keeps its invariant, and is one of the contract.
LEMMA BaileysStep ==
    ASSUME Baileys!TypeOK, BaileysInv, Baileys!Next
    PROVE  Baileys!TypeOK' /\ BaileysInv' /\ ContractStep
<1> USE DEF BaileysInv, Told, ContractStep, Contract!Next, Contract!Starts, Contract!Resolves,
            Contract!Rejects, Contract!Closes, Contract!Speaks
<1> USE DEF Baileys!TypeOK, Baileys!Alive, Baileys!Statuses
<1>1. CASE Baileys!Initialize
    BY <1>1, BaileysAssumption DEF Baileys!Initialize, Baileys!MaxReconnectsAssumption
<1>2. CASE Baileys!ConnectCreates
    BY <1>2 DEF Baileys!ConnectCreates, Baileys!MayCreate, Baileys!Settles
<1>3. CASE Baileys!ConnectAborts
    BY <1>3 DEF Baileys!ConnectAborts, Baileys!Settles
<1>4. CASE Baileys!ConnectFails
    BY <1>4 DEF Baileys!ConnectFails, Baileys!Settles
<1>5. CASE Baileys!QrArrives
    BY <1>5 DEF Baileys!QrArrives
<1>6. CASE Baileys!QrRendered
    BY <1>6 DEF Baileys!QrRendered
<1>7. CASE Baileys!SocketConnecting
    BY <1>7 DEF Baileys!SocketConnecting, Baileys!connection
<1>8. CASE Baileys!SocketOpens
    BY <1>8, BaileysAssumption DEF Baileys!SocketOpens, Baileys!MaxReconnectsAssumption
<1>9. CASE Baileys!CloseExpected
    BY <1>9 DEF Baileys!CloseExpected
<1>10. CASE Baileys!LoggedOut
    BY <1>10 DEF Baileys!LoggedOut
<1>11. CASE Baileys!GivesUp
    BY <1>11 DEF Baileys!GivesUp, Baileys!Exhausted
<1>12. CASE Baileys!Drops
    BY <1>12, BaileysAssumption DEF Baileys!Drops, Baileys!Exhausted,
           Baileys!MaxReconnectsAssumption
<1>13. CASE Baileys!TimerFires
  <2>1. (timer \in BOOLEAN /\ ticking \in BOOLEAN)'
      BY <1>13, Zenon DEF Baileys!TimerFires, Baileys!Fired
  <2>2. CASE intentional \/ connecting # "nobody"
      BY <1>13, <2>1, <2>2 DEF Baileys!TimerFires, Baileys!Fired
  <2>3. CASE ~ (intentional \/ connecting # "nobody")
      BY <1>13, <2>1, <2>3 DEF Baileys!TimerFires, Baileys!Fired
  <2> QED
      BY <2>2, <2>3
<1>14. CASE Baileys!Closes
    BY <1>14 DEF Baileys!Closes, Baileys!Stops
<1>15. CASE Baileys!LogoutBegins
    BY <1>15 DEF Baileys!LogoutBegins, Baileys!Stops
<1>16. CASE Baileys!LogoutEnds
    BY <1>16 DEF Baileys!LogoutEnds
<1> QED
    BY <1>1, <1>2, <1>3, <1>4, <1>5, <1>6, <1>7, <1>8, <1>9, <1>10, <1>11, <1>12, <1>13, <1>14,
           <1>15, <1>16 DEF Baileys!Next, Baileys!Connect, Baileys!Update

-----------------------------------------------------------------------------
(* Evolution Go *)

\* The variables of Evolution Go that are true or false.
EvolutionFlags ==
    /\ remote \in BOOLEAN /\ closing \in BOOLEAN /\ initialized \in BOOLEAN /\ wsTimer \in BOOLEAN
    /\ health \in BOOLEAN /\ poll \in BOOLEAN /\ asking \in BOOLEAN /\ notified \in BOOLEAN
    /\ leaving \in BOOLEAN /\ interrupted \in BOOLEAN

\* What markReady and handleDisconnectedEvent change.
MarksTyped ==
    /\ status \in Evolution!Statuses
    /\ said \in {"nothing", "ready", "lost", "error"}
    /\ notified \in BOOLEAN
    /\ poll \in BOOLEAN

LEMMA MarksKeepTypes ==
    ASSUME Evolution!TypeOK
    PROVE  /\ Evolution!MarkReady => MarksTyped'
           /\ Evolution!MarkLost => MarksTyped'
           /\ \A up : Evolution!Report(up) => MarksTyped'
<1>1. ASSUME Evolution!MarkReady PROVE MarksTyped'
    BY <1>1, Zenon DEF Evolution!TypeOK, Evolution!Statuses, Evolution!MarkReady, MarksTyped
<1>2. ASSUME Evolution!MarkLost PROVE MarksTyped'
    BY <1>2, Zenon DEF Evolution!TypeOK, Evolution!Statuses, Evolution!MarkLost,
       Evolution!NotifiedAfterLoss, MarksTyped
<1>3. ASSUME UNCHANGED <<status, said, notified, poll>> PROVE MarksTyped'
    BY <1>3 DEF Evolution!TypeOK, MarksTyped
<1> QED
    BY <1>1, <1>2, <1>3 DEF Evolution!Report

\* Every step keeps the types.
LEMMA EvolutionTyped ==
    ASSUME Evolution!TypeOK, Evolution!Next
    PROVE  Evolution!TypeOK'
<1> USE DEF Evolution!TypeOK, Evolution!Statuses, Evolution!Wires, Evolution!service, Evolution!local,
            Evolution!polling
<1>1. CASE Evolution!Initialize
  <2>1. EvolutionFlags'
      BY <1>1, Zenon DEF EvolutionFlags, Evolution!Initialize
  <2> QED
      BY <1>1, <2>1 DEF EvolutionFlags, Evolution!Initialize
<1>2. CASE Evolution!ServiceAnswers
    BY <1>2 DEF Evolution!ServiceAnswers
<1>3. CASE Evolution!InitializeFails
  <2>1. EvolutionFlags'
      BY <1>3, Zenon DEF EvolutionFlags, Evolution!InitializeFails, Evolution!CloseLocal,
             Evolution!Settles, Evolution!WireAfterClose
  <2> QED
      BY <1>3, <2>1 DEF EvolutionFlags, Evolution!InitializeFails, Evolution!CloseLocal,
             Evolution!Settles, Evolution!WireAfterClose
<1>4. CASE Evolution!RemoteConnects
    BY <1>4 DEF Evolution!RemoteConnects
<1>5. CASE Evolution!FirstStatus
  <2>1. MarksTyped'
      BY <1>5, MarksKeepTypes DEF Evolution!FirstStatus
  <2>2. (asking \in BOOLEAN /\ health \in BOOLEAN)'
      BY <1>5 DEF Evolution!FirstStatus, Evolution!Settles
  <2> QED
      BY <1>5, <2>1, <2>2 DEF MarksTyped, Evolution!FailureLimit, Evolution!FirstStatus,
             Evolution!Settles
<1>6. CASE Evolution!FirstQr
    BY <1>6 DEF Evolution!FirstQr, Evolution!Settles
<1>7. CASE Evolution!WireOpens
    BY <1>7 DEF Evolution!WireOpens
<1>8. CASE Evolution!WireFails
  <2>1. EvolutionFlags'
      BY <1>8, Zenon DEF EvolutionFlags, Evolution!WireFails, Evolution!AttemptFails,
             Evolution!CloseLocal, Evolution!Settles, Evolution!AfterFailure,
             Evolution!MaySchedule, Evolution!WireAfterClose
  <2> QED
      BY <1>8, <2>1 DEF EvolutionFlags, Evolution!WireFails, Evolution!AttemptFails,
             Evolution!CloseLocal, Evolution!Settles, Evolution!AfterFailure,
             Evolution!MaySchedule, Evolution!WireAfterClose
<1>9. CASE Evolution!OpenTimesOut
  <2>1. EvolutionFlags'
      BY <1>9, Zenon DEF EvolutionFlags, Evolution!OpenTimesOut, Evolution!AttemptFails,
             Evolution!CloseLocal, Evolution!Settles, Evolution!AfterFailure,
             Evolution!MaySchedule, Evolution!WireAfterClose
  <2> QED
      BY <1>9, <2>1 DEF EvolutionFlags, Evolution!OpenTimesOut, Evolution!AttemptFails,
             Evolution!CloseLocal, Evolution!Settles, Evolution!AfterFailure,
             Evolution!MaySchedule, Evolution!WireAfterClose
<1>10. CASE Evolution!LateWire
    BY <1>10 DEF Evolution!LateWire
<1>11. CASE Evolution!WireCloses
    BY <1>11 DEF Evolution!WireCloses, Evolution!MaySchedule
<1>12. CASE Evolution!WsTimerFires
  <2>1. EvolutionFlags'
      BY <1>12, Zenon DEF EvolutionFlags, Evolution!WsTimerFires
  <2> QED
      BY <1>12, <2>1 DEF EvolutionFlags, Evolution!WsTimerFires
<1>13. CASE Evolution!RemoteChanges
    BY <1>13 DEF Evolution!RemoteChanges
<1>14. CASE Evolution!EventHandled
  <2>1. MarksTyped'
      <3>1. CASE mail = "up"
          BY <1>14, <3>1, MarksKeepTypes DEF Evolution!EventHandled
      <3>2. CASE mail = "down"
          BY <1>14, <3>2, MarksKeepTypes DEF Evolution!EventHandled
      <3>3. CASE mail = "loggedOut"
          BY <1>14, <3>3, Zenon DEF MarksTyped, Evolution!EventHandled
      <3> QED
          BY <1>14, <3>1, <3>2, <3>3 DEF Evolution!EventHandled
  <2>2. (asking \in BOOLEAN /\ health \in BOOLEAN)'
      BY <1>14 DEF Evolution!EventHandled
  <2> QED
      BY <1>14, <2>1, <2>2 DEF MarksTyped, Evolution!FailureLimit, Evolution!EventHandled
<1>15. CASE Evolution!LinkingEvent
    BY <1>15 DEF Evolution!LinkingEvent
<1>16. CASE Evolution!HealthTicks
    BY <1>16 DEF Evolution!HealthTicks
<1>17. CASE Evolution!ProbeAnswered
    BY <1>17 DEF Evolution!ProbeAnswered
<1>18. CASE Evolution!ProbeHandled
  <2>1. MarksTyped'
      BY <1>18, MarksKeepTypes DEF Evolution!ProbeHandled
  <2>2. (asking \in BOOLEAN /\ health \in BOOLEAN)'
      BY <1>18 DEF Evolution!ProbeHandled
  <2> QED
      BY <1>18, <2>1, <2>2 DEF MarksTyped, Evolution!FailureLimit, Evolution!ProbeHandled
<1>19. CASE Evolution!ProbeFails
  <2>1. MarksTyped'
      <3>1. CASE failures' < Evolution!FailureLimit
          BY <1>19, <3>1 DEF MarksTyped, Evolution!ProbeFails
      <3>2. CASE ~ (failures' < Evolution!FailureLimit)
          BY <1>19, <3>2, MarksKeepTypes DEF Evolution!ProbeFails
      <3> QED
          BY <3>1, <3>2
  <2>2. (asking \in BOOLEAN /\ health \in BOOLEAN)'
      BY <1>19 DEF Evolution!ProbeFails
  <2> QED
      BY <1>19, <2>1, <2>2 DEF MarksTyped, Evolution!FailureLimit, Evolution!ProbeFails
<1>20. CASE Evolution!PollTicks
  <2>1. EvolutionFlags'
      BY <1>20, Zenon DEF EvolutionFlags, Evolution!PollTicks
  <2> QED
      BY <1>20, <2>1 DEF EvolutionFlags, Evolution!PollTicks
<1>21. CASE Evolution!QrAnswered
  <2>1. EvolutionFlags'
      BY <1>21, Zenon DEF EvolutionFlags, Evolution!QrAnswered
  <2> QED
      BY <1>21, <2>1 DEF EvolutionFlags, Evolution!QrAnswered
<1>22. CASE Evolution!SendFindsLoss
  <2>1. MarksTyped'
      BY <1>22, MarksKeepTypes DEF Evolution!SendFindsLoss
  <2>2. (asking \in BOOLEAN /\ health \in BOOLEAN)'
      BY <1>22 DEF Evolution!SendFindsLoss
  <2> QED
      BY <1>22, <2>1, <2>2 DEF MarksTyped, Evolution!FailureLimit, Evolution!SendFindsLoss
<1>23. CASE Evolution!LeaveBegins
    BY <1>23 DEF Evolution!LeaveBegins, Evolution!Stops
<1>24. CASE Evolution!LeaveEnds
  <2>1. EvolutionFlags'
      BY <1>24, Zenon DEF EvolutionFlags, Evolution!LeaveEnds, Evolution!CloseLocal,
             Evolution!WireAfterClose
  <2> QED
      BY <1>24, <2>1 DEF EvolutionFlags, Evolution!LeaveEnds, Evolution!CloseLocal,
             Evolution!WireAfterClose
<1>25. CASE Evolution!Destroys
  <2>1. EvolutionFlags'
      BY <1>25, Zenon DEF EvolutionFlags, Evolution!Destroys, Evolution!Stops,
             Evolution!CloseLocal, Evolution!WireAfterClose
  <2> QED
      BY <1>25, <2>1 DEF EvolutionFlags, Evolution!Destroys, Evolution!Stops,
             Evolution!CloseLocal, Evolution!WireAfterClose
<1> QED
    BY <1>1, <1>2, <1>3, <1>4, <1>5, <1>6, <1>7, <1>8, <1>9, <1>10, <1>11, <1>12, <1>13, <1>14,
           <1>15, <1>16, <1>17, <1>18, <1>19, <1>20, <1>21, <1>22, <1>23, <1>24, <1>25
       DEF Evolution!Next, Evolution!Begin, Evolution!Wire, Evolution!Events, Evolution!Polls

\* Every step of an Evolution Go adapter keeps its invariant, and is one of the contract.
LEMMA EvolutionStep ==
    ASSUME Evolution!TypeOK, EvolutionInv, Evolution!Next
    PROVE  EvolutionInv' /\ ContractStep
<1> USE DEF EvolutionInv, Told, Evolution!TypeOK, ContractStep, Contract!Next, Contract!Starts,
            Contract!Resolves, Contract!Rejects, Contract!Closes, Contract!Speaks,
            Evolution!service, Evolution!local, Evolution!polling
<1>1. CASE Evolution!Initialize
    BY <1>1 DEF Evolution!Initialize
<1>2. CASE Evolution!ServiceAnswers
    BY <1>2 DEF Evolution!ServiceAnswers
<1>3. CASE Evolution!InitializeFails
    BY <1>3 DEF Evolution!InitializeFails, Evolution!CloseLocal, Evolution!Settles,
           Evolution!WireAfterClose
<1>4. CASE Evolution!RemoteConnects
    BY <1>4 DEF Evolution!RemoteConnects
<1>5. CASE Evolution!FirstStatus
    BY <1>5 DEF Evolution!FirstStatus, Evolution!Report, Evolution!Settles, Evolution!MarkReady,
           Evolution!MarkLost, Evolution!Ignored, Evolution!NotifiedAfterLoss
<1>6. CASE Evolution!FirstQr
    BY <1>6 DEF Evolution!FirstQr, Evolution!Settles
<1>7. CASE Evolution!WireOpens
    BY <1>7 DEF Evolution!WireOpens
<1>8. CASE Evolution!WireFails
    BY <1>8 DEF Evolution!WireFails, Evolution!AttemptFails, Evolution!CloseLocal,
           Evolution!Settles, Evolution!AfterFailure, Evolution!MaySchedule,
           Evolution!WireAfterClose
<1>9. CASE Evolution!OpenTimesOut
    BY <1>9 DEF Evolution!OpenTimesOut, Evolution!AttemptFails, Evolution!CloseLocal,
           Evolution!Settles, Evolution!AfterFailure, Evolution!MaySchedule,
           Evolution!WireAfterClose
<1>10. CASE Evolution!LateWire
    BY <1>10 DEF Evolution!LateWire
<1>11. CASE Evolution!WireCloses
    BY <1>11 DEF Evolution!WireCloses, Evolution!MaySchedule
<1>12. CASE Evolution!WsTimerFires
    BY <1>12 DEF Evolution!WsTimerFires
<1>13. CASE Evolution!RemoteChanges
    BY <1>13 DEF Evolution!RemoteChanges
<1>14. CASE Evolution!EventHandled
  <2>1. CASE mail = "up"
      BY <1>14, <2>1 DEF Evolution!EventHandled, Evolution!MarkReady
  <2>2. CASE mail = "down" /\ Evolution!Ignored
      BY <1>14, <2>2 DEF Evolution!EventHandled, Evolution!MarkLost, Evolution!NotifiedAfterLoss
  <2>3. CASE mail = "down" /\ ~ Evolution!Ignored
      BY <1>14, <2>3 DEF Evolution!EventHandled, Evolution!MarkLost,
             Evolution!NotifiedAfterLoss, Evolution!Ignored
  <2>4. CASE mail = "loggedOut"
      BY <1>14, <2>4 DEF Evolution!EventHandled
  <2> QED
      BY <1>14, <2>1, <2>2, <2>3, <2>4 DEF Evolution!EventHandled
<1>15. CASE Evolution!LinkingEvent
    BY <1>15 DEF Evolution!LinkingEvent
<1>16. CASE Evolution!HealthTicks
    BY <1>16 DEF Evolution!HealthTicks
<1>17. CASE Evolution!ProbeAnswered
    BY <1>17 DEF Evolution!ProbeAnswered
<1>18. CASE Evolution!ProbeHandled
    BY <1>18 DEF Evolution!ProbeHandled, Evolution!Report, Evolution!MarkReady,
           Evolution!MarkLost, Evolution!Ignored, Evolution!NotifiedAfterLoss
<1>19. CASE Evolution!ProbeFails
    BY <1>19 DEF Evolution!ProbeFails, Evolution!FailureLimit, Evolution!MarkLost,
           Evolution!Ignored, Evolution!NotifiedAfterLoss
<1>20. CASE Evolution!PollTicks
    BY <1>20 DEF Evolution!PollTicks
<1>21. CASE Evolution!QrAnswered
    BY <1>21 DEF Evolution!QrAnswered
<1>22. CASE Evolution!SendFindsLoss
    BY <1>22 DEF Evolution!SendFindsLoss, Evolution!MarkLost, Evolution!Ignored,
           Evolution!NotifiedAfterLoss
<1>23. CASE Evolution!LeaveBegins
    BY <1>23 DEF Evolution!LeaveBegins, Evolution!Stops
<1>24. CASE Evolution!LeaveEnds
    BY <1>24 DEF Evolution!LeaveEnds, Evolution!CloseLocal, Evolution!WireAfterClose
<1>25. CASE Evolution!Destroys
    BY <1>25 DEF Evolution!Destroys, Evolution!Stops, Evolution!CloseLocal,
           Evolution!WireAfterClose
<1> QED
    BY <1>1, <1>2, <1>3, <1>4, <1>5, <1>6, <1>7, <1>8, <1>9, <1>10, <1>11, <1>12, <1>13, <1>14,
           <1>15, <1>16, <1>17, <1>18, <1>19, <1>20, <1>21, <1>22, <1>23, <1>24, <1>25
       DEF Evolution!Next, Evolution!Begin, Evolution!Wire, Evolution!Events, Evolution!Polls

-----------------------------------------------------------------------------
(* whatsapp-web.js *)

\* The variables of whatsapp-web.js that are true or false.
WwebjsFlags ==
    /\ tearing \in BOOLEAN /\ attached \in BOOLEAN /\ drawing \in BOOLEAN /\ lateQr \in BOOLEAN
    /\ loop \in BOOLEAN /\ probing \in BOOLEAN /\ connected \in BOOLEAN /\ reloaded \in BOOLEAN
    /\ ending \in BOOLEAN

\* Every step keeps the types.
LEMMA WwebjsTyped ==
    ASSUME Wwebjs!TypeOK, Wwebjs!Next
    PROVE  Wwebjs!TypeOK'
<1> USE DEF Wwebjs!TypeOK, Wwebjs!Statuses, Wwebjs!reconcile
<1>1. CASE Wwebjs!Initialize
    BY <1>1 DEF Wwebjs!Initialize
<1>2. CASE Wwebjs!VersionResolved
    BY <1>2 DEF Wwebjs!VersionResolved, Wwebjs!Unwanted, Wwebjs!Settles
<1>3. CASE Wwebjs!ClientInitialized
    BY <1>3 DEF Wwebjs!ClientInitialized, Wwebjs!Settles
<1>4. CASE Wwebjs!InitializeFails
    BY <1>4 DEF Wwebjs!InitializeFails, Wwebjs!Settles
<1>5. CASE Wwebjs!QrShown
    BY <1>5 DEF Wwebjs!QrShown, Wwebjs!Live
<1>6. CASE Wwebjs!QrDrawn
  <2>1. WwebjsFlags'
      BY <1>6, Zenon DEF WwebjsFlags, Wwebjs!QrDrawn
  <2> QED
      BY <1>6, <2>1 DEF WwebjsFlags, Wwebjs!QrDrawn
<1>7. CASE Wwebjs!Authenticated
  <2>1. WwebjsFlags'
      BY <1>7, Zenon DEF WwebjsFlags, Wwebjs!Authenticated, Wwebjs!Live,
             Wwebjs!ScheduleReconcile
  <2> QED
      BY <1>7, <2>1, WwebjsAssumption DEF WwebjsFlags, Wwebjs!Authenticated, Wwebjs!Live,
             Wwebjs!ScheduleReconcile, Wwebjs!TimesAssumption
<1>8. CASE Wwebjs!BridgeAttaches
    BY <1>8 DEF Wwebjs!BridgeAttaches, Wwebjs!Live
<1>9. CASE Wwebjs!ReadyEvent
  <2>1. WwebjsFlags'
      BY <1>9, Zenon DEF WwebjsFlags, Wwebjs!ReadyEvent, Wwebjs!Live, Wwebjs!MarkReady,
             Wwebjs!ClearReconcile
  <2> QED
      BY <1>9, <2>1, WwebjsAssumption DEF WwebjsFlags, Wwebjs!ReadyEvent, Wwebjs!Live,
             Wwebjs!MarkReady, Wwebjs!ClearReconcile, Wwebjs!TimesAssumption
<1>10. CASE Wwebjs!Disconnected
  <2>1. WwebjsFlags'
      BY <1>10, Zenon DEF WwebjsFlags, Wwebjs!Disconnected, Wwebjs!Live, Wwebjs!ClearReconcile
  <2> QED
      BY <1>10, <2>1, WwebjsAssumption DEF WwebjsFlags, Wwebjs!Disconnected, Wwebjs!Live,
             Wwebjs!ClearReconcile, Wwebjs!TimesAssumption
<1>11. CASE Wwebjs!AuthFailure
  <2>1. WwebjsFlags'
      BY <1>11, Zenon DEF WwebjsFlags, Wwebjs!AuthFailure, Wwebjs!Live, Wwebjs!ClearReconcile
  <2> QED
      BY <1>11, <2>1, WwebjsAssumption DEF WwebjsFlags, Wwebjs!AuthFailure, Wwebjs!Live,
             Wwebjs!ClearReconcile, Wwebjs!TimesAssumption
<1>12. CASE Wwebjs!TickStops
  <2>1. WwebjsFlags'
      BY <1>12, Zenon DEF WwebjsFlags, Wwebjs!TickStops, Wwebjs!ClearReconcile
  <2> QED
      BY <1>12, <2>1, WwebjsAssumption DEF WwebjsFlags, Wwebjs!TickStops, Wwebjs!ClearReconcile,
             Wwebjs!TimesAssumption
<1>13. CASE Wwebjs!TickGivesUp
  <2>1. WwebjsFlags'
      BY <1>13, Zenon DEF WwebjsFlags, Wwebjs!TickGivesUp, Wwebjs!Overdue, Wwebjs!ClearReconcile
  <2> QED
      BY <1>13, <2>1, WwebjsAssumption DEF WwebjsFlags, Wwebjs!TickGivesUp, Wwebjs!Overdue,
             Wwebjs!ClearReconcile, Wwebjs!TimesAssumption
<1>14. CASE Wwebjs!TickProbes
  <2>1. WwebjsFlags'
      BY <1>14, Zenon DEF WwebjsFlags, Wwebjs!TickProbes, Wwebjs!Overdue, Wwebjs!Ticking
  <2> QED
      BY <1>14, <2>1, WwebjsAssumption DEF WwebjsFlags, Wwebjs!MaxProbes, Wwebjs!TickProbes,
             Wwebjs!Overdue, Wwebjs!Ticking, Wwebjs!TimesAssumption
<1>15. CASE Wwebjs!ProbeSucceeds
  <2>1. WwebjsFlags'
      BY <1>15, Zenon DEF WwebjsFlags, Wwebjs!ProbeSucceeds, Wwebjs!MarkReady,
             Wwebjs!ClearReconcile
  <2> QED
      BY <1>15, <2>1, WwebjsAssumption DEF WwebjsFlags, Wwebjs!MaxProbes, Wwebjs!ProbeSucceeds,
             Wwebjs!MarkReady, Wwebjs!ClearReconcile, Wwebjs!TimesAssumption
<1>16. CASE Wwebjs!ProbeFails
  <2>1. WwebjsFlags'
      BY <1>16, Zenon DEF WwebjsFlags, Wwebjs!ProbeFails, Wwebjs!Reloads
  <2> QED
      BY <1>16, <2>1 DEF WwebjsFlags, Wwebjs!MaxProbes, Wwebjs!ProbeFails, Wwebjs!Reloads
<1>17. CASE Wwebjs!TeardownBegins
  <2>1. WwebjsFlags'
      BY <1>17, Zenon DEF WwebjsFlags, Wwebjs!TeardownBegins, Wwebjs!ClearReconcile
  <2> QED
      BY <1>17, <2>1, WwebjsAssumption DEF WwebjsFlags, Wwebjs!TeardownBegins,
             Wwebjs!ClearReconcile, Wwebjs!TimesAssumption
<1>18. CASE Wwebjs!TeardownEnds
  <2>1. WwebjsFlags'
      BY <1>18, Zenon DEF WwebjsFlags, Wwebjs!TeardownEnds, Wwebjs!ClearReconcile
  <2> QED
      BY <1>18, <2>1, WwebjsAssumption DEF WwebjsFlags, Wwebjs!TeardownEnds,
             Wwebjs!ClearReconcile, Wwebjs!TimesAssumption
<1> QED
    BY <1>1, <1>2, <1>3, <1>4, <1>5, <1>6, <1>7, <1>8, <1>9, <1>10, <1>11, <1>12, <1>13, <1>14,
           <1>15, <1>16, <1>17, <1>18 DEF Wwebjs!Next, Wwebjs!Begin, Wwebjs!Events, Wwebjs!Tick

\* Every step of a whatsapp-web.js adapter keeps its invariant, and is one of the contract.
LEMMA WwebjsStep ==
    ASSUME Wwebjs!TypeOK, WwebjsInv, Wwebjs!Next
    PROVE  WwebjsInv' /\ ContractStep
<1> USE DEF WwebjsInv, Told, Wwebjs!TypeOK, ContractStep, Contract!Next, Contract!Starts,
            Contract!Resolves, Contract!Rejects, Contract!Closes, Contract!Speaks,
            Wwebjs!reconcile
<1>1. CASE Wwebjs!Initialize
    BY <1>1 DEF Wwebjs!Initialize
<1>2. CASE Wwebjs!VersionResolved
    BY <1>2 DEF Wwebjs!VersionResolved, Wwebjs!Unwanted, Wwebjs!Settles
<1>3. CASE Wwebjs!ClientInitialized
    BY <1>3 DEF Wwebjs!ClientInitialized, Wwebjs!Settles
<1>4. CASE Wwebjs!InitializeFails
    BY <1>4 DEF Wwebjs!InitializeFails, Wwebjs!Settles
<1>5. CASE Wwebjs!QrShown
    BY <1>5 DEF Wwebjs!QrShown, Wwebjs!Live
<1>6. CASE Wwebjs!QrDrawn
    BY <1>6 DEF Wwebjs!QrDrawn
<1>7. CASE Wwebjs!Authenticated
    BY <1>7 DEF Wwebjs!Authenticated, Wwebjs!Live, Wwebjs!ScheduleReconcile
<1>8. CASE Wwebjs!BridgeAttaches
    BY <1>8 DEF Wwebjs!BridgeAttaches, Wwebjs!Live
<1>9. CASE Wwebjs!ReadyEvent
    BY <1>9 DEF Wwebjs!ReadyEvent, Wwebjs!Live, Wwebjs!MarkReady, Wwebjs!ClearReconcile
<1>10. CASE Wwebjs!Disconnected
    BY <1>10 DEF Wwebjs!Disconnected, Wwebjs!Live, Wwebjs!ClearReconcile
<1>11. CASE Wwebjs!AuthFailure
    BY <1>11 DEF Wwebjs!AuthFailure, Wwebjs!Live, Wwebjs!ClearReconcile
<1>12. CASE Wwebjs!TickStops
    BY <1>12 DEF Wwebjs!TickStops, Wwebjs!ClearReconcile
<1>13. CASE Wwebjs!TickGivesUp
    BY <1>13 DEF Wwebjs!TickGivesUp, Wwebjs!Overdue, Wwebjs!ClearReconcile
<1>14. CASE Wwebjs!TickProbes
    BY <1>14 DEF Wwebjs!TickProbes, Wwebjs!Overdue, Wwebjs!Ticking, Wwebjs!MaxProbes
<1>15. CASE Wwebjs!ProbeSucceeds
    BY <1>15 DEF Wwebjs!ProbeSucceeds, Wwebjs!MarkReady, Wwebjs!ClearReconcile
<1>16. CASE Wwebjs!ProbeFails
    BY <1>16 DEF Wwebjs!ProbeFails, Wwebjs!Reloads
<1>17. CASE Wwebjs!TeardownBegins
    BY <1>17 DEF Wwebjs!TeardownBegins, Wwebjs!ClearReconcile
<1>18. CASE Wwebjs!TeardownEnds
    BY <1>18 DEF Wwebjs!TeardownEnds, Wwebjs!ClearReconcile
<1> QED
    BY <1>1, <1>2, <1>3, <1>4, <1>5, <1>6, <1>7, <1>8, <1>9, <1>10, <1>11, <1>12, <1>13, <1>14,
           <1>15, <1>16, <1>17, <1>18 DEF Wwebjs!Next, Wwebjs!Begin, Wwebjs!Events, Wwebjs!Tick

-----------------------------------------------------------------------------
(* The factory's adapter *)

LEMMA StartsSound == Init => IInv
<1> SUFFICES ASSUME Init PROVE IInv
    OBVIOUS
<1>1. kind \in Kinds
    BY DEF Init, Created, Kinds
<1>2. Baileys!TypeOK /\ Evolution!TypeOK /\ Wwebjs!TypeOK
  <2>1. 0 \in 0..MaxReconnects /\ 0 \in 0..Deadline /\ 0 \in 0..Evolution!FailureLimit
                             /\ 0 \in 0..Wwebjs!MaxProbes
      BY BaileysAssumption, WwebjsAssumption DEF Baileys!MaxReconnectsAssumption,
         Wwebjs!TimesAssumption, Evolution!FailureLimit, Wwebjs!MaxProbes
  <2>2. Baileys!TypeOK
      BY <2>1, Zenon DEF Init, Baileys!Init, Baileys!TypeOK, Baileys!Statuses
  <2>3. Evolution!TypeOK
      BY <2>1, Zenon DEF Init, Evolution!Init, Evolution!TypeOK, Evolution!Statuses, Evolution!Wires
  <2>4. Wwebjs!TypeOK
      BY <2>1, Zenon DEF Init, Wwebjs!Init, Wwebjs!TypeOK, Wwebjs!Statuses
  <2> QED
      BY <2>2, <2>3, <2>4
<1>3. BaileysInv
    BY DEF Init, Baileys!Init, BaileysInv, Told, Baileys!Alive
<1>4. EvolutionInv
    BY DEF Init, Evolution!Init, EvolutionInv, Told
<1>5. WwebjsInv
    BY DEF Init, Wwebjs!Init, WwebjsInv, Told
<1> QED
    BY <1>1, <1>2, <1>3, <1>4, <1>5 DEF IInv, TypeOK

\* The variables the adapters share have one type.
LEMMA StepSound ==
    ASSUME IInv, [Next]_vars
    PROVE  IInv' /\ ContractStep
<1> USE DEF IInv, TypeOK
<1>1. CASE BaileysNext
  <2>1. kind' = kind /\ kind = "baileys" /\ UNCHANGED <<evolution, wwebjs>>
      BY <1>1 DEF BaileysNext
  <2>2. Baileys!TypeOK' /\ BaileysInv' /\ ContractStep
      BY <1>1, <2>1, BaileysStep DEF BaileysNext
  <2>3. Evolution!TypeOK' /\ Wwebjs!TypeOK'
      BY <2>1, <2>2 DEF Baileys!TypeOK, Baileys!Statuses, Evolution!TypeOK, Evolution!Statuses,
         Evolution!Wires, Wwebjs!TypeOK, Wwebjs!Statuses, evolution, wwebjs
  <2> QED
      BY <2>1, <2>2, <2>3
<1>2. CASE EvolutionNext
  <2>1. kind' = kind /\ kind = "evolution-go" /\ UNCHANGED <<baileys, wwebjs>>
      BY <1>2 DEF EvolutionNext
  <2>2. Evolution!TypeOK' /\ EvolutionInv' /\ ContractStep
      BY <1>2, <2>1, EvolutionTyped, EvolutionStep DEF EvolutionNext
  <2>3. Baileys!TypeOK' /\ Wwebjs!TypeOK'
      BY <2>1, <2>2 DEF Baileys!TypeOK, Baileys!Statuses, Evolution!TypeOK, Evolution!Statuses,
         Wwebjs!TypeOK, Wwebjs!Statuses, baileys, wwebjs
  <2> QED
      BY <2>1, <2>2, <2>3
<1>3. CASE WwebjsNext
  <2>1. kind' = kind /\ kind = "whatsapp-web.js" /\ UNCHANGED <<leaving, baileys, evolution>>
      BY <1>3 DEF WwebjsNext
  <2>2. Wwebjs!TypeOK' /\ WwebjsInv' /\ ContractStep
      BY <1>3, <2>1, WwebjsTyped, WwebjsStep DEF WwebjsNext
  <2>3. Baileys!TypeOK' /\ Evolution!TypeOK'
      BY <2>1, <2>2 DEF Baileys!TypeOK, Baileys!Statuses, Evolution!TypeOK, Evolution!Statuses,
         Evolution!Wires, Wwebjs!TypeOK, Wwebjs!Statuses, baileys, evolution
  <2> QED
      BY <2>1, <2>2, <2>3
<1>4. CASE UNCHANGED vars
  <2>1. UNCHANGED <<kind, common, baileys, evolution, wwebjs>>
      BY <1>4 DEF vars
  <2>2. Baileys!TypeOK' /\ Evolution!TypeOK' /\ Wwebjs!TypeOK'
      BY <2>1 DEF Baileys!TypeOK, Evolution!TypeOK, Wwebjs!TypeOK, common, baileys, evolution, wwebjs
  <2>3. kind' = kind /\ (BaileysInv => BaileysInv') /\ (EvolutionInv => EvolutionInv')
                    /\ (WwebjsInv => WwebjsInv')
      BY <2>1 DEF BaileysInv, EvolutionInv, WwebjsInv, Told, Baileys!Alive, common, baileys,
         evolution, wwebjs
  <2> QED
      BY <2>1, <2>2, <2>3 DEF ContractStep, common
<1> QED
    BY <1>1, <1>2, <1>3, <1>4 DEF Next

LEMMA AlwaysSound == Spec => []IInv
<1>1. IInv /\ [Next]_vars => IInv'
    BY StepSound
<1> QED
    BY <1>1, StartsSound, PTL DEF Spec

-----------------------------------------------------------------------------
(* Theorems *)

\* Whichever adapter EngineFactory.create makes, its state is typed; the attempts and
\* the ticks stay within their limits.
THEOREM TypeCorrect == Spec => []TypeOK
<1>1. IInv => TypeOK
    BY DEF IInv
<1> QED
    BY <1>1, AlwaysSound, PTL

\* Refinement: BaileysAdapter, EvolutionGoAdapter and WhatsAppWebJsAdapter, which share
\* no code, all implement what SessionService relies on.
THEOREM AdaptersKeepContract == Spec => KeepsContract
<1>1. Init => Contract!Init
    BY DEF Init, Baileys!Init, Contract!Init
<1>2. IInv /\ [Next]_vars => [Contract!Next]_(Contract!vars)
    BY StepSound DEF ContractStep, Contract!vars
<1> QED
    BY <1>1, <1>2, AlwaysSound, PTL DEF Spec, KeepsContract, Contract!Spec

\* disconnect, logout and destroy leave no timer, socket or browser behind, at
\* whatever await of initialize or of a reconnect they come.
THEOREM AlwaysComesToRest == Spec => []ClosedComesToRest
<1>1. IInv => ClosedComesToRest
    BY DEF IInv, BaileysInv, EvolutionInv, WwebjsInv, ClosedComesToRest, Baileys!ClosedStaysDown,
       Evolution!ClosedIsQuiet, Wwebjs!ClosedHasNoClient
<1> QED
    BY <1>1, AlwaysSound, PTL

\* An adapter in use whose getStatus is READY has called onReady, and after that
\* neither onDisconnected nor onError.
THEOREM ReadyAlwaysTold == Spec => []ReadyIsTold
<1>1. IInv => ReadyIsTold
    BY DEF IInv, TypeOK, Kinds, BaileysInv, EvolutionInv, WwebjsInv, Told, ReadyIsTold
<1> QED
    BY <1>1, AlwaysSound, PTL

=============================================================================
