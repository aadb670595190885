---------------------------- MODULE EvolutionSocket ----------------------------
(***************************************************************************)
(* One EvolutionGoAdapter: it reattaches to a WhatsApp connection that the *)
(* Evolution Go service keeps, hears of it over an event WebSocket that it *)
(* reopens by itself, and polls the service besides.  Each step is the     *)
(* code between two awaits.                                                *)
(***************************************************************************)
EXTENDS Naturals

VARIABLES
    owner,       \* the calls made: see EngineContract
    said,        \* the last callback that matters to a reconnect
    status,      \* this.status
    remote,      \* the service's WhatsApp connection is up and logged in
    mail,        \* an event on its way over the WebSocket
    closing,     \* this.intentionalClose
    initialized, \* this.initialized
    phase,       \* the await initialize is suspended in
    wire,        \* this.socket
    opening,     \* who awaits openWebSocket
    wsTimer,     \* websocketReconnectTimer
    health,      \* healthTimer
    poll,        \* qrTimer
    probe,       \* refreshRemoteStatus of the health monitor: its request
    asking,      \* refreshQRCode of the poll awaits its answer
    failures,    \* consecutiveHealthFailures
    notified,    \* readyNotified
    leaving,     \* disconnect or logout awaits the service
    interrupted  \* history: the adapter was closed while it initialized

service == <<remote, mail>>
local == <<closing, initialized, wire, opening, wsTimer, health, poll>>
polling == <<probe, asking, failures>>
vars == <<owner, said, status, service, local, phase, polling, notified, leaving, interrupted>>

Statuses == {"disconnected", "initializing", "qr_ready", "authenticating", "ready", "failed"}
FailureLimit == 3

\* `late`: openWebSocket has given it up; `deaf`: it has opened afterwards, and
\* nothing listens to it; `stale`: it has been closed, and is still this.socket;
\* `aborted`: closed while it was connecting.
Wires == {"none", "connecting", "aborted", "late", "deaf", "stale", "open"}

TypeOK ==
    /\ owner \in {"new", "starting", "running", "failed", "closed"}
    /\ said \in {"nothing", "ready", "lost", "error"}
    /\ status \in Statuses
    /\ remote \in BOOLEAN
    /\ mail \in {"none", "up", "down", "loggedOut"}
    /\ closing \in BOOLEAN
    /\ initialized \in BOOLEAN
    /\ phase \in {"none", "service", "socket", "connect", "status", "qr", "over"}
    /\ wire \in Wires
    /\ opening \in {"nobody", "initialize", "timer"}
    /\ wsTimer \in BOOLEAN
    /\ health \in BOOLEAN
    /\ poll \in BOOLEAN
    /\ probe \in {"none", "asked", "up", "down"}
    /\ asking \in BOOLEAN
    /\ failures \in 0..FailureLimit
    /\ notified \in BOOLEAN
    /\ leaving \in BOOLEAN
    /\ interrupted \in BOOLEAN

-----------------------------------------------------------------------------
(* What the handlers share *)

\* markReady: the callback once, until a loss is told.
MarkReady ==
    /\ status' = "ready"
    /\ poll' = FALSE
    /\ notified' = TRUE
    /\ said' = IF notified THEN said ELSE "ready"

\* Mutant: a loss is told although the adapter is being closed.
Ignored_OnlyTwice == status = "disconnected"

\* What handleDisconnectedEvent returns early upon.
Ignored == closing \/ status = "disconnected"

\* Mutant: a loss leaves readyNotified alone.
NotifiedAfterLoss_Kept == notified

NotifiedAfterLoss == IF Ignored THEN notified ELSE FALSE

\* handleDisconnectedEvent
MarkLost ==
    /\ status' = IF Ignored THEN status ELSE "disconnected"
    /\ said' = IF Ignored THEN said ELSE "lost"
    /\ notified' = NotifiedAfterLoss
    /\ UNCHANGED poll

\* Mutant: only good news is looked at.
Report_OnlyUp(up) == IF up THEN MarkReady ELSE UNCHANGED <<status, said, notified, poll>>

\* A report of the service: connected and logged in, or not.
Report(up) ==
    IF up THEN MarkReady
    ELSE IF status = "ready" THEN MarkLost
    ELSE UNCHANGED <<status, said, notified, poll>>

\* this.socket after closeLocalResources; a connecting one fails for its waiter.
WireAfterClose == IF opening # "nobody" /\ wire = "connecting" THEN "aborted" ELSE "none"

\* closeLocalResources
CloseLocal ==
    /\ initialized' = FALSE
    /\ wire' = WireAfterClose
    /\ wsTimer' = FALSE
    /\ health' = FALSE
    /\ poll' = FALSE
    /\ mail' = "none"

MaySchedule == ~ closing /\ initialized

\* Mutant: only a close is followed by another attempt, not a failed attempt.
AfterFailure_Nothing == wsTimer

\* scheduleWebSocketReconnect, from the catch of the attempt before.
AfterFailure == wsTimer \/ MaySchedule

-----------------------------------------------------------------------------
(* initialize *)

Initialize ==
    /\ owner = "new"
    /\ owner' = "starting"
    /\ closing' = FALSE
    /\ initialized' = TRUE
    /\ notified' = FALSE
    /\ status' = "initializing"
    /\ phase' = "service"
    /\ UNCHANGED <<said, service, wire, opening, wsTimer, health, poll, polling, leaving, interrupted>>

Settles(outcome) == owner' = IF owner = "starting" THEN outcome ELSE owner

\* assertServiceAvailable, ensureRemoteInstance; the socket is made.
ServiceAnswers ==
    /\ phase = "service"
    /\ phase' = "socket"
    /\ wire' = "connecting"
    /\ opening' = "initialize"
    /\ UNCHANGED <<owner, said, status, service, closing, initialized, wsTimer, health, poll,
                   polling, notified, leaving, interrupted>>

\* An await of initialize rejects.
InitializeFails ==
    /\ phase \in {"service", "connect", "status", "qr"}
    /\ phase' = "over"
    /\ status' = "failed"
    /\ said' = "error"
    /\ CloseLocal
    /\ Settles("failed")
    /\ UNCHANGED <<remote, closing, opening, polling, notified, leaving, interrupted>>

\* connectRemoteInstance
RemoteConnects ==
    /\ phase = "connect"
    /\ phase' = "status"
    /\ UNCHANGED <<owner, said, status, service, local, polling, notified, leaving, interrupted>>

\* refreshRemoteStatus, then the health monitor.
FirstStatus ==
    /\ phase = "status"
    /\ failures' = 0
    /\ Report(remote)
    /\ health' = TRUE
    /\ IF status' = "ready"
         THEN phase' = "over" /\ Settles("running")
         ELSE phase' = "qr" /\ UNCHANGED owner
    /\ UNCHANGED <<service, closing, initialized, wire, opening, wsTimer, probe, asking, leaving,
                   interrupted>>

\* refreshQRCode, with a code or without one, then the poll.
FirstQr ==
    /\ phase = "qr"
    /\ phase' = "over"
    /\ status' \in {status, "qr_ready"}
    /\ poll' = TRUE
    /\ Settles("running")
    /\ UNCHANGED <<said, service, closing, initialized, wire, opening, wsTimer, health, polling,
                   notified, leaving, interrupted>>

-----------------------------------------------------------------------------
(* The event WebSocket *)

WireOpens ==
    /\ opening # "nobody"
    /\ wire = "connecting"
    /\ wire' = "open"
    /\ opening' = "nobody"
    /\ phase' = IF opening = "initialize" THEN "connect" ELSE phase
    /\ UNCHANGED <<owner, said, status, service, closing, initialized, wsTimer, health, poll, polling,
                   notified, leaving, interrupted>>

\* openWebSocket rejects: initialize fails, a reattachment is tried again.
AttemptFails(left) ==
    /\ opening' = "nobody"
    /\ IF opening = "initialize"
         THEN /\ phase' = "over"
              /\ status' = "failed"
              /\ said' = "error"
              /\ CloseLocal
              /\ Settles("failed")
         ELSE /\ wire' = left
              /\ wsTimer' = AfterFailure
              /\ UNCHANGED <<owner, said, status, mail, phase, initialized, health, poll>>
    /\ UNCHANGED <<remote, closing, polling, notified, leaving, interrupted>>

WireFails ==
    /\ opening # "nobody"
    /\ wire \in {"connecting", "aborted"}
    /\ AttemptFails("none")

\* After 10 s; the socket itself is not closed.
OpenTimesOut ==
    /\ opening # "nobody"
    /\ wire = "connecting"
    /\ AttemptFails("late")

\* What nobody waits for any more opens, or fails; nobody notices its close either.
LateWire ==
    /\ \/ wire = "late" /\ wire' \in {"deaf", "stale"}
       \/ wire = "deaf" /\ wire' = "stale"
    /\ UNCHANGED <<owner, said, status, service, closing, initialized, opening, wsTimer, health, poll,
                   phase, polling, notified, leaving, interrupted>>

\* handleWebSocketClose
WireCloses ==
    /\ wire = "open"
    /\ wire' = "none"
    /\ mail' = "none"
    /\ wsTimer' = (wsTimer \/ MaySchedule)
    /\ UNCHANGED <<owner, said, status, remote, closing, initialized, opening, health, poll, phase,
                   polling, notified, leaving, interrupted>>

\* The timer does not look at intentionalClose; a socket that is open is kept.
WsTimerFires ==
    /\ wsTimer
    /\ wsTimer' = FALSE
    /\ IF wire \in {"open", "deaf"}
         THEN UNCHANGED <<wire, opening>>
         ELSE wire' = "connecting" /\ opening' = "timer"
    /\ UNCHANGED <<owner, said, status, service, closing, initialized, health, poll, phase, polling,
                   notified, leaving, interrupted>>

\* The service's connection comes and goes, and tells those who listen.
RemoteChanges ==
    /\ mail = "none"
    /\ remote' = ~ remote
    /\ \E event \in {"up", "down", "loggedOut"} :
           /\ (event = "up") = remote'
           /\ mail' = IF wire = "open" THEN event ELSE "none"
    /\ UNCHANGED <<owner, said, status, local, phase, polling, notified, leaving, interrupted>>

EventHandled ==
    /\ mail # "none"
    /\ mail' = "none"
    /\ \/ mail = "up" /\ MarkReady
       \/ mail = "down" /\ MarkLost
       \/ /\ mail = "loggedOut"
          /\ status' = "failed"
          /\ said' = "error"
          /\ notified' = FALSE
          /\ UNCHANGED poll
    /\ UNCHANGED <<owner, remote, closing, initialized, wire, opening, wsTimer, health, phase, polling,
                   leaving, interrupted>>

\* A qrcode or qrsuccess event.
LinkingEvent ==
    /\ wire = "open"
    /\ ~ remote
    /\ status' \in {"qr_ready", "authenticating"}
    /\ UNCHANGED <<owner, said, service, local, phase, polling, notified, leaving, interrupted>>

-----------------------------------------------------------------------------
(* Polling *)

HealthTicks ==
    /\ health
    /\ probe = "none"
    /\ probe' = "asked"
    /\ UNCHANGED <<owner, said, status, service, local, phase, asking, failures, notified, leaving,
                   interrupted>>

\* The service answers; the answer travels.
ProbeAnswered ==
    /\ probe = "asked"
    /\ probe' = IF remote THEN "up" ELSE "down"
    /\ UNCHANGED <<owner, said, status, service, local, phase, asking, failures, notified, leaving,
                   interrupted>>

ProbeHandled ==
    /\ probe \in {"up", "down"}
    /\ probe' = "none"
    /\ failures' = 0
    /\ Report(probe = "up")
    /\ UNCHANGED <<owner, service, closing, initialized, wire, opening, wsTimer, health, phase, asking,
                   leaving, interrupted>>

\* handleHealthFailure
ProbeFails ==
    /\ probe = "asked"
    /\ probe' = "none"
    /\ failures' = IF failures = FailureLimit THEN failures ELSE failures + 1
    /\ IF failures' < FailureLimit
         THEN UNCHANGED <<status, said, notified, poll>>
         ELSE MarkLost
    /\ UNCHANGED <<owner, service, closing, initialized, wire, opening, wsTimer, health, phase, asking,
                   leaving, interrupted>>

PollTicks ==
    /\ poll
    /\ IF status = "ready" \/ closing
         THEN poll' = FALSE /\ UNCHANGED asking
         ELSE asking' = TRUE /\ UNCHANGED poll
    /\ UNCHANGED <<owner, said, status, service, closing, initialized, wire, opening, wsTimer, health,
                   phase, probe, failures, notified, leaving, interrupted>>

\* Whatever the adapter has become meanwhile.
QrAnswered ==
    /\ asking
    /\ asking' = FALSE
    /\ status' \in {status, "qr_ready"}
    /\ UNCHANGED <<owner, said, service, local, phase, probe, failures, notified, leaving, interrupted>>

\* instanceOperation: a send finds the connection gone.
SendFindsLoss ==
    /\ status = "ready"
    /\ ~ remote
    /\ MarkLost
    /\ UNCHANGED <<owner, service, closing, initialized, wire, opening, wsTimer, health, phase, polling,
                   leaving, interrupted>>

-----------------------------------------------------------------------------
(* disconnect, logout, destroy *)

Stops ==
    /\ owner \notin {"new", "closed"}
    /\ owner' = "closed"
    /\ closing' = TRUE
    /\ interrupted' = (phase # "over")

\* disconnect() and logout() ask the service first.
LeaveBegins ==
    /\ Stops
    /\ leaving' = TRUE
    /\ UNCHANGED <<said, status, service, initialized, wire, opening, wsTimer, health, poll, phase,
                   polling, notified>>

LeaveEnds ==
    /\ leaving
    /\ leaving' = FALSE
    /\ CloseLocal
    /\ status' = "disconnected"
    /\ UNCHANGED <<owner, said, remote, closing, opening, phase, polling, notified, interrupted>>

Destroys ==
    /\ Stops
    /\ CloseLocal
    /\ status' = "disconnected"
    /\ UNCHANGED <<said, remote, opening, phase, polling, notified, leaving>>

-----------------------------------------------------------------------------
Init ==
    /\ owner = "new"
    /\ said = "nothing"
    /\ status = "disconnected"
    /\ remote \in BOOLEAN
    /\ mail = "none"
    /\ closing = FALSE
    /\ initialized = FALSE
    /\ phase = "none"
    /\ wire = "none"
    /\ opening = "nobody"
    /\ wsTimer = FALSE
    /\ health = FALSE
    /\ poll = FALSE
    /\ probe = "none"
    /\ asking = FALSE
    /\ failures = 0
    /\ notified = FALSE
    /\ leaving = FALSE
    /\ interrupted = FALSE

Begin == Initialize \/ ServiceAnswers \/ InitializeFails \/ RemoteConnects \/ FirstStatus \/ FirstQr
Wire == WireOpens \/ WireFails \/ OpenTimesOut \/ LateWire \/ WireCloses \/ WsTimerFires
Events == RemoteChanges \/ EventHandled \/ LinkingEvent
Polls == HealthTicks \/ ProbeAnswered \/ ProbeHandled \/ ProbeFails \/ PollTicks \/ QrAnswered

Next == Begin \/ Wire \/ Events \/ Polls \/ SendFindsLoss \/ LeaveBegins \/ LeaveEnds \/ Destroys

Spec == Init /\ [][Next]_vars

-----------------------------------------------------------------------------
(* Properties *)

\* Once closed, no timer and no socket is left, provided initialize was over: the
\* awaits of initialize do not look at intentionalClose.
ClosedIsQuiet ==
    owner = "closed" /\ ~ leaving /\ ~ interrupted
        => wire \notin {"open", "late", "deaf"} /\ ~ wsTimer /\ ~ health /\ ~ poll

\* An adapter that is READY notices that the service has lost the phone, by an
\* event, a probe or a failing send: also if the socket is closed or deaf.
LossNoticed ==
    (health /\ status = "ready" /\ ~ remote) ~> (status # "ready" \/ remote \/ owner = "closed")

\* The event socket is reopened as long as the adapter is wanted, however often
\* an attempt fails.
SocketComesBack ==
    (owner = "running" /\ wire = "none") ~> (wire \in {"open", "deaf"} \/ owner = "closed")

\* The same of a socket that is listened to.
SocketIsHeard ==
    (owner = "running" /\ wire = "none") ~> (wire = "open" \/ owner = "closed")

=============================================================================
