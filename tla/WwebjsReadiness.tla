---------------------------- MODULE WwebjsReadiness ----------------------------
(***************************************************************************)
(* The way of one WhatsAppWebJsAdapter to READY: initialize, the events of *)
(* its browser client, the loop that probes the client once the phone has  *)
(* linked, and disconnect, logout and destroy at any time.  Each step is   *)
(* the code between two awaits.                                            *)
(***************************************************************************)
EXTENDS Naturals

CONSTANTS
    Grace,   \* READY_RECONCILE_BRIDGE_RELOAD_GRACE_MS, in ticks of the loop
    Deadline \* READY_RECONCILE_TIMEOUT_MS, in ticks of the loop

TimesAssumption == Grace \in Nat /\ Deadline \in Nat \ {0} /\ Grace <= Deadline

VARIABLES
    owner,     \* the calls made: see EngineContract
    said,      \* the last callback that matters to a reconnect
    status,    \* this.status
    tearing,   \* this.tearingDown
    starting,  \* the await initialize is suspended in
    client,    \* this.client
    page,      \* what the page is up to
    attached,  \* client.eventsAttached
    drawing,   \* the qr handler awaits toDataURL
    lateQr,    \* history: a code was drawn after the phone had linked
    loop,      \* readyReconcileTimer
    age,       \* ticks since readyReconcileStartedAt
    probing,   \* readyReconcileProbeInFlight
    probes,    \* probes that have not settled
    connected, \* lastProbeStateConnected
    reloaded,  \* readyReconcileReloadAttempted
    ending     \* the await of the teardown

reconcile == <<loop, age, probing, connected, reloaded>>
vars == <<owner, said, status, tearing, starting, client, page, attached, drawing, lateQr,
          reconcile, probes, ending>>

MaxProbes == 2 \* bound: probes in flight that may still settle

Statuses == {"disconnected", "initializing", "qr_ready", "authenticating", "ready", "failed"}

TypeOK ==
    /\ owner \in {"new", "starting", "running", "failed", "closed"}
    /\ said \in {"nothing", "ready", "lost", "error"}
    /\ status \in Statuses
    /\ tearing \in BOOLEAN
    /\ starting \in {"none", "version", "client"}
    /\ client \in {"none", "up"}
    /\ page \in {"loading", "linking", "linked", "gone"}
    /\ attached \in BOOLEAN
    /\ drawing \in BOOLEAN
    /\ lateQr \in BOOLEAN
    /\ loop \in BOOLEAN
    /\ age \in 0..Deadline
    /\ probing \in BOOLEAN
    /\ probes \in 0..MaxProbes
    /\ connected \in BOOLEAN
    /\ reloaded \in BOOLEAN
    /\ ending \in BOOLEAN

-----------------------------------------------------------------------------
(* The loop *)

ClearReconcile ==
    /\ loop' = FALSE
    /\ age' = 0
    /\ probing' = FALSE
    /\ connected' = FALSE
    /\ reloaded' = FALSE

ScheduleReconcile ==
    /\ loop' = TRUE
    /\ age' = 0
    /\ probing' = FALSE
    /\ connected' = FALSE
    /\ reloaded' = FALSE

\* Mutant: the next tick is set by the probe, which may hang.
Ticking_IfNoProbe == ~ probing

\* The next tick is scheduled first.
Ticking == TRUE

\* Neither linked nor refused in time.
Overdue == age >= Deadline

TickStops ==
    /\ loop
    /\ client = "none" \/ status # "authenticating"
    /\ ClearReconcile
    /\ UNCHANGED <<owner, said, status, tearing, starting, client, page, attached, drawing, lateQr,
                   probes, ending>>

TickGivesUp ==
    /\ loop
    /\ client = "up"
    /\ status = "authenticating"
    /\ Overdue
    /\ ClearReconcile
    /\ status' = "failed"
    /\ said' = "error"
    /\ UNCHANGED <<owner, tearing, starting, client, page, attached, drawing, lateQr, probes, ending>>

TickProbes ==
    /\ loop
    /\ client = "up"
    /\ status = "authenticating"
    /\ ~ Overdue
    /\ age' = age + 1
    /\ loop' = Ticking
    /\ IF probing
         THEN UNCHANGED <<probing, probes>>
         ELSE /\ probing' = TRUE
              /\ probes' = IF probes = MaxProbes THEN probes ELSE probes + 1
    /\ UNCHANGED <<owner, said, status, tearing, starting, client, page, attached, drawing, lateQr,
                   connected, reloaded, ending>>

\* markReadyFromClientInfo
MarkReady ==
    IF tearing \/ status \in {"ready", "disconnected", "failed"}
      THEN UNCHANGED <<said, status, reconcile>>
      ELSE /\ status' = "ready"
           /\ said' = "ready"
           /\ ClearReconcile

\* A probe finds the client ready, and its message bridge attached.
ProbeSucceeds ==
    /\ probes > 0
    /\ client = "up" /\ page = "linked" /\ attached
    /\ probes' = probes - 1
    /\ IF status = "authenticating" /\ ~ tearing
         THEN MarkReady
         ELSE /\ probing' = FALSE
              /\ connected' = TRUE
              /\ UNCHANGED <<said, status, loop, age, reloaded>>
    /\ UNCHANGED <<owner, tearing, starting, client, page, attached, drawing, lateQr, ending>>

Reloads(link) ==
    /\ status = "authenticating"
    /\ client = "up"
    /\ link /\ ~ attached
    /\ ~ reloaded
    /\ age >= Grace

\* It does not, or rejects; a bridge that is missing for long gets one reload.
ProbeFails ==
    /\ probes > 0
    /\ probes' = probes - 1
    /\ probing' = FALSE
    /\ \E link \in {FALSE, page = "linked"} :
           /\ connected' = link
           /\ reloaded' = (reloaded \/ Reloads(link))
           /\ page' = IF Reloads(link) THEN "loading" ELSE page
    /\ UNCHANGED <<owner, said, status, tearing, starting, client, attached, drawing, lateQr, loop, age,
                   ending>>

-----------------------------------------------------------------------------
(* initialize *)

Initialize ==
    /\ owner = "new"
    /\ owner' = "starting"
    /\ status' = "initializing"
    /\ starting' = "version"
    /\ UNCHANGED <<said, tearing, client, page, attached, drawing, lateQr, reconcile, probes, ending>>

Settles(outcome) == owner' = IF owner = "starting" THEN outcome ELSE owner

Unwanted == tearing

VersionResolved ==
    /\ starting = "version"
    /\ IF Unwanted
         THEN /\ starting' = "none"
              /\ status' = "disconnected"
              /\ Settles("running")
              /\ UNCHANGED <<client, page>>
         ELSE /\ starting' = "client"
              /\ client' = "up"
              /\ page' = "loading"
              /\ UNCHANGED <<owner, status>>
    /\ UNCHANGED <<said, tearing, attached, drawing, lateQr, reconcile, probes, ending>>

\* client.initialize() resolves, also for a client that is being destroyed ...
ClientInitialized ==
    /\ starting = "client"
    /\ starting' = "none"
    /\ Settles("running")
    /\ UNCHANGED <<said, status, tearing, client, page, attached, drawing, lateQr, reconcile, probes,
                   ending>>

\* ... or it, or the version lookup, rejects.
InitializeFails ==
    /\ starting \in {"version", "client"}
    /\ starting' = "none"
    /\ status' = "failed"
    /\ said' = "error"
    /\ Settles("failed")
    /\ UNCHANGED <<tearing, client, page, attached, drawing, lateQr, reconcile, probes, ending>>

-----------------------------------------------------------------------------
(* The client's events *)

Live == client = "up" /\ page # "gone"

QrShown ==
    /\ Live
    /\ page = "loading" \/ page = "linking"
    /\ page' = "linking"
    /\ drawing' = TRUE
    /\ UNCHANGED <<owner, said, status, tearing, starting, client, attached, lateQr, reconcile, probes,
                   ending>>

\* Whatever the adapter has become meanwhile.
QrDrawn ==
    /\ drawing
    /\ drawing' = FALSE
    /\ status' = "qr_ready"
    /\ lateQr' = (lateQr \/ page # "linking")
    /\ UNCHANGED <<owner, said, tearing, starting, client, page, attached, reconcile, probes, ending>>

\* The phone has scanned the code, or the stored session is good.
Authenticated ==
    /\ Live
    /\ page \in {"loading", "linking"}
    /\ page' = "linked"
    /\ IF tearing \/ status \in {"authenticating", "ready", "failed"}
         THEN UNCHANGED <<status, reconcile>>
         ELSE status' = "authenticating" /\ ScheduleReconcile
    /\ UNCHANGED <<owner, said, tearing, starting, client, attached, drawing, lateQr, probes, ending>>

\* The page-to-Node bridge attaches, or never does.
BridgeAttaches ==
    /\ Live
    /\ page = "linked"
    /\ ~ attached
    /\ attached' = TRUE
    /\ UNCHANGED <<owner, said, status, tearing, starting, client, page, drawing, lateQr, reconcile,
                   probes, ending>>

\* The ready event, which may be missed; a premature one is ignored.
ReadyEvent ==
    /\ Live
    /\ page = "linked"
    /\ attached
    /\ MarkReady
    /\ UNCHANGED <<owner, tearing, starting, client, page, attached, drawing, lateQr, probes, ending>>

\* The disconnected event: the browser is gone, or shows a code again.
Disconnected ==
    /\ Live
    /\ page = "linked"
    /\ page' \in {"gone", "linking"}
    /\ attached' = FALSE
    /\ ClearReconcile
    /\ status' = "disconnected"
    /\ said' = IF tearing THEN said ELSE "lost"
    /\ UNCHANGED <<owner, tearing, starting, client, drawing, lateQr, probes, ending>>

AuthFailure ==
    /\ Live
    /\ page \in {"loading", "linking"}
    /\ ClearReconcile
    /\ status' = "failed"
    /\ said' = IF tearing THEN said ELSE "error"
    /\ UNCHANGED <<owner, tearing, starting, client, page, attached, drawing, lateQr, probes, ending>>

-----------------------------------------------------------------------------
(* disconnect, logout, destroy *)

TeardownBegins ==
    /\ owner \notin {"new", "closed"}
    /\ owner' = "closed"
    /\ tearing' = TRUE
    /\ ClearReconcile
    /\ IF client = "none"
         THEN UNCHANGED <<status, ending>>
         ELSE status' = "disconnected" /\ ending' = TRUE
    /\ UNCHANGED <<said, starting, client, page, attached, drawing, lateQr, probes>>

\* client.destroy() or client.logout() settles, either way.
TeardownEnds ==
    /\ ending
    /\ ending' = FALSE
    /\ client' = "none"
    /\ page' = "gone"
    /\ attached' = FALSE
    /\ ClearReconcile
    /\ UNCHANGED <<owner, said, status, tearing, starting, drawing, lateQr, probes>>

-----------------------------------------------------------------------------
Init ==
    /\ owner = "new"
    /\ said = "nothing"
    /\ status = "disconnected"
    /\ tearing = FALSE
    /\ starting = "none"
    /\ client = "none"
    /\ page = "loading"
    /\ attached = FALSE
    /\ drawing = FALSE
    /\ lateQr = FALSE
    /\ loop = FALSE
    /\ age = 0
    /\ probing = FALSE
    /\ probes = 0
    /\ connected = FALSE
    /\ reloaded = FALSE
    /\ ending = FALSE

Tick == TickStops \/ TickGivesUp \/ TickProbes
Begin == Initialize \/ VersionResolved \/ ClientInitialized \/ InitializeFails
Events ==
    \/ QrShown \/ QrDrawn \/ Authenticated \/ BridgeAttaches
    \/ ReadyEvent \/ Disconnected \/ AuthFailure

Next ==
    \/ Begin \/ Events \/ Tick \/ ProbeSucceeds \/ ProbeFails
    \/ TeardownBegins \/ TeardownEnds

Spec == Init /\ [][Next]_vars

-----------------------------------------------------------------------------
(* Properties *)

\* Once the phone has linked, the adapter becomes READY or FAILED or loses the link,
\* also if every probe hangs and no ready event comes; unless it asks for another
\* code, or a code drawn late ends the loop.
LinkingEnds ==
    (status = "authenticating")
        ~> (status \in {"ready", "failed", "disconnected"} \/ page = "linking" \/ lateQr)

\* A closed adapter keeps no browser client, whatever initialize was awaiting.
ClosedHasNoClient ==
    owner = "closed" /\ ~ ending /\ starting = "none" => client = "none" /\ ~ loop

=============================================================================
