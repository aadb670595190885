----------------------------- MODULE EngineFactory -----------------------------
(***************************************************************************)
(* The engine adapter EngineFactory.create hands to SessionService: one of *)
(* three, which share what SessionService sees of them (the calls it has   *)
(* made, the callbacks it has heard, getStatus) and have nothing else in   *)
(* common.  Each keeps EngineContract.                                     *)
(***************************************************************************)
EXTENDS Naturals

CONSTANTS
    MaxReconnects, \* BaileysConnection
    Grace,         \* WwebjsReadiness
    Deadline       \* WwebjsReadiness

VARIABLES
    kind,    \* which adapter has been made
    owner,   \* the calls made
    said,    \* the last callback that matters to a reconnect
    status,  \* this.status
    leaving, \* disconnect or logout awaits the other side
    \* BaileysConnection
    intentional, connecting, sock, timer, ticking, attempts, rendering,
    \* EvolutionSocket
    remote, mail, closing, initialized, phase, wire, opening, wsTimer, health, poll,
    probe, asking, failures, notified, interrupted,
    \* WwebjsReadiness
    tearing, starting, client, page, attached, drawing, lateQr,
    loop, age, probing, probes, connected, reloaded, ending

Baileys == INSTANCE BaileysConnection
Evolution == INSTANCE EvolutionSocket
Wwebjs == INSTANCE WwebjsReadiness
Contract == INSTANCE EngineContract

ASSUME BaileysAssumption == Baileys!MaxReconnectsAssumption
ASSUME WwebjsAssumption == Wwebjs!TimesAssumption

common == <<owner, said, status, leaving>>
baileys == <<intentional, connecting, sock, timer, ticking, attempts, rendering>>
evolution == <<remote, mail, closing, initialized, phase, wire, opening, wsTimer, health, poll,
               probe, asking, failures, notified, interrupted>>
wwebjs == <<tearing, starting, client, page, attached, drawing, lateQr,
            loop, age, probing, probes, connected, reloaded, ending>>
vars == <<kind, common, baileys, evolution, wwebjs>>

Kinds == {"baileys", "evolution-go", "whatsapp-web.js"}

\* create: the configured engine's plugin makes the adapter.  Without a plugin,
\* every type but Evolution Go falls back to the browser engine.
Created(engineType, available) ==
    IF available \/ engineType = "evolution-go" THEN engineType ELSE "whatsapp-web.js"

Init ==
    /\ \E engineType \in Kinds, available \in BOOLEAN : kind = Created(engineType, available)
    /\ Baileys!Init
    /\ Evolution!Init
    /\ Wwebjs!Init

BaileysNext ==
    /\ kind = "baileys"
    /\ Baileys!Next
    /\ UNCHANGED <<kind, evolution, wwebjs>>

EvolutionNext ==
    /\ kind = "evolution-go"
    /\ Evolution!Next
    /\ UNCHANGED <<kind, baileys, wwebjs>>

WwebjsNext ==
    /\ kind = "whatsapp-web.js"
    /\ Wwebjs!Next
    /\ UNCHANGED <<kind, leaving, baileys, evolution>>

Next == BaileysNext \/ EvolutionNext \/ WwebjsNext

Spec == Init /\ [][Next]_vars

\* Baileys: timers fire, and the awaits of connect() settle.
BaileysFairness == WF_baileys(Baileys!Connect) /\ WF_baileys(Baileys!TimerFires)

\* Evolution Go: intervals and timers fire, requests are answered or fail, an attempt
\* to open the socket comes to an end, and of endless attempts one succeeds.
EvolutionFairness ==
    /\ WF_evolution(Evolution!HealthTicks)
    /\ WF_evolution(Evolution!ProbeAnswered \/ Evolution!ProbeFails)
    /\ WF_evolution(Evolution!ProbeHandled)
    /\ WF_evolution(Evolution!WsTimerFires)
    /\ WF_evolution(Evolution!WireOpens \/ Evolution!WireFails \/ Evolution!OpenTimesOut)
    /\ SF_evolution(Evolution!WireOpens)

\* whatsapp-web.js: the loop's timer fires; no probe need ever settle.
WwebjsFairness == WF_wwebjs(Wwebjs!Tick)

\* The actions of an adapter that has not been made are never enabled.
FairSpec == Spec /\ BaileysFairness /\ EvolutionFairness /\ WwebjsFairness

-----------------------------------------------------------------------------
(* Properties *)

\* Only the adapter that was made does anything, and its state stays typed.
TypeOK ==
    /\ kind \in Kinds
    /\ Baileys!TypeOK
    /\ Evolution!TypeOK
    /\ Wwebjs!TypeOK

\* Every adapter keeps the contract SessionService is written against: initialize
\* settles once, a rejection has been told by onError, and onDisconnected, which
\* would make SessionService reconnect, is never heard of an adapter it has closed.
KeepsContract == Contract!Spec

\* getStatus and the callbacks agree: an adapter in use that calls itself READY has
\* said so, and has said nothing to the contrary since.  After a loss, too, the
\* next READY is told again.
ReadyIsTold == status = "ready" /\ owner \in {"starting", "running"} => said = "ready"

\* A closed adapter comes to rest, whatever it was awaiting: Baileys has no socket
\* and no timer, Evolution Go none either unless it was closed while it initialized,
\* and the browser engine keeps no client.
ClosedComesToRest ==
    /\ kind = "baileys" => Baileys!ClosedStaysDown
    /\ kind = "evolution-go" => Evolution!ClosedIsQuiet
    /\ kind = "whatsapp-web.js" => Wwebjs!ClosedHasNoClient

\* Baileys: a dropped connection is answered, by a new socket or a callback.
BaileysDropAnswered == (kind = "baileys") => Baileys!DropAnswered

\* Evolution Go: READY does not outlive the service's connection, though the event
\* socket be closed or deaf.
EvolutionLossNoticed == (kind = "evolution-go") => Evolution!LossNoticed

\* Evolution Go: the event socket is reopened however often an attempt fails.
EvolutionReattaches == (kind = "evolution-go") => Evolution!SocketComesBack

\* Evolution Go: Aurora "reattaches its event WebSocket with capped exponential
\* backoff" (docs/24-evolution-go-engine.md): its events are received again.
EvolutionHearsAgain == (kind = "evolution-go") => Evolution!SocketIsHeard

\* whatsapp-web.js: linking comes to an end even if every probe hangs.
WwebjsLinkingEnds == (kind = "whatsapp-web.js") => Wwebjs!LinkingEnds

=============================================================================
