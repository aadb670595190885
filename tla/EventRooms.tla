------------------------------- MODULE EventRooms -------------------------------
(***************************************************************************)
(* A chat page and the event gateway (useWebSocket.ts, events.gateway.ts): *)
(* the socket between them, the subscriptions the page asks for as the     *)
(* operator goes from session to session, and the rooms that the gateway   *)
(* has joined the socket to.  A subscription joins its room only after the *)
(* key has been validated again, while later messages go on being handled. *)
(* The gateway handles messages as they arrive, also before it has         *)
(* validated the key with which the socket was opened.                     *)
(***************************************************************************)
EXTENDS Naturals, Sequences, FiniteSets

CONSTANTS
    Sessions,
    Allowed,    \* isSessionSubscriptionAllowed: those of the page's key
    MaxPending, \* bound: subscriptions in flight when the operator changes the session
    MaxAttempts \* reconnectionAttempts

VARIABLES
    session,   \* selectedSessionId
    connected, \* isConnected
    failed,    \* connectionFailed, which shows the banner
    socket,    \* the page's end of the socket
    attempts,  \* of socket.io to open it again
    wire,      \* messages from the page, in order
    peer       \* the gateway's end

page == <<session, connected, failed>>
vars == <<page, socket, attempts, wire, peer>>

NoSession == "none"
Subscribe(s) == [type |-> "subscribe", session |-> s]
Unsubscribe(s) == [type |-> "unsubscribe", session |-> s]

\* `opening` and `known` are handleConnection and the key it stores in client.data;
\* `checks` counts the subscriptions that await the validation of the key.
NoPeer == [open |-> FALSE, opening |-> FALSE, known |-> FALSE,
           rooms |-> {}, checks |-> [s \in Sessions |-> 0]]
NewPeer == [NoPeer EXCEPT !.open = TRUE, !.opening = TRUE]

Awaited == {s \in Sessions : peer.checks[s] > 0}

TypeOK ==
    /\ session \in Sessions \cup {NoSession}
    /\ connected \in BOOLEAN /\ failed \in BOOLEAN
    /\ socket \in {"opening", "up", "retrying", "closed", "failed"}
    /\ attempts \in 0..MaxAttempts
    /\ wire \in Seq([type : {"subscribe", "unsubscribe"}, session : Sessions])
    /\ peer \in [open : BOOLEAN, opening : BOOLEAN, known : BOOLEAN,
                 rooms : SUBSET Sessions, checks : [Sessions -> Nat]]

Init ==
    /\ session = NoSession /\ connected = FALSE /\ failed = FALSE
    /\ socket = "retrying" /\ attempts = 0 /\ wire = <<>> /\ peer = NoPeer

-----------------------------------------------------------------------------
(* The page *)

\* The effect on the session and the connection, and its cleanup: what the page sends.
Follows(s) == IF s = NoSession THEN <<>> ELSE <<Subscribe(s)>>
Leaves(s) == IF s = NoSession THEN <<>> ELSE <<Unsubscribe(s)>>

\* Mutant: the effect does not depend on the connection.
Resubscribes_Never == <<>>

Resubscribes == Follows(session)

\* The operator selects a session.  A socket that is not connected sends nothing.
SelectSession(s) ==
    /\ s # session
    /\ Len(wire) + Cardinality(Awaited) <= MaxPending
    /\ \A a \in Sessions : peer.checks[a] <= 1
    /\ session' = s
    /\ wire' = IF connected THEN wire \o Leaves(session) \o Follows(s) ELSE wire
    /\ UNCHANGED <<connected, failed, socket, attempts, peer>>

\* "connect": the gateway has accepted the socket.
Connects ==
    /\ socket = "opening"
    /\ socket' = "up" /\ attempts' = 0
    /\ connected' = TRUE /\ failed' = FALSE
    /\ wire' = Resubscribes
    /\ UNCHANGED <<session, peer>>

\* "disconnect": with it everything on its way is gone.
Disconnects(to) ==
    /\ socket' = to
    /\ connected' = FALSE /\ wire' = <<>>
    /\ UNCHANGED <<session, failed, attempts>>

\* The network fails; socket.io opens the socket again by itself.
Drops ==
    /\ socket \in {"opening", "up"}
    /\ Disconnects("retrying") /\ peer' = NoPeer

\* The gateway has disconnected the socket, which socket.io does not open again.
Closed ==
    /\ socket = "up" /\ ~ peer.open
    /\ Disconnects("closed") /\ UNCHANGED peer

\* "reconnect_failed", after the last attempt.
AttemptFails ==
    /\ socket = "retrying"
    /\ IF attempts < MaxAttempts
         THEN attempts' = attempts + 1 /\ UNCHANGED <<socket, failed>>
         ELSE socket' = "failed" /\ failed' = TRUE /\ UNCHANGED attempts
    /\ UNCHANGED <<session, connected, wire, peer>>

AttemptOpens ==
    /\ socket = "retrying"
    /\ socket' = "opening" /\ peer' = NewPeer
    /\ UNCHANGED <<page, attempts, wire>>

\* reconnect: the operator presses the button of the banner; the page makes a new socket.
Reconnect ==
    /\ failed
    /\ failed' = FALSE /\ socket' = "retrying" /\ attempts' = 0
    /\ UNCHANGED <<session, connected, wire, peer>>

-----------------------------------------------------------------------------
(* The gateway *)

Hangs == peer' = NoPeer

\* handleConnection: the key is valid, or it is not or cannot be looked up.
KeyAccepted ==
    /\ peer.opening
    /\ peer' = [peer EXCEPT !.opening = FALSE, !.known = TRUE]
    /\ UNCHANGED <<page, socket, attempts, wire>>

KeyRejected ==
    /\ peer.opening
    /\ Hangs
    /\ UNCHANGED <<page, socket, attempts, wire>>

\* handleSubscribe, to its await.  Without the key it hangs up.
ReceivesSubscribe ==
    /\ peer.open /\ wire # <<>> /\ Head(wire).type = "subscribe"
    /\ IF peer.known
         THEN peer' = [peer EXCEPT !.checks[Head(wire).session] = @ + 1]
         ELSE Hangs
    /\ wire' = Tail(wire)
    /\ UNCHANGED <<page, socket, attempts>>

\* ... and after it: joined, refused, or a key that has been revoked in the meantime.
Subscribes(s) ==
    /\ peer.checks[s] > 0
    /\ peer' = [peer EXCEPT !.checks[s] = @ - 1,
                            !.rooms = IF s \in Allowed THEN @ \cup {s} ELSE @]
    /\ UNCHANGED <<page, socket, attempts, wire>>

KeyRevoked(s) ==
    /\ peer.checks[s] > 0
    /\ Hangs
    /\ UNCHANGED <<page, socket, attempts, wire>>

\* handleUnsubscribe, at once.
ReceivesUnsubscribe ==
    /\ peer.open /\ wire # <<>> /\ Head(wire).type = "unsubscribe"
    /\ peer' = [peer EXCEPT !.rooms = @ \ {Head(wire).session}]
    /\ wire' = Tail(wire)
    /\ UNCHANGED <<page, socket, attempts>>

-----------------------------------------------------------------------------
Next ==
    \/ \E s \in Sessions :
         SelectSession(s) \/ Subscribes(s) \/ KeyRevoked(s)
    \/ Connects \/ Drops \/ Closed \/ AttemptFails \/ AttemptOpens \/ Reconnect
    \/ KeyAccepted \/ KeyRejected \/ ReceivesSubscribe \/ ReceivesUnsubscribe

Spec == Init /\ [][Next]_vars

-----------------------------------------------------------------------------
(* Properties *)

Quiet == wire = <<>> /\ Awaited = {} /\ ~ peer.opening

\* Through drops, late validations and any changes of the session: once all messages have been
\* handled, a page whose socket is open is in the room of the session it shows (Chats.tsx's
\* effect against handleSubscribe, which awaits, and handleUnsubscribe, which does not).
PageHears ==
    connected /\ peer.open /\ Quiet /\ session \in Allowed => session \in peer.rooms
=============================================================================
