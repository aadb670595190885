--------------------------- MODULE BaileysConnection ---------------------------
(***************************************************************************)
(* The connection of one BaileysAdapter: initialize, the events of its     *)
(* socket, its own reconnect timer, and disconnect, logout and destroy at  *)
(* any time.  Each step is the code between two awaits.                    *)
(***************************************************************************)
EXTENDS Naturals

CONSTANT MaxReconnects \* MAX_RECONNECT_ATTEMPTS

MaxReconnectsAssumption == MaxReconnects \in Nat \ {0}

VARIABLES
    owner,       \* the calls made: see EngineContract
    said,        \* the last callback that matters to a reconnect
    status,      \* this.status
    intentional, \* this.intentionalClose
    connecting,  \* who awaits connectInner: this.connecting
    sock,        \* this.sock
    timer,       \* this.reconnectTimer is set
    ticking,     \* the timeout itself is pending
    attempts,    \* this.reconnectAttempts
    rendering,   \* handleQrCode awaits toDataURL
    leaving      \* logout awaits sock.logout()

connection == <<intentional, connecting, sock, timer, ticking, attempts, rendering, leaving>>
vars == <<owner, said, status, connection>>

Statuses == {"disconnected", "initializing", "qr_ready", "authenticating", "ready", "failed"}

TypeOK ==
    /\ owner \in {"new", "starting", "running", "failed", "closed"}
    /\ said \in {"nothing", "ready", "lost", "error"}
    /\ status \in Statuses
    /\ intentional \in BOOLEAN
    /\ connecting \in {"nobody", "initialize", "timer"}
    /\ sock \in {"none", "linking", "open", "dead"}
    /\ timer \in BOOLEAN
    /\ ticking \in BOOLEAN
    /\ attempts \in 0..MaxReconnects
    /\ rendering \in BOOLEAN
    /\ leaving \in BOOLEAN

Alive == sock \in {"linking", "open"}

-----------------------------------------------------------------------------
(* connect *)

Initialize ==
    /\ owner = "new"
    /\ owner' = "starting"
    /\ intentional' = FALSE
    /\ connecting' = "initialize"
    /\ status' = "initializing"
    /\ UNCHANGED <<said, sock, timer, ticking, attempts, rendering, leaving>>

\* What becomes of initialize() when its connect() is over.
Settles(outcome) ==
    owner' = IF connecting = "initialize" /\ owner = "starting" THEN outcome ELSE owner

\* Mutant: no look at intentionalClose after the awaits.
MayCreate_Always == TRUE

MayCreate == ~ intentional

\* Library, credentials and version are there: the socket is made ...
ConnectCreates ==
    /\ connecting # "nobody"
    /\ MayCreate
    /\ sock' = "linking"
    /\ connecting' = "nobody"
    /\ Settles("running")
    /\ UNCHANGED <<said, status, intentional, timer, ticking, attempts, rendering, leaving>>

\* ... or not, for a session that has been stopped meanwhile.
ConnectAborts ==
    /\ connecting # "nobody"
    /\ intentional
    /\ connecting' = "nobody"
    /\ Settles("running")
    /\ UNCHANGED <<said, status, intentional, sock, timer, ticking, attempts, rendering, leaving>>

\* One of the awaits rejects.
ConnectFails ==
    /\ connecting # "nobody"
    /\ connecting' = "nobody"
    /\ status' = "failed"
    /\ said' = "error"
    /\ Settles("failed")
    /\ UNCHANGED <<intentional, sock, timer, ticking, attempts, rendering, leaving>>

-----------------------------------------------------------------------------
(* connection.update *)

QrArrives ==
    /\ sock = "linking"
    /\ rendering' = TRUE
    /\ UNCHANGED <<owner, said, status, intentional, connecting, sock, timer, ticking, attempts, leaving>>

\* Whatever the adapter has become meanwhile.
QrRendered ==
    /\ rendering
    /\ rendering' = FALSE
    /\ status' = "qr_ready"
    /\ UNCHANGED <<owner, said, intentional, connecting, sock, timer, ticking, attempts, leaving>>

SocketConnecting ==
    /\ sock = "linking"
    /\ status' = "initializing"
    /\ UNCHANGED <<owner, said, connection>>

SocketOpens ==
    /\ sock = "linking"
    /\ sock' = "open"
    /\ attempts' = 0
    /\ status' = "ready"
    /\ said' = "ready"
    /\ UNCHANGED <<owner, intentional, connecting, timer, ticking, rendering, leaving>>

\* A close the adapter asked for.
CloseExpected ==
    /\ Alive
    /\ intentional
    /\ sock' = "dead"
    /\ status' = "disconnected"
    /\ UNCHANGED <<owner, said, intentional, connecting, timer, ticking, attempts, rendering, leaving>>

\* The phone has unlinked the device.
LoggedOut ==
    /\ Alive
    /\ ~ intentional
    /\ sock' = "dead"
    /\ status' = "disconnected"
    /\ said' = "lost"
    /\ UNCHANGED <<owner, intentional, connecting, timer, ticking, attempts, rendering, leaving>>

Exhausted == attempts >= MaxReconnects

GivesUp ==
    /\ Alive
    /\ ~ intentional
    /\ Exhausted
    /\ sock' = "dead"
    /\ status' = "failed"
    /\ said' = "error"
    /\ UNCHANGED <<owner, intentional, connecting, timer, ticking, attempts, rendering, leaving>>

\* A drop: one timer at a time; the status stays what it is.
Drops ==
    /\ Alive
    /\ ~ intentional
    /\ ~ Exhausted
    /\ sock' = "dead"
    /\ attempts' = attempts + 1
    /\ timer' = TRUE
    /\ ticking' = (ticking \/ ~ timer)
    /\ UNCHANGED <<owner, said, status, intentional, connecting, rendering, leaving>>

\* Mutant: the callback does not take its handle back.
Fired_KeepsHandle == timer

Fired == FALSE

TimerFires ==
    /\ ticking
    /\ ticking' = FALSE
    /\ timer' = Fired
    /\ IF intentional \/ connecting # "nobody"
         THEN UNCHANGED <<connecting, status>>
         ELSE connecting' = "timer" /\ status' = "initializing"
    /\ UNCHANGED <<owner, said, intentional, sock, attempts, rendering, leaving>>

-----------------------------------------------------------------------------
(* disconnect, destroy, logout *)

Stops ==
    /\ owner \notin {"new", "closed"}
    /\ owner' = "closed"
    /\ intentional' = TRUE
    /\ timer' = FALSE
    /\ ticking' = FALSE

\* sock.end() raises the close at once.
Closes ==
    /\ Stops
    /\ sock' = "none"
    /\ status' = "disconnected"
    /\ UNCHANGED <<said, connecting, attempts, rendering, leaving>>

LogoutBegins ==
    /\ Stops
    /\ leaving' = TRUE
    /\ UNCHANGED <<said, status, connecting, sock, attempts, rendering>>

\* It resolves, or rejects and the socket is ended.
LogoutEnds ==
    /\ leaving
    /\ leaving' = FALSE
    /\ sock' = "none"
    /\ status' = "disconnected"
    /\ UNCHANGED <<owner, said, intentional, connecting, timer, ticking, attempts, rendering>>

-----------------------------------------------------------------------------
Init ==
    /\ owner = "new"
    /\ said = "nothing"
    /\ status = "disconnected"
    /\ intentional = FALSE
    /\ connecting = "nobody"
    /\ sock = "none"
    /\ timer = FALSE
    /\ ticking = FALSE
    /\ attempts = 0
    /\ rendering = FALSE
    /\ leaving = FALSE

Connect == ConnectCreates \/ ConnectAborts \/ ConnectFails
Update ==
    \/ QrArrives \/ QrRendered \/ SocketConnecting \/ SocketOpens
    \/ CloseExpected \/ LoggedOut \/ GivesUp \/ Drops

Next ==
    \/ Initialize \/ Connect \/ Update \/ TimerFires
    \/ Closes \/ LogoutBegins \/ LogoutEnds

Spec == Init /\ [][Next]_vars

-----------------------------------------------------------------------------
(* Properties *)

\* A closed adapter comes to rest: no timer, and no socket but the one logout is
\* saying goodbye to, whatever was being awaited when it was closed.
ClosedStaysDown ==
    owner = "closed" /\ ~ leaving /\ connecting = "nobody" => ~ Alive /\ ~ ticking

\* A dropped connection is never left alone: a new socket, a callback SessionService
\* acts upon, or a close.
DropAnswered ==
    (sock = "dead" /\ said \in {"nothing", "ready"})
        ~> (Alive \/ said \in {"lost", "error"} \/ owner = "closed")

=============================================================================
