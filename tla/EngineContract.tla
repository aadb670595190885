----------------------------- MODULE EngineContract ----------------------------
(***************************************************************************)
(* What SessionService may rely on when it drives an engine adapter, seen  *)
(* from outside: the calls it makes and the callbacks that decide whether  *)
(* it reconnects.  Each adapter refines this specification.                *)
(***************************************************************************)

VARIABLES
    owner, \* how far SessionService is with the adapter
    said   \* the last of onReady, onDisconnected and onError

vars == <<owner, said>>

Owners == {"new", "starting", "running", "failed", "closed"}
Callbacks == {"nothing", "ready", "lost", "error"}

TypeOK == owner \in Owners /\ said \in Callbacks

Init == owner = "new" /\ said = "nothing"

\* initialize() is called, once.
Starts ==
    /\ owner = "new"
    /\ owner' = "starting"
    /\ UNCHANGED said

\* initialize() resolves.
Resolves ==
    /\ owner = "starting"
    /\ owner' = "running"
    /\ said' \in {said, "ready"}

\* initialize() rejects, and onError has told so.
Rejects ==
    /\ owner = "starting"
    /\ owner' = "failed"
    /\ said' = "error"

\* disconnect(), logout() or destroy() is called.
Closes ==
    /\ owner # "new"
    /\ owner' = "closed"
    /\ UNCHANGED said

\* onReady and onError may be late; onDisconnected, which makes SessionService
\* reconnect, is never heard of an adapter it has closed itself.
Speaks ==
    /\ owner # "new"
    /\ said' \in {"ready", "lost", "error"}
    /\ said' = "lost" => owner # "closed"
    /\ UNCHANGED owner

Next == Starts \/ Resolves \/ Rejects \/ Closes \/ Speaks

Spec == Init /\ [][Next]_vars

=============================================================================
