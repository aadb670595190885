----------------------------- MODULE OmegaSessions -----------------------------
(***************************************************************************)
(* The workspace's table of WhatsApp sessions (OmegaAdminService): which   *)
(* client each of the gateway's sessions is assigned to.  Every request    *)
(* reads rows and saves the whole of what it has read, so that a save puts *)
(* back each column it has not meant to change; the other columns (status, *)
(* replacementRequested, the names) are left out, their saves are not.     *)
(***************************************************************************)
EXTENDS Naturals, FiniteSets

CONSTANTS
    Accounts, \* the gateway's sessions
    Clients,
    Limit,    \* whatsappAccountLimit of every client
    Requests

VARIABLES
    listed,  \* the sessions the gateway has
    row,     \* the table
    req,     \* the progress of each request
    excused  \* history: clients with an override, or whose requests overlapped

vars == <<listed, row, req, excused>>

Nobody == "nobody"

SessionsAssumption ==
    IsFiniteSet(Accounts) /\ Limit \in Nat /\ Clients \cap {Nobody, "none"} = {}

Row(client) == [client |-> client, assigned |-> client # Nobody]
NoRow == [client |-> "none", assigned |-> FALSE]
Rows == {Row(client) : client \in Clients \cup {Nobody}} \cup {NoRow}

\* `copy`: the rows the request has read; `todo`: those it has still to save.
\* `seen`: the sessions the gateway listed.  `count`: how many sessions the client
\* of an assignment had.
Idle == [at |-> "idle", client |-> Nobody, copy |-> [a \in Accounts |-> NoRow],
         todo |-> {}, seen |-> {}, count |-> 0]

ReqStates ==
    [at : {"idle", "assign", "counted", "unassign", "flag", "listed", "sync"},
     client : Clients \cup {Nobody}, copy : [Accounts -> Rows],
     todo : SUBSET Accounts, seen : SUBSET Accounts, count : 0..Cardinality(Accounts)]

TypeOK ==
    /\ listed \subseteq Accounts
    /\ row \in [Accounts -> Rows]
    /\ req \in [Requests -> ReqStates]
    /\ excused \subseteq Clients

Of(client) == {a \in Accounts : row[a].client = client}

-----------------------------------------------------------------------------
Becomes(q, r) == req' = [req EXCEPT ![q] = r]

\* The save of row a by request q: whatever the row has become since it was read is
\* replaced, and the client that thereby gets it is excused.
Save(q, a, new) ==
    /\ row' = [row EXCEPT ![a] = new]
    /\ excused' = IF row[a] # req[q].copy[a] THEN excused \cup ({new.client} \cap Clients)
                                            ELSE excused
    /\ UNCHANGED listed

\* A session is created or deleted in the gateway.
GatewayChanges(a) ==
    /\ listed' = IF a \in listed THEN listed \ {a} ELSE listed \cup {a}
    /\ UNCHANGED <<row, req, excused>>

\* assignSession, unassignSession, updateReplacementFlag: findOne.
Reads(q, a, kind, client) ==
    /\ req[q].at = "idle"
    /\ row[a] # NoRow
    /\ (kind = "assign") <=> (client # Nobody)
    /\ Becomes(q, [req[q] EXCEPT !.at = kind, !.client = client, !.todo = {a}, !.copy[a] = row[a]])
    /\ UNCHANGED <<listed, row, excused>>

\* Mutant: one session too many.
LimitReached_OffByOne(q) == Cardinality(Of(req[q].client)) > Limit

LimitReached(q) == Cardinality(Of(req[q].client)) >= Limit

IsNewAssignment(q, a) == req[q].copy[a].client # req[q].client

\* assignSession: the client's sessions are counted.
AssignCounts(q, a) ==
    /\ req[q].at = "assign"
    /\ a \in req[q].todo
    /\ ~(LimitReached(q) /\ IsNewAssignment(q, a))
    /\ Becomes(q, [req[q] EXCEPT !.at = "counted", !.count = Cardinality(Of(req[q].client))])
    /\ UNCHANGED <<listed, row, excused>>

\* It has all it may have: the request is refused, or a super admin overrides.
AssignRefused(q, a) ==
    /\ req[q].at = "assign"
    /\ a \in req[q].todo
    /\ LimitReached(q) /\ IsNewAssignment(q, a)
    /\ Becomes(q, Idle)
    /\ UNCHANGED <<listed, row, excused>>

AssignOverrides(q, a) ==
    /\ req[q].at = "assign"
    /\ a \in req[q].todo
    /\ LimitReached(q) /\ IsNewAssignment(q, a)
    /\ Becomes(q, [req[q] EXCEPT !.at = "counted", !.count = Cardinality(Of(req[q].client))])
    /\ excused' = excused \cup {req[q].client}
    /\ UNCHANGED <<listed, row>>

AssignSaves(q, a) ==
    /\ req[q].at = "counted"
    /\ a \in req[q].todo
    /\ row' = [row EXCEPT ![a] = Row(req[q].client)]
    /\ excused' = IF row[a] # req[q].copy[a] \/ Cardinality(Of(req[q].client)) # req[q].count
                    THEN excused \cup {req[q].client} ELSE excused
    /\ Becomes(q, Idle)
    /\ UNCHANGED listed

UnassignSaves(q, a) ==
    /\ req[q].at = "unassign"
    /\ a \in req[q].todo
    /\ Save(q, a, Row(Nobody))
    /\ Becomes(q, Idle)

FlagSaves(q, a) ==
    /\ req[q].at = "flag"
    /\ a \in req[q].todo
    /\ Save(q, a, req[q].copy[a])
    /\ Becomes(q, Idle)

-----------------------------------------------------------------------------
\* syncSessions: the gateway is asked for its sessions, then the table is read.
SyncLists(q) ==
    /\ req[q].at = "idle"
    /\ Becomes(q, [req[q] EXCEPT !.at = "listed", !.seen = listed])
    /\ UNCHANGED <<listed, row, excused>>

SyncReads(q) ==
    /\ req[q].at = "listed"
    /\ Becomes(q, [req[q] EXCEPT !.at = "sync", !.copy = row,
                                  !.todo = req[q].seen \cup {a \in Accounts : row[a] # NoRow}])
    /\ UNCHANGED <<listed, row, excused>>

\* What the sync saves: a new row for a session it has not found, and else the copy.
Synced(q, a) == IF req[q].copy[a] = NoRow THEN Row(Nobody) ELSE req[q].copy[a]

\* The listed sessions first, then the stale ones; a save each.
Turn(q, a) ==
    /\ req[q].at = "sync"
    /\ a \in req[q].todo
    /\ req[q].todo \cap req[q].seen # {} => a \in req[q].seen

SyncSaves(q, a) ==
    /\ Turn(q, a)
    /\ ~(req[q].copy[a] = NoRow /\ row[a] # NoRow)
    /\ Save(q, a, Synced(q, a))
    /\ Becomes(q, IF req[q].todo = {a} THEN Idle
                   ELSE [req[q] EXCEPT !.todo = @ \ {a}, !.copy[a] = NoRow])

\* Another sync has inserted the session: openwaSessionId is unique, and this one
\* rejects with the rest undone.
SyncClashes(q, a) ==
    /\ Turn(q, a)
    /\ req[q].copy[a] = NoRow
    /\ row[a] # NoRow
    /\ Becomes(q, Idle)
    /\ UNCHANGED <<listed, row, excused>>

\* There was nothing to save.
SyncEmpty(q) ==
    /\ req[q].at = "sync"
    /\ req[q].todo = {}
    /\ Becomes(q, Idle)
    /\ UNCHANGED <<listed, row, excused>>

-----------------------------------------------------------------------------
Init ==
    /\ listed = {}
    /\ row = [a \in Accounts |-> NoRow]
    /\ req = [q \in Requests |-> Idle]
    /\ excused = {}

Next ==
    \/ \E a \in Accounts : GatewayChanges(a)
    \/ \E q \in Requests, a \in Accounts :
           \/ \E client \in Clients \cup {Nobody}, kind \in {"assign", "unassign", "flag"} :
                  Reads(q, a, kind, client)
           \/ AssignCounts(q, a) \/ AssignRefused(q, a) \/ AssignOverrides(q, a)
           \/ AssignSaves(q, a) \/ UnassignSaves(q, a) \/ FlagSaves(q, a)
           \/ SyncSaves(q, a) \/ SyncClashes(q, a)
    \/ \E q \in Requests : SyncLists(q) \/ SyncReads(q) \/ SyncEmpty(q)

Spec == Init /\ [][Next]_vars

-----------------------------------------------------------------------------
(* Properties *)

\* A client has at most the sessions its plan allows, through every mix of syncs,
\* assignments and flags, unless a super admin has overridden the limit or two
\* requests that overlapped have saved the same row or counted the same client.
LimitHeld == \A client \in Clients \ excused : Cardinality(Of(client)) <= Limit

=============================================================================
