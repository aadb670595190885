------------------------------ MODULE ApiKeyUsage ------------------------------
(***************************************************************************)
(* One API key (AuthService): each request and socket subscription that    *)
(* validates it is counted, in memory, and flushed to its row once in a    *)
(* window (STAT_FLUSH_INTERVAL_MS), while the dashboard edits, revokes or  *)
(* deletes it.  Every save stores the whole row as it has been read.       *)
(***************************************************************************)
EXTENDS Naturals, FiniteSets

CONSTANTS
    Requests,
    MaxUses \* bounds the validations

VARIABLES
    row,     \* the key's row
    pending, \* AuthService.pendingUsage of the key; 0: no entry
    req,     \* the progress of each request
    uses,    \* history: the validations since the counter was last dropped
    torn     \* history: a save has put back what another had saved

vars == <<row, pending, req, uses, torn>>

\* `used`: lastUsedAt is null or longer ago than the window, or within it.
Row == [exists : BOOLEAN, active : BOOLEAN, count : 0..MaxUses, used : {"long ago", "lately"}]
NewRow == [exists |-> TRUE, active |-> TRUE, count |-> 0, used |-> "long ago"]
NoRow == [NewRow EXCEPT !.exists = FALSE]

\* `read`: the row as it was found; `adds`: the uses a flush brings.
Idle == [at |-> "idle", read |-> NoRow, adds |-> 0]

TypeOK ==
    /\ row \in Row
    /\ pending \in 0..MaxUses
    /\ req \in [Requests -> [at : {"idle", "validate", "flush", "edit", "revoke", "revoking", "delete", "deleting"},
                             read : Row, adds : 0..MaxUses]]
    /\ uses \in 0..MaxUses
    /\ torn \in BOOLEAN

-----------------------------------------------------------------------------
\* findOne, by the key's hash or its id.
Reads(q, kind) ==
    /\ req[q].at = "idle"
    /\ req' = [req EXCEPT ![q] = [at |-> kind, read |-> row, adds |-> 0]]
    /\ UNCHANGED <<row, pending, uses, torn>>

\* save: the whole row, also if it has been removed.
Save(q, new) ==
    /\ row' = new
    /\ torn' = (torn \/ row # req[q].read)

\* Minute by minute lastUsedAt grows old.
WindowPasses ==
    /\ row.used = "lately"
    /\ row' = [row EXCEPT !.used = "long ago"]
    /\ req' = [q \in Requests |-> [req[q] EXCEPT !.read.used = "long ago"]]
    /\ UNCHANGED <<pending, uses, torn>>

\* validateApiKey: unknown, revoked, expired, or not for this caller.
Rejects(q) ==
    /\ req[q].at = "validate"
    /\ req' = [req EXCEPT ![q] = Idle]
    /\ UNCHANGED <<row, pending, uses, torn>>

\* Mutant: the uses a flush brings stay in the accumulator.
Flushed_Kept(q) == pending + 1

\* A flush takes the accumulator with it.
Flushed(q) == 0

\* A use is counted in memory, and flushed if the key was not used lately.
Counts(q) ==
    /\ req[q].at = "validate"
    /\ req[q].read.exists /\ req[q].read.active
    /\ uses < MaxUses
    /\ uses' = uses + 1
    /\ IF req[q].read.used = "long ago"
         THEN /\ pending' = Flushed(q)
              /\ req' = [req EXCEPT ![q].at = "flush", ![q].adds = pending + 1]
         ELSE /\ pending' = pending + 1
              /\ req' = [req EXCEPT ![q] = Idle]
    /\ UNCHANGED <<row, torn>>

FlushSaves(q) ==
    /\ req[q].at = "flush"
    /\ req[q].read.count + req[q].adds <= MaxUses
    /\ Save(q, [req[q].read EXCEPT !.count = @ + req[q].adds, !.used = "lately"])
    /\ req' = [req EXCEPT ![q] = Idle]
    /\ UNCHANGED <<pending, uses>>

-----------------------------------------------------------------------------
\* update: what it edits no property tells apart; it puts back the rest.
EditSaves(q) ==
    /\ req[q].at = "edit"
    /\ req[q].read.exists
    /\ Save(q, req[q].read)
    /\ req' = [req EXCEPT ![q] = Idle]
    /\ UNCHANGED <<pending, uses>>

\* The key has not been found.
NotFound(q) ==
    /\ req[q].at \in {"edit", "revoke", "delete"}
    /\ ~req[q].read.exists
    /\ req' = [req EXCEPT ![q] = Idle]
    /\ UNCHANGED <<row, pending, uses, torn>>

\* revoke and delete drop the accumulator: these uses are not counted any more.
Drops(q, kind, next) ==
    /\ req[q].at = kind
    /\ req[q].read.exists
    /\ pending' = 0
    /\ uses' = uses - pending
    /\ req' = [req EXCEPT ![q].at = next]
    /\ UNCHANGED <<row, torn>>

RevokeSaves(q) ==
    /\ req[q].at = "revoking"
    /\ Save(q, [req[q].read EXCEPT !.active = FALSE])
    /\ req' = [req EXCEPT ![q] = Idle]
    /\ UNCHANGED <<pending, uses>>

DeleteRemoves(q) ==
    /\ req[q].at = "deleting"
    /\ row' = NoRow
    /\ torn' = (torn \/ row # req[q].read)
    /\ req' = [req EXCEPT ![q] = Idle]
    /\ UNCHANGED <<pending, uses>>

\* The process ends: what was counted in memory only is gone, as are the requests.
Restart ==
    /\ pending' = 0
    /\ req' = [q \in Requests |-> Idle]
    /\ uses' = row.count
    /\ UNCHANGED <<row, torn>>

-----------------------------------------------------------------------------
Init ==
    /\ row = NewRow
    /\ pending = 0
    /\ req = [q \in Requests |-> Idle]
    /\ uses = 0
    /\ torn = FALSE

Next ==
    \/ WindowPasses \/ Restart
    \/ \E q \in Requests :
           \/ \E kind \in {"validate", "edit", "revoke", "delete"} : Reads(q, kind)
           \/ Rejects(q) \/ Counts(q) \/ FlushSaves(q) \/ EditSaves(q) \/ NotFound(q)
           \/ Drops(q, "revoke", "revoking") \/ Drops(q, "delete", "deleting")
           \/ RevokeSaves(q) \/ DeleteRemoves(q)

Spec == Init /\ [][Next]_vars

-----------------------------------------------------------------------------
(* Properties *)

\* The uses that the flushes on their way bring, one by one.
Flushing == {u \in Requests \X (1..MaxUses) : u[2] <= req[u[1]].adds}

\* usageCount "stays accurate via an in-memory accumulator": what the row, the
\* accumulator and the flushes on their way hold are the uses of the key, unless two
\* requests that overlapped have saved its row.
UsageExact ==
    ~torn /\ row.exists
        => row.count + pending + Cardinality(Flushing) = uses

=============================================================================
