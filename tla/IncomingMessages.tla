--------------------------- MODULE IncomingMessages ----------------------------
(***************************************************************************)
(* What SessionService stores of one chat: a row for each message and the  *)
(* chat's snapshot (unread count, newest message).  Incoming messages and  *)
(* history go through a queue per session, persistMessages; the echo of a  *)
(* message composed on the phone, edits, reactions, revocations, sendSeen  *)
(* and the chat refresh write the same rows without it.  save() writes     *)
(* every column of the copy its caller read before.                        *)
(***************************************************************************)
EXTENDS Naturals, FiniteSets

CONSTANTS
    Newest,    \* bound: messages 1..Newest, numbered by their timestamps
    Outgoing,  \* those composed on the linked phone
    Changed,   \* messages that are edited or revoked
    Reactors,  \* who reacts to a changed message
    MaxJobs,   \* bound: jobs of the queue
    MaxOthers  \* bound: writers beside the queue

Messages == 1..Newest
Incoming == Messages \ Outgoing

ASSUME MessagesAssumption ==
    Newest \in Nat /\ Outgoing \subseteq Messages /\ Changed \subseteq Messages
ASSUME BoundsAssumption ==
    MaxJobs \in Nat /\ MaxOthers \in Nat /\ IsFiniteSet(Reactors) /\ "edit" \notin Reactors

VARIABLES
    wa,      \* each message as WhatsApp has it
    stage,   \* the handling of each incoming message by onMessage
    job,     \* the promises of the queue, in the order they were chained
    tail,    \* messagePersistQueues' entry for the session: the last job, or 0
    row,     \* the message rows
    chat,    \* the chat's snapshot
    change,  \* the handling of each edit and reaction
    revoke,  \* the handling of each revocation
    echo,    \* the handling of each outgoing message by onMessageCreate
    refresh, \* fetchAndCacheChats
    seen,    \* calls of sendSeen
    owed,    \* history: messages a snapshot written serially counts as unread
    torn,    \* history: messages whose row was written under a held copy
    tornChat \* history: the snapshot was

data == <<row, chat>>
history == <<owed, torn, tornChat>>
vars == <<wa, stage, job, tail, data, change, revoke, echo, refresh, seen, history>>

-----------------------------------------------------------------------------
(* Rows *)

Contents == {"text", "edited", "revoked"}

Rows == [stored : BOOLEAN, body : {"", "text", "edited"}, type : {"text", "revoked"},
         reactions : SUBSET Reactors]
NoRow == [stored |-> FALSE, body |-> "", type |-> "text", reactions |-> {}]

Chats == [stored : BOOLEAN, unread : Nat, last : 0..Newest]
NoChat == [stored |-> FALSE, unread |-> 0, last |-> 0]

\* A revoked message has no text.
Body(c) == IF c = "revoked" THEN "" ELSE c
Type(c) == IF c = "revoked" THEN "revoked" ELSE "text"

\* persistMessagesNow: a new row, or the stored one brought up to date; an empty
\* body keeps the stored one.
Merged(r, c) ==
    [r EXCEPT !.stored = TRUE,
              !.body = IF Body(c) = "" THEN @ ELSE Body(c),
              !.type = Type(c)]

\* An edit, or a reaction by w.
Edits(who) == who = "edit"
Applied(r, who) ==
    IF Edits(who)
      THEN [r EXCEPT !.body = "edited", !.type = "text"]
      ELSE [r EXCEPT !.reactions = @ \cup {who}]

Larger(m, n) == IF m >= n THEN m ELSE n

\* Mutant: what was unread before is forgotten.
Counted_Anew(c, counted, last) ==
    [stored |-> TRUE, unread |-> counted, last |-> Larger(c.last, last)]

\* persistMessageChatSnapshots: `counted` messages more, the newest one is `last`.
Counted(c, counted, last) ==
    [stored |-> TRUE, unread |-> c.unread + counted, last |-> Larger(c.last, last)]

Latest(M) == CHOOSE m \in M : \A n \in M : n <= m

-----------------------------------------------------------------------------
(* The queue *)

Jobs == 1..MaxJobs
Kinds == {"live", "history"}
Waiting == {"waiting"}
Held == {"saving", "stored", "counting"}
Settled == {"fulfilled", "rejected"}

JobStates == [at : {"none"} \cup Waiting \cup Held \cup Settled,
              kind : Kinds, of : SUBSET Messages, content : [Messages -> Contents],
              prev : 0..MaxJobs, rows : [Messages -> Rows], chat : Chats,
              clashed : BOOLEAN, cleaned : BOOLEAN]

NoRows == [m \in Messages |-> NoRow]
NoContent == [m \in Messages |-> "text"]
NoJob == [at |-> "none", kind |-> "live", of |-> {}, content |-> NoContent, prev |-> 0,
          rows |-> NoRows, chat |-> NoChat, clashed |-> FALSE, cleaned |-> FALSE]

Chained(n) == job[n].at # "none"
NextFree(n) == ~ Chained(n) /\ \A k \in Jobs : k < n => Chained(k)

Changes == {"edit"} \cup Reactors

ChangeStates == [at : {"none", "asked", "holding", "done"}, copy : Rows]
EchoStates == [at : {"none", "hook", "reading", "saving", "stored", "counting", "done"},
               copy : Rows, chat : Chats]
RefreshStates == [at : {"none", "fetched", "holding", "done"}, of : SUBSET Messages,
                  last : 0..Newest, copy : Chats]

TypeOK ==
    /\ wa \in [Messages -> {"unsent"} \cup Contents]
    /\ stage \in [Incoming -> {"unsent", "hook", "stopped", "queued", "published", "silent"}]
    /\ job \in [Jobs -> JobStates]
    /\ tail \in 0..MaxJobs
    /\ row \in [Messages -> Rows]
    /\ chat \in Chats
    /\ change \in [Changed -> [Changes -> ChangeStates]]
    /\ revoke \in [Changed -> {"none", "asked", "done"}]
    /\ echo \in [Outgoing -> EchoStates]
    /\ refresh \in RefreshStates
    /\ seen \in {"none", "asked", "done"}
    /\ owed \subseteq Messages
    /\ torn \subseteq Messages
    /\ tornChat \in BOOLEAN

-----------------------------------------------------------------------------
(* Who holds a copy of what *)

JobHolds(n, m) == job[n].at = "saving" /\ m \in job[n].of
ChangeHolds(m, who) == m \in Changed /\ change[m][who].at = "holding"
EchoHolds(m) == m \in Outgoing /\ echo[m].at = "saving"

\* Somebody other than the writer itself holds row m.
RowHeld(m, self) ==
    \/ \E n \in Jobs : self # <<"job", n>> /\ JobHolds(n, m)
    \/ \E who \in Changes : self # <<"change", who>> /\ ChangeHolds(m, who)
    \/ self # <<"echo">> /\ EchoHolds(m)

ChatHeldByJob == \E n \in Jobs : job[n].at = "counting"
ChatHeldByEcho(self) == \E o \in Outgoing \ self : echo[o].at = "counting"

-----------------------------------------------------------------------------
(* Steps of one handler; and the number of writers beside the queue, for the bound *)

JobBecomes(n, j) == job' = [job EXCEPT ![n] = j]
ChangeBecomes(m, who, c) == change' = [change EXCEPT ![m][who] = c]
EchoBecomes(m, e) == echo' = [echo EXCEPT ![m] = e]

Begun ==
      Cardinality({p \in Changed \X Changes : change[p[1]][p[2]].at # "none"})
    + Cardinality({m \in Changed : revoke[m] # "none"})
    + Cardinality({m \in Outgoing : echo[m].at # "none"})
    + Cardinality({x \in {"refresh"} : refresh.at # "none"})
    + Cardinality({x \in {"seen"} : seen # "none"})
OneMore == Begun < MaxOthers

-----------------------------------------------------------------------------
(* onMessage *)

\* The engine hands over an incoming message; the hook message:received runs.
Arrives(m) ==
    /\ stage[m] = "unsent"
    /\ wa' = [wa EXCEPT ![m] = "text"]
    /\ stage' = [stage EXCEPT ![m] = "hook"]
    /\ UNCHANGED <<job, tail, data, change, revoke, echo, refresh, seen, history>>

\* A plugin takes the message, or the engine has been replaced meanwhile.
HookStops(m) ==
    /\ stage[m] = "hook"
    /\ stage' = [stage EXCEPT ![m] = "stopped"]
    /\ UNCHANGED <<wa, job, tail, data, change, revoke, echo, refresh, seen, history>>

\* persistMessages: the job follows the one the map holds.
Chain(kind, of, content) ==
    \E n \in Jobs :
        /\ NextFree(n)
        /\ JobBecomes(n, [NoJob EXCEPT !.at = "waiting", !.kind = kind, !.of = of,
                                       !.content = content, !.prev = tail])
        /\ tail' = n

HookGoesOn(m) ==
    /\ stage[m] = "hook"
    /\ stage' = [stage EXCEPT ![m] = "queued"]
    /\ Chain("live", {m}, NoContent)
    /\ UNCHANGED <<wa, data, change, revoke, echo, refresh, seen, history>>

\* persistHistory, with messages as WhatsApp has them now.
HistoryArrives(M) ==
    /\ M # {}
    /\ \A m \in M : wa[m] # "unsent"
    /\ Chain("history", M, [m \in Messages |-> IF m \in M THEN wa[m] ELSE "text"])
    /\ UNCHANGED <<wa, stage, data, change, revoke, echo, refresh, seen, history>>

-----------------------------------------------------------------------------
(* persistMessagesNow *)

\* Mutant: a job follows only the success of the one before.
Turn_OnlySuccess(n) == job[n].prev # 0 => job[job[n].prev].at = "fulfilled"

\* Mutant: no queue.
Turn_Always(n) == TRUE

\* previous.catch(() => undefined).then(...)
Turn(n) == job[n].prev # 0 => job[job[n].prev].at \in Settled

JobReads(n) ==
    /\ job[n].at = "waiting"
    /\ Turn(n)
    /\ JobBecomes(n, [job[n] EXCEPT
           !.at = "saving", !.rows = [m \in Messages |-> IF m \in job[n].of THEN row[m] ELSE NoRow]])
    /\ UNCHANGED <<wa, stage, tail, data, change, revoke, echo, refresh, seen, history>>

\* An insert whose id has been inserted meanwhile violates UQ_messages_session_wa_id.
JobClashes(n) == \E m \in job[n].of : ~ job[n].rows[m].stored /\ row[m].stored

\* save(rows) is one transaction: all rows, or none.
JobSaves(n) ==
    /\ job[n].at = "saving"
    /\ ~ JobClashes(n)
    /\ row' = [m \in Messages |-> IF m \in job[n].of THEN Merged(job[n].rows[m], job[n].content[m])
                                                     ELSE row[m]]
    /\ torn' = torn \cup {m \in job[n].of : RowHeld(m, <<"job", n>>) \/ job[n].content[m] # wa[m]}
    /\ JobBecomes(n, [job[n] EXCEPT !.at = "stored", !.rows = NoRows])
    /\ UNCHANGED <<wa, stage, tail, chat, change, revoke, echo, refresh, seen, owed, tornChat>>

\* The save fails, over a clash or for another reason: the promise rejects.
JobRejected(n) ==
    /\ job[n].at = "saving"
    /\ JobBecomes(n, [job[n] EXCEPT !.at = "rejected", !.rows = NoRows, !.clashed = JobClashes(n)])
    /\ UNCHANGED <<wa, stage, tail, data, change, revoke, echo, refresh, seen, history>>

JobReadsChat(n) ==
    /\ job[n].at = "stored"
    /\ JobBecomes(n, [job[n] EXCEPT !.at = "counting", !.chat = chat])
    /\ UNCHANGED <<wa, stage, tail, data, change, revoke, echo, refresh, seen, history>>

\* The snapshot is saved, with what a live job adds.
JobCounts(n) ==
    /\ job[n].at = "counting"
    /\ LET live == IF job[n].kind = "live" THEN job[n].of \ Outgoing ELSE {}
           clash == ~ job[n].chat.stored /\ chat.stored
       IN  /\ chat' = IF clash THEN chat
                      ELSE Counted(job[n].chat, Cardinality(live), Latest(job[n].of))
           /\ owed' = owed \cup live
           /\ tornChat' = (tornChat \/ clash \/ ChatHeldByEcho({}) \/ refresh.at = "holding")
    /\ JobBecomes(n, [job[n] EXCEPT !.at = "fulfilled", !.chat = NoChat])
    /\ UNCHANGED <<wa, stage, tail, row, change, revoke, echo, refresh, seen, torn>>

\* Reading or saving the snapshot fails: the error is logged, the rows are kept.
JobSkipsChat(n) ==
    /\ job[n].at \in {"stored", "counting"}
    /\ JobBecomes(n, [job[n] EXCEPT !.at = "fulfilled", !.chat = NoChat])
    /\ UNCHANGED <<wa, stage, tail, data, change, revoke, echo, refresh, seen, history>>

TailWithout(n) == IF tail = n THEN 0 ELSE tail

\* queued.finally(...), then the caller goes on: onMessage publishes what is
\* stored, unless the session has got another engine meanwhile.
JobEnds(n) ==
    /\ job[n].at \in Settled
    /\ ~ job[n].cleaned
    /\ JobBecomes(n, [job[n] EXCEPT !.cleaned = TRUE])
    /\ tail' = TailWithout(n)
    /\ \E outcome \in {"published", "silent"} :
           /\ outcome = "published" => job[n].at = "fulfilled"
           /\ stage' = [m \in Incoming |->
                  IF job[n].kind = "live" /\ m \in job[n].of THEN outcome ELSE stage[m]]
    /\ UNCHANGED <<wa, data, change, revoke, echo, refresh, seen, history>>

-----------------------------------------------------------------------------
(* Edits, reactions and revocations *)

\* The sender changes a message: onMessageEdited or onMessageReaction looks for
\* its row, the first one has only been sent so far.
ChangeArrives(m, who) ==
    /\ OneMore
    /\ change[m][who].at = "none"
    /\ wa[m] \in {"text", "edited"}
    /\ ChangeBecomes(m, who, [at |-> "asked", copy |-> NoRow])
    /\ wa' = IF Edits(who) THEN [wa EXCEPT ![m] = "edited"] ELSE wa
    /\ UNCHANGED <<stage, job, tail, data, revoke, echo, refresh, seen, history>>

\* No row yet: the change is dropped.
ChangeReads(m, who) ==
    /\ change[m][who].at = "asked"
    /\ IF row[m].stored
         THEN /\ ChangeBecomes(m, who, [at |-> "holding", copy |-> row[m]])
              /\ UNCHANGED torn
         ELSE /\ ChangeBecomes(m, who, [at |-> "done", copy |-> NoRow])
              /\ torn' = torn \cup {m}
    /\ UNCHANGED <<wa, stage, job, tail, data, revoke, echo, refresh, seen, owed, tornChat>>

ChangeSaves(m, who) ==
    /\ change[m][who].at = "holding"
    /\ row' = [row EXCEPT ![m] = Applied(change[m][who].copy, who)]
    /\ torn' = torn \cup (IF RowHeld(m, <<"change", who>>) \/ (Edits(who) /\ wa[m] # "edited")
                           THEN {m} ELSE {})
    /\ ChangeBecomes(m, who, [at |-> "done", copy |-> NoRow])
    /\ UNCHANGED <<wa, stage, job, tail, chat, revoke, echo, refresh, seen, owed, tornChat>>

\* The sender deletes a message; onMessageRevoked sends one UPDATE.
RevokeArrives(m) ==
    /\ OneMore
    /\ revoke[m] = "none"
    /\ wa[m] \in {"text", "edited"}
    /\ wa' = [wa EXCEPT ![m] = "revoked"]
    /\ revoke' = [revoke EXCEPT ![m] = "asked"]
    /\ UNCHANGED <<stage, job, tail, data, change, echo, refresh, seen, history>>

\* Mutant: the text stays, only the type changes.
Blanked_KeepsBody(r) == [r EXCEPT !.type = "revoked"]

Blanked(r) == [r EXCEPT !.body = "", !.type = "revoked"]

RevokeUpdates(m) ==
    /\ revoke[m] = "asked"
    /\ revoke' = [revoke EXCEPT ![m] = "done"]
    /\ row' = IF row[m].stored THEN [row EXCEPT ![m] = Blanked(@)] ELSE row
    /\ torn' = torn \cup (IF ~ row[m].stored \/ RowHeld(m, <<"revoke">>) THEN {m} ELSE {})
    /\ UNCHANGED <<wa, stage, job, tail, chat, change, echo, refresh, seen, owed, tornChat>>

-----------------------------------------------------------------------------
(* onMessageCreate and persistOutgoingEngineMessage *)

\* A message composed on the linked phone: the hook message:sent runs.
EchoArrives(m) ==
    /\ OneMore
    /\ wa[m] = "unsent"
    /\ wa' = [wa EXCEPT ![m] = "text"]
    /\ EchoBecomes(m, [echo[m] EXCEPT !.at = "hook"])
    /\ UNCHANGED <<stage, job, tail, data, change, revoke, refresh, seen, history>>

\* A plugin takes it, or the engine is gone, or message.sent is published and the
\* message persisted.
EchoHook(m) ==
    /\ echo[m].at = "hook"
    /\ \E at \in {"done", "reading"} :
           EchoBecomes(m, [echo[m] EXCEPT !.at = at])
    /\ UNCHANGED <<wa, stage, job, tail, data, change, revoke, refresh, seen, history>>

EchoReads(m) ==
    /\ echo[m].at = "reading"
    /\ EchoBecomes(m, [echo[m] EXCEPT !.at = "saving", !.copy = row[m]])
    /\ UNCHANGED <<wa, stage, job, tail, data, change, revoke, refresh, seen, history>>

\* A clash, like every other error, ends the handling.
EchoSaves(m) ==
    /\ echo[m].at = "saving"
    /\ LET clash == ~ echo[m].copy.stored /\ row[m].stored
       IN  IF clash
             THEN /\ EchoBecomes(m, [echo[m] EXCEPT !.at = "done", !.copy = NoRow])
                  /\ UNCHANGED <<row, torn>>
             ELSE /\ EchoBecomes(m, [echo[m] EXCEPT !.at = "stored", !.copy = NoRow])
                  /\ row' = [row EXCEPT ![m] = Merged(echo[m].copy, "text")]
                  /\ torn' = torn \cup (IF RowHeld(m, <<"echo">>) \/ wa[m] # "text"
                                         THEN {m} ELSE {})
    /\ UNCHANGED <<wa, stage, job, tail, chat, change, revoke, refresh, seen, owed, tornChat>>

EchoReadsChat(m) ==
    /\ echo[m].at = "stored"
    /\ EchoBecomes(m, [echo[m] EXCEPT !.at = "counting", !.chat = chat])
    /\ UNCHANGED <<wa, stage, job, tail, data, change, revoke, refresh, seen, history>>

EchoCounts(m) ==
    /\ echo[m].at = "counting"
    /\ LET clash == ~ echo[m].chat.stored /\ chat.stored
       IN  /\ chat' = IF clash THEN chat ELSE Counted(echo[m].chat, 0, m)
           /\ tornChat' = (tornChat \/ clash \/ ChatHeldByJob \/ ChatHeldByEcho({m})
                                    \/ refresh.at = "holding")
    /\ EchoBecomes(m, [echo[m] EXCEPT !.at = "done", !.chat = NoChat])
    /\ UNCHANGED <<wa, stage, job, tail, row, change, revoke, refresh, seen, owed, torn>>

-----------------------------------------------------------------------------
(* The chat list *)

\* Incoming messages the phone has not opened: the live list's unread count.
Unopened == {m \in Incoming : wa[m] # "unsent"}

\* onMessage has not counted it yet, and will.
OnItsWay(m) ==
    \/ stage[m] = "hook"
    \/ \E n \in Jobs : job[n].kind = "live" /\ m \in job[n].of /\ job[n].at \notin {"none"} \cup Settled

\* engine.getChats() of fetchAndCacheChats.
RefreshFetches ==
    /\ OneMore
    /\ refresh.at = "none"
    /\ \E m \in Messages : wa[m] # "unsent"
    /\ refresh' = [refresh EXCEPT !.at = "fetched", !.of = Unopened,
                                  !.last = Latest({m \in Messages : wa[m] # "unsent"})]
    /\ UNCHANGED <<wa, stage, job, tail, data, change, revoke, echo, seen, history>>

RefreshReads ==
    /\ refresh.at = "fetched"
    /\ refresh' = [refresh EXCEPT !.at = "holding", !.copy = chat]
    /\ UNCHANGED <<wa, stage, job, tail, data, change, revoke, echo, seen, history>>

\* persistChatSummaries: the live unread count replaces the stored one.
RefreshSaves ==
    /\ refresh.at = "holding"
    /\ LET clash == ~ refresh.copy.stored /\ chat.stored
       IN  /\ chat' = IF clash THEN chat
                      ELSE [stored |-> TRUE, unread |-> Cardinality(refresh.of),
                            last |-> Larger(refresh.copy.last, refresh.last)]
           /\ owed' = refresh.of
           /\ tornChat' = (tornChat \/ clash \/ ChatHeldByJob \/ ChatHeldByEcho({})
                                    \/ \E m \in refresh.of : OnItsWay(m))
    /\ refresh' = [at |-> "done", of |-> {}, last |-> 0, copy |-> NoChat]
    /\ UNCHANGED <<wa, stage, job, tail, row, change, revoke, echo, seen, torn>>

\* sendSeen; the phone learns of it later.
SeenAsked ==
    /\ OneMore
    /\ seen = "none"
    /\ seen' = "asked"
    /\ UNCHANGED <<wa, stage, job, tail, data, change, revoke, echo, refresh, history>>

SeenUpdates ==
    /\ seen = "asked"
    /\ seen' = "done"
    /\ chat' = [chat EXCEPT !.unread = 0]
    /\ owed' = {}
    /\ tornChat' = (tornChat \/ ChatHeldByJob \/ ChatHeldByEcho({}) \/ refresh.at = "holding")
    /\ UNCHANGED <<wa, stage, job, tail, row, change, revoke, echo, refresh, torn>>

-----------------------------------------------------------------------------
Init ==
    /\ wa = [m \in Messages |-> "unsent"]
    /\ stage = [m \in Incoming |-> "unsent"]
    /\ job = [n \in Jobs |-> NoJob]
    /\ tail = 0
    /\ row = NoRows
    /\ chat = NoChat
    /\ change = [m \in Changed |-> [who \in Changes |-> [at |-> "none", copy |-> NoRow]]]
    /\ revoke = [m \in Changed |-> "none"]
    /\ echo = [m \in Outgoing |-> [at |-> "none", copy |-> NoRow, chat |-> NoChat]]
    /\ refresh = [at |-> "none", of |-> {}, last |-> 0, copy |-> NoChat]
    /\ seen = "none"
    /\ owed = {}
    /\ torn = {}
    /\ tornChat = FALSE

JobNext(n) ==
    \/ JobReads(n) \/ JobSaves(n) \/ JobRejected(n)
    \/ JobReadsChat(n) \/ JobCounts(n) \/ JobSkipsChat(n) \/ JobEnds(n)

ChangeNext(m) ==
    \/ \E who \in Changes : ChangeArrives(m, who) \/ ChangeReads(m, who) \/ ChangeSaves(m, who)
    \/ RevokeArrives(m) \/ RevokeUpdates(m)

EchoNext(m) ==
    EchoArrives(m) \/ EchoHook(m) \/ EchoReads(m) \/ EchoSaves(m) \/ EchoReadsChat(m) \/ EchoCounts(m)

ChatNext == RefreshFetches \/ RefreshReads \/ RefreshSaves \/ SeenAsked \/ SeenUpdates

Next ==
    \/ \E m \in Incoming : Arrives(m) \/ HookStops(m) \/ HookGoesOn(m)
    \/ \E M \in SUBSET Messages : HistoryArrives(M)
    \/ \E n \in Jobs : JobNext(n)
    \/ \E m \in Changed : ChangeNext(m)
    \/ \E m \in Outgoing : EchoNext(m)
    \/ ChatNext

Spec == Init /\ [][Next]_vars

\* Every await of a job settles.
FairSpec == Spec /\ \A n \in Jobs : WF_vars(JobNext(n))

-----------------------------------------------------------------------------
(* Properties *)

Running(n) == job[n].at \in Held

\* The queue serialises the database work of a session: while one job is between
\* its first read and its last write, every job chained before it has settled and
\* none chained after it has begun.
OneJobAtATime == \A n, k \in Jobs : Running(n) /\ Running(k) => n = k

\* An incoming message is never lost to the unique index: the echo only inserts
\* outgoing ones, and the queue keeps history from inserting it in between.
LiveNeverClashes == \A n \in Jobs : job[n].kind = "live" => ~ job[n].clashed

\* Unless a writer beside the queue overlapped another, or a refresh took over the
\* count of a message on its way, the snapshot's unread count is that of the
\* incoming messages stored live since the chat was seen: none counted twice, not
\* counted, or counted for a history entry or an echo.
UnreadExact == ~ tornChat => chat.unread = Cardinality(owed)

ChangePending(m) ==
    m \in Changed /\ (revoke[m] = "asked" \/ \E who \in Changes : change[m][who].at \in {"asked", "holding"})

Reacted(m) == {who \in Reactors : m \in Changed /\ change[m][who].at = "done"}

\* Unless an overlapping copy or a late one was saved, a stored row shows what
\* WhatsApp has: the edited text, no text after a revocation, every reaction.
RowAgrees ==
    \A m \in Messages \ torn :
        row[m].stored /\ ~ ChangePending(m)
            => row[m] = [stored |-> TRUE, body |-> Body(wa[m]), type |-> Type(wa[m]),
                         reactions |-> Reacted(m)]

\* A failed job does not stall those behind it: whatever is chained is settled, and
\* the message published or given up.
QueueDrains ==
    /\ \A n \in Jobs : Chained(n) ~> job[n].cleaned
    /\ \A m \in Incoming : (stage[m] = "queued") ~> (stage[m] \in {"published", "silent"})

=============================================================================
