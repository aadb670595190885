--------------------------- MODULE OmegaConversation ---------------------------
(***************************************************************************)
(* The workspace's record of one chat (OmegaAdminService): agents answer   *)
(* with sendWorkspaceText, which books a FIRST_RESPONSE or REPLIED event   *)
(* for the customer's turn, while the chat list and the history view also  *)
(* save the row.  A time is the number of messages there were at it.       *)
(***************************************************************************)
EXTENDS Naturals, Sequences

CONSTANTS
    Agents,
    Views,      \* requests for the chat list or the history
    MaxMessages \* bounds the chat

VARIABLES
    chat,   \* the stored messages, by direction
    row,    \* the conversation's row
    req,    \* the progress of each request
    events  \* history: of each incoming message, how many response events name it last

vars == <<chat, row, req, events>>

\* The sends to a chat, one at a time.
Send == "send"
Requests == Views \cup {Send}

\* firstInboundAt, firstResponseAt, lastInboundAt, lastOutboundAt; 0 is null.
NoRow == [exists |-> FALSE, agent |-> "nobody", firstIn |-> 0, firstResp |-> 0, lastIn |-> 0, lastOut |-> 0]
NewRow == [NoRow EXCEPT !.exists = TRUE]

\* `copy` is the row as the request has it, `read` the messages it has read.
Idle == [at |-> "idle", kind |-> "list", agent |-> "nobody", copy |-> NoRow, read |-> <<>>]

Time == 0..MaxMessages

TypeOK ==
    /\ chat \in Seq({"in", "out"}) /\ Len(chat) <= MaxMessages
    /\ row \in [exists : BOOLEAN, agent : Agents \cup {"nobody"},
                firstIn : Time, firstResp : Time, lastIn : Time, lastOut : Time]
    /\ \A q \in Requests :
           /\ req[q].at \in {"idle", "find", "found", "timeline", "read", "assign",
                             "respond", "book", "close", "send"}
           /\ req[q].kind \in {"list", "history", "send"}
    /\ events \in [1..MaxMessages -> Nat]

-----------------------------------------------------------------------------
CustomerWrites ==
    /\ Len(chat) < MaxMessages
    /\ chat' = Append(chat, "in")
    /\ UNCHANGED <<row, req, events>>

\* A message sent from the phone, or by the API.
OtherSends ==
    /\ Len(chat) < MaxMessages
    /\ chat' = Append(chat, "out")
    /\ UNCHANGED <<row, req, events>>

\* The chat list takes the snapshot; so does getWorkspaceMessages, which here is a
\* list followed by a history; sendWorkspaceText goes on.
RequestBegins(q, kind, agent) ==
    /\ req[q].at = "idle"
    /\ q = Send <=> kind = "send"
    /\ req' = [req EXCEPT ![q] = [Idle EXCEPT !.at = "find", !.kind = kind, !.agent = agent]]
    /\ UNCHANGED <<chat, row, events>>

\* syncConversationSnapshot: findOne; then the row is saved as it was found, or
\* inserted; to insert it a second time violates its index.
SnapshotFinds(q) ==
    /\ req[q].at = "find"
    /\ req' = [req EXCEPT ![q].at = "found", ![q].copy = row]
    /\ UNCHANGED <<chat, row, events>>

SnapshotSaves(q) ==
    /\ req[q].at = "found"
    /\ req[q].copy.exists \/ ~row.exists
    /\ row' = IF req[q].copy.exists THEN req[q].copy ELSE NewRow
    /\ req' = [req EXCEPT ![q] = IF @.kind = "list" THEN Idle
                                 ELSE [@ EXCEPT !.at = "timeline", !.copy = row']]
    /\ UNCHANGED <<chat, events>>

SnapshotClashes(q) ==
    /\ req[q].at = "found"
    /\ ~req[q].copy.exists /\ row.exists
    /\ req' = [req EXCEPT ![q] = Idle]
    /\ UNCHANGED <<chat, row, events>>

-----------------------------------------------------------------------------
\* syncConversationTimelineFromMessages: the stored messages are read,
TimelineReads(q) ==
    /\ req[q].at = "timeline"
    /\ req' = [req EXCEPT ![q].at = "read", ![q].read = chat]
    /\ UNCHANGED <<chat, row, events>>

Times(messages, direction) == {i \in DOMAIN messages : messages[i] = direction}
First(times) == IF times = {} THEN 0 ELSE CHOOSE t \in times : \A u \in times : t <= u
Last(times) == IF times = {} THEN 0 ELSE CHOOSE t \in times : \A u \in times : u <= t
Or(time, else) == IF time # 0 THEN time ELSE else

\* Mutant: lastOutboundAt is left to the sends.
Timed_KeepsLastOut(copy, messages) ==
    LET ins == Times(messages, "in") IN
    [copy EXCEPT !.firstIn = Or(First(ins), @),
                 !.firstResp = Or(@, First({t \in Times(messages, "out") : ins # {} /\ t >= First(ins)})),
                 !.lastIn = Or(Last(ins), @)]

\* and the row's times made to agree with them.
Timed(copy, messages) ==
    LET ins == Times(messages, "in")
        outs == Times(messages, "out") IN
    [copy EXCEPT !.firstIn = Or(First(ins), @),
                 !.firstResp = Or(@, First({t \in outs : ins # {} /\ t >= First(ins)})),
                 !.lastIn = Or(Last(ins), @),
                 !.lastOut = Or(Last(outs), @)]

\* Without a message nothing is saved.
TimelineSaves(q) ==
    /\ req[q].at = "read"
    /\ LET timed == IF req[q].read = <<>> THEN req[q].copy ELSE Timed(req[q].copy, req[q].read) IN
           /\ row' = IF req[q].read = <<>> THEN row ELSE timed
           /\ req' = [req EXCEPT ![q] = IF @.kind = "history" THEN Idle
                                        ELSE [@ EXCEPT !.at = "assign", !.copy = timed]]
    /\ UNCHANGED <<chat, events>>

\* What a send saves is its own copy with a column changed.
Saves(q, copy, at) ==
    /\ row' = copy
    /\ req' = [req EXCEPT ![q].copy = copy, ![q].at = at]

\* sendWorkspaceText: the chat is the agent's from now on.
SendAssigns(q) ==
    /\ req[q].at = "assign"
    /\ IF req[q].copy.agent # req[q].agent
         THEN Saves(q, [req[q].copy EXCEPT !.agent = req[q].agent], "respond")
         ELSE req' = [req EXCEPT ![q].at = "respond"] /\ UNCHANGED row
    /\ UNCHANGED <<chat, events>>

TracksFirst(copy) == copy.firstIn # 0 /\ copy.firstResp = 0

IsReply(copy) == copy.lastIn # 0 /\ (copy.lastOut = 0 \/ copy.lastIn > copy.lastOut)

\* The first response is saved before its event; a reply has an event only.
SendResponds(q) ==
    /\ req[q].at = "respond"
    /\ LET copy == req[q].copy IN
           IF TracksFirst(copy)
             THEN Saves(q, [copy EXCEPT !.firstResp = Len(req[q].read)], "book")
             ELSE /\ req' = [req EXCEPT ![q].at = IF IsReply(copy) THEN "book" ELSE "close"]
                  /\ UNCHANGED row
    /\ UNCHANGED <<chat, events>>

SendBooks(q) ==
    /\ req[q].at = "book"
    /\ events' = [events EXCEPT ![req[q].copy.lastIn] = @ + 1]
    /\ req' = [req EXCEPT ![q].at = "close"]
    /\ UNCHANGED <<chat, row>>

\* lastOutboundAt is the time the timeline was saved.
SendCloses(q) ==
    /\ req[q].at = "close"
    /\ Saves(q, [req[q].copy EXCEPT !.lastOut = Len(req[q].read)], "send")
    /\ UNCHANGED <<chat, events>>

\* MessageService.sendText stores the message, whatever becomes of it;
SendStores(q) ==
    /\ req[q].at = "send"
    /\ Len(chat) < MaxMessages
    /\ chat' = Append(chat, "out")
    /\ req' = [req EXCEPT ![q] = Idle]
    /\ UNCHANGED <<row, events>>

\* or a hook blocks it, and nothing is stored: the turn is to be answered again.
SendBlocked(q) ==
    /\ req[q].at = "send"
    /\ req' = [req EXCEPT ![q] = Idle]
    /\ events' = [t \in 1..MaxMessages |-> IF t = req[q].copy.lastIn THEN 0 ELSE events[t]]
    /\ UNCHANGED <<chat, row>>

-----------------------------------------------------------------------------
Init ==
    /\ chat = <<>>
    /\ row = NoRow
    /\ req = [q \in Requests |-> Idle]
    /\ events = [t \in 1..MaxMessages |-> 0]

Next ==
    \/ CustomerWrites \/ OtherSends
    \/ \E q \in Requests :
           \/ \E kind \in {"list", "history", "send"}, agent \in Agents : RequestBegins(q, kind, agent)
           \/ SnapshotFinds(q) \/ SnapshotSaves(q) \/ SnapshotClashes(q)
           \/ TimelineReads(q) \/ TimelineSaves(q)
           \/ SendAssigns(q) \/ SendResponds(q) \/ SendBooks(q) \/ SendCloses(q)
           \/ SendStores(q) \/ SendBlocked(q)

Spec == Init /\ [][Next]_vars

-----------------------------------------------------------------------------
(* Properties *)

\* A customer's turn is counted once (since its answer was last blocked), however the
\* chat list and the history view have overwritten the row meanwhile.
TurnCountedOnce == \A t \in 1..MaxMessages : events[t] <= 1

=============================================================================
