-------------------------------- MODULE ChatRoom --------------------------------
(***************************************************************************)
(* The dashboard's chat page (Chats.tsx): the list of messages it shows of *)
(* the chat that is open.  Histories being loaded, live events, the        *)
(* recovery of the live history and the operator's own sends all change    *)
(* the list when their answers come, be it after another chat or another   *)
(* session has been opened.  Each step is a handler up to its next await,  *)
(* with the effects that React runs after it.  Which messages are shown is *)
(* modelled, not what they say (acks, reactions, deletions), and neither   *)
(* is the list of chats beside them.                                       *)
(***************************************************************************)
EXTENDS Naturals, Sequences, SequencesExt, Arrays

CONSTANTS
    Sessions,
    Chats,
    Incoming, \* the rooms to which somebody writes a message
    MaxSends, \* bound: messages the operator sends
    MaxLoads  \* bound: loads in flight, the superseded ones included

VARIABLES
    session,  \* selectedSessionId
    active,   \* activeChat
    ready,    \* isSessionReady
    bubbles,  \* messages
    loading,  \* loadingMessages
    older,    \* loadingOlderMessages
    source,   \* historySource
    load,     \* the calls of loadMessages that have not returned
    newest,   \* messageRequestRef: the load that is still wanted, or 0
    recovery, \* recoverLiveHistory
    sending,  \* the message handleSend awaits, or Nothing
    sends,    \* how many there have been
    table,    \* the gateway's row of each message
    known,    \* the messages WhatsApp has
    events    \* the events on their way to the page

page == <<session, active, ready, bubbles, loading, older, source>>
requests == <<load, newest, recovery>>
send == <<sending, sends>>
gateway == <<table, known, events>>
vars == <<page, requests, send, gateway>>

NoChat == "none"
Rooms == Sessions \X Chats
Room == <<session, active>>
NoRoom == <<NoChat, NoChat>>

\* Number 0 is somebody's message to the room, the others are the operator's.
Messages == [room : Rooms, number : 0..MaxSends]
Nothing == [room |-> NoRoom, number |-> 0]

\* messageIdentity: the id of the placeholder, of the row or of WhatsApp.  "failed" is a
\* placeholder whose send has been refused.
Bubble(m, id) == [msg |-> m, id |-> id]
Bubbles == {Bubble(m, id) : m \in Messages, id \in {"temp", "failed", "row", "wa"}}

\* A load awaits the stored and the live history at once, and then the media.  `found` is
\* what the rows have shown, and `stored` that they could be read.
Slots == 1..MaxLoads
NoLoad == [at |-> "free", room |-> NoRoom, older |-> FALSE, stored |-> FALSE, found |-> {}]

NoRecovery == [at |-> "off", room |-> NoRoom]

Stored(room) ==
    {Bubble(m, IF table[m] = "named" THEN "wa" ELSE "row") :
        m \in {n \in Messages : n.room = room /\ table[n] # "none"}}

\* The phone's history, as far as it is synchronised.
LiveHistories(room) == SUBSET {Bubble(m, "wa") : m \in {n \in known : n.room = room}}

\* mergeMessageHistory: one bubble for each identity.  The order is that of the times.
Merged(shown, found) == shown \o SetToSeq(found \ ToSet(shown))

TypeOK ==
    /\ session \in Sessions
    /\ active \in Chats \cup {NoChat}
    /\ ready \in BOOLEAN
    /\ bubbles \in Seq(Bubbles)
    /\ loading \in BOOLEAN /\ older \in BOOLEAN
    /\ source \in {"live", "stored"}
    /\ newest \in 0..MaxLoads
    /\ load \in [Slots -> [at : {"free", "asked", "read", "media"}, room : Rooms \cup {NoRoom},
                           older : BOOLEAN, stored : BOOLEAN, found : SUBSET Bubbles]]
    /\ recovery \in [at : {"off", "armed"}, room : Rooms \cup {NoRoom}]
    /\ sending \in Messages \cup {Nothing} /\ sends \in 0..MaxSends
    /\ table \in [Messages -> {"none", "unnamed", "named"}]
    /\ known \subseteq Messages /\ events \subseteq known

Init ==
    /\ session \in Sessions /\ active = NoChat /\ ready = TRUE
    /\ bubbles = <<>> /\ loading = FALSE /\ older = FALSE /\ source = "live"
    /\ load = [l \in Slots |-> NoLoad] /\ newest = 0 /\ recovery = NoRecovery
    /\ sending = Nothing /\ sends = 0
    /\ table = [m \in Messages |-> "none"] /\ known = {} /\ events = {}

-----------------------------------------------------------------------------
(* The recovery of the live history *)

\* The effect depends on these: when one has changed it is cleaned up, which cancels
\* the recovery in flight, and begins anew.
Watched == <<session, active, source, ready, Len(bubbles)>>

Begun == IF active' # NoChat /\ source' = "stored" /\ ready'
           THEN [at |-> "armed", room |-> Room'] ELSE NoRecovery

\* React runs the effect after the step.
RecoveryFollows == recovery' = IF Watched' = Watched THEN recovery ELSE Begun

\* After 3 s, and then every 10 s, the live history is asked for.  An answer that is empty
\* although messages are shown counts as a failure, which leaves the recovery armed.  That
\* the source has changed cancels it, and with it the request for the media.
RecoveryMerges ==
    /\ recovery.at = "armed"
    /\ \E found \in LiveHistories(recovery.room) :
         /\ found # {} \/ bubbles = <<>>
         /\ bubbles' = Merged(bubbles, found)
    /\ source' = "live"
    /\ UNCHANGED <<session, active, ready, loading, older, load, newest, send, gateway>>
    /\ RecoveryFollows

-----------------------------------------------------------------------------
(* Loading *)

\* loadMessages: a new request, which supersedes all others.
Loads(room, isOlder) == \E l \in Slots :
    /\ load[l].at = "free"
    /\ load' = [load EXCEPT ![l] =
           [NoLoad EXCEPT !.at = "asked", !.room = room, !.older = isOlder]]
    /\ newest' = l
    /\ IF isOlder THEN older' = TRUE /\ UNCHANGED loading
                  ELSE loading' = TRUE /\ UNCHANGED older

\* The effect on activeChatId.  What was shown stays in the list, behind the spinner.
ShowsChat(chat) ==
    /\ active' = chat
    /\ source' = "live"
    /\ Loads(<<session, chat>>, FALSE)
    /\ UNCHANGED <<session, ready, bubbles, send, gateway>>
    /\ RecoveryFollows

\* The operator opens a chat, or has another language, which renews loadMessages.
OpenChat(chat) == active # chat /\ ShowsChat(chat)
Reload == active # NoChat /\ ShowsChat(active)

\* handleLoadOlderMessages; the button is not there while the spinner is.
LoadOlder ==
    /\ active # NoChat /\ ~ loading /\ ~ older /\ bubbles # <<>>
    /\ Loads(Room, TRUE)
    /\ UNCHANGED <<session, active, ready, bubbles, source, recovery, send, gateway>>

\* Another session: no chat is open, and a load in flight is not wanted any more.  (Before,
\* the old chat is loaded once more, of the new session, and superseded at once.)
SelectSession(s) ==
    /\ s # session
    /\ session' = s /\ active' = NoChat
    /\ ready' \in BOOLEAN
    /\ bubbles' = <<>> /\ loading' = FALSE /\ older' = FALSE
    /\ newest' = 0
    /\ UNCHANGED <<source, load, send, gateway>>
    /\ RecoveryFollows

\* loadStoredMessageHistory.
StoredReads(l) ==
    /\ load[l].at = "asked"
    /\ load' = [load EXCEPT ![l].at = "read", ![l].stored = TRUE, ![l].found = Stored(load[l].room)]
    /\ UNCHANGED <<page, newest, recovery, send, gateway>>

StoredFails(l) ==
    /\ load[l].at = "asked"
    /\ load' = [load EXCEPT ![l].at = "read"]
    /\ UNCHANGED <<page, newest, recovery, send, gateway>>

\* Mutant: the answer to any load is shown.
Stale_Never(l) == FALSE

\* Whether the load has been superseded.
Stale(l) == newest # l

Returned(l) == [load EXCEPT ![l] = NoLoad]

\* What the load leaves in the list: older messages join those that are shown.
Kept(l) == IF load[l].older THEN bubbles ELSE <<>>

\* Both histories have settled, and the load is still wanted.
HistoryComes(l) ==
    /\ load[l].at = "read" /\ ~ Stale(l)
    /\ \/ \E live \in LiveHistories(load[l].room) :
            /\ load' = [load EXCEPT ![l] = [NoLoad EXCEPT !.at = "media", !.room = load[l].room]]
            /\ bubbles' = Merged(Kept(l), load[l].found \cup live)
            /\ source' = "live"
       \/ /\ load[l].stored
          /\ load' = Returned(l)
          /\ bubbles' = Merged(Kept(l), load[l].found)
          /\ source' = "stored"
       \/ /\ ~ load[l].stored
          /\ load' = Returned(l)
          /\ bubbles' = Kept(l)
          /\ UNCHANGED source
    /\ loading' = FALSE /\ older' = FALSE
    /\ UNCHANGED <<session, active, ready, newest, send, gateway>>
    /\ RecoveryFollows

\* The live history once more, with its media.
MediaComes(l) ==
    /\ load[l].at = "media" /\ ~ Stale(l)
    /\ load' = Returned(l)
    /\ \E live \in LiveHistories(load[l].room) : bubbles' = Merged(bubbles, live)
    /\ UNCHANGED <<session, active, ready, loading, older, source, newest, send, gateway>>
    /\ RecoveryFollows

\* The answers to a superseded load change nothing.
LoadEnds(l) ==
    /\ load[l].at \in {"read", "media"} /\ Stale(l)
    /\ load' = Returned(l)
    /\ UNCHANGED <<page, newest, recovery, send, gateway>>

-----------------------------------------------------------------------------
(* Live events *)

Shown(m) == \E i \in DOMAIN bubbles : bubbles[i] = Bubble(m, "wa")

\* handleIncomingMessage, of messages received and sent alike.
EventComes(m) ==
    /\ m \in events
    /\ events' = events \ {m}
    /\ bubbles' = IF m.room = Room /\ ~ Shown(m) THEN Append(bubbles, Bubble(m, "wa")) ELSE bubbles
    /\ UNCHANGED <<session, active, ready, loading, older, source, load, newest, send, table, known>>
    /\ RecoveryFollows

\* The socket is down, or not subscribed yet.
EventLost(m) ==
    /\ m \in events
    /\ events' = events \ {m}
    /\ UNCHANGED <<page, requests, send, table, known>>

\* handleSessionStatus, or the poll of the session.
StatusChanges ==
    /\ ready' = ~ ready
    /\ UNCHANGED <<session, active, bubbles, loading, older, source, load, newest, send, gateway>>
    /\ RecoveryFollows

-----------------------------------------------------------------------------
(* Sending *)

HandleSend ==
    /\ active # NoChat /\ sending = Nothing /\ ready /\ sends < MaxSends
    /\ sends' = sends + 1
    /\ sending' = [room |-> Room, number |-> sends']
    /\ bubbles' = Append(bubbles, Bubble(sending', "temp"))
    /\ UNCHANGED <<session, active, ready, loading, older, source, load, newest, gateway>>
    /\ RecoveryFollows

Replaced(old, new) == [i \in DOMAIN bubbles |-> IF bubbles[i] = old THEN new ELSE bubbles[i]]

\* Mutant: no look for an echo that came before the answer.
Confirmed_Renamed(m) == Replaced(Bubble(m, "temp"), Bubble(m, "wa"))

\* The placeholder goes if the message is shown already; otherwise it gets its id.
Confirmed(m) ==
    IF Shown(m) THEN Filter(bubbles, LAMBDA b : b # Bubble(m, "temp"))
    ELSE Replaced(Bubble(m, "temp"), Bubble(m, "wa"))

\* The gateway answers when it has saved the id.
SendReturns ==
    /\ sending # Nothing /\ table[sending] = "named"
    /\ bubbles' = Confirmed(sending)
    /\ sending' = Nothing
    /\ UNCHANGED <<session, active, ready, loading, older, source, load, newest, sends, gateway>>
    /\ RecoveryFollows

\* It fails, or its answer is lost: the gateway may still send the message.
SendFails ==
    /\ sending # Nothing
    /\ bubbles' = Replaced(Bubble(sending, "temp"), Bubble(sending, "failed"))
    /\ sending' = Nothing
    /\ UNCHANGED <<session, active, ready, loading, older, source, requests, sends, gateway>>

-----------------------------------------------------------------------------
(* The gateway *)

\* saveOutgoingMessage.
RowSaved(m) ==
    /\ m.number \in 1..sends /\ m = sending /\ table[m] = "none"
    /\ table' = [table EXCEPT ![m] = "unnamed"]
    /\ UNCHANGED <<page, requests, send, known, events>>

\* WhatsApp takes the operator's message, or has somebody's.
Arrives(m) ==
    /\ m \notin known
    /\ IF m.number = 0 THEN m.room \in Incoming ELSE table[m] = "unnamed"
    /\ known' = known \cup {m}
    /\ events' = events \cup {m}
    /\ UNCHANGED <<page, requests, send, table>>

\* markMessageSent, the echo or the persist queue.
RowNamed(m) ==
    /\ m \in known /\ table[m] # "named"
    /\ table' = [table EXCEPT ![m] = "named"]
    /\ UNCHANGED <<page, requests, send, known, events>>

-----------------------------------------------------------------------------

Next ==
    \/ RecoveryMerges
    \/ \E chat \in Chats : OpenChat(chat)
    \/ Reload \/ LoadOlder
    \/ \E s \in Sessions : SelectSession(s)
    \/ \E l \in Slots : StoredReads(l) \/ StoredFails(l) \/ HistoryComes(l) \/ MediaComes(l) \/ LoadEnds(l)
    \/ StatusChanges \/ HandleSend \/ SendReturns \/ SendFails
    \/ \E m \in Messages : EventComes(m) \/ EventLost(m) \/ RowSaved(m) \/ Arrives(m) \/ RowNamed(m)

Spec == Init /\ [][Next]_vars

-----------------------------------------------------------------------------
(* Properties *)

\* A room shows no message of another one, whatever had been asked for before the
\* operator went there.
RoomShowsItsChat == ~ loading => \A i \in DOMAIN bubbles : bubbles[i].msg.room = Room

\* A message is shown once, in whatever order its echo, its answer and a history come.
\* Two bubbles of it are a placeholder still awaiting its answer, one marked as failed,
\* or a row that was read before it had its id.
ShownOnce ==
    \A i, k \in DOMAIN bubbles :
      i # k /\ bubbles[i].msg = bubbles[k].msg =>
        \/ {bubbles[i].id, bubbles[k].id} \cap {"row", "failed"} # {}
        \/ bubbles[i].msg = sending /\ "temp" \in {bubbles[i].id, bubbles[k].id}
=============================================================================
