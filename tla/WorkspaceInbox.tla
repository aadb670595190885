----------------------------- MODULE WorkspaceInbox -----------------------------
(***************************************************************************)
(* The inbox of an Omega workspace (ClientApp.tsx): the chats that the     *)
(* gateway lists for the user, the one that is open and the messages shown *)
(* of it.  The open chat is polled every 5 s and the list every 8 s, and   *)
(* both are loaded after a login, after a send and by the refresh button,  *)
(* of whichever chat was open when these began.  Each step is a handler up *)
(* to its next await, with the effects that React runs after it.           *)
(***************************************************************************)
EXTENDS Naturals, FiniteSets

CONSTANTS
    Chats,
    MaxLoads, \* bound: loads of messages in flight, the superseded ones included
    MaxAsks   \* bound: loads of the list in flight

VARIABLES
    user,     \* is somebody signed in
    inbox,    \* workspace.chats
    selected, \* selectedChatKey
    bubbles,  \* messages
    loading,  \* loadingMessages
    busy,     \* messageLoadInFlightRef
    load,     \* the calls of loadMessages that have not returned
    ask,      \* those of loadWorkspace
    sending   \* the chat whose send is awaited (isSending), or NoChat

messages == <<bubbles, loading, busy, load>>
vars == <<user, inbox, selected, messages, ask, sending>>

NoChat == "none"

\* The workspace that is null; a workspace may also have no chats.
NoInbox == {NoChat}

\* activeChat
Active == IF selected \in inbox THEN selected ELSE NoChat

\* All rows of a chat are one bubble, and so are the placeholders of sends, pending or failed.
Bubbles == [chat : Chats, id : {"rows", "own"}]
Rows(c) == {[chat |-> c, id |-> "rows"]}

Slots == 1..MaxLoads
Asks == 1..MaxAsks

\* `wanted` is requestId === messageRequestRef.current.
NoLoad == [at |-> "free", chat |-> NoChat, silent |-> FALSE, wanted |-> FALSE]
NoAsk == [why |-> "free", chat |-> NoChat]

TypeOK ==
    /\ user \in BOOLEAN
    /\ inbox \in (SUBSET Chats) \cup {NoInbox}
    /\ selected \in Chats \cup {NoChat}
    /\ bubbles \subseteq Bubbles
    /\ loading \in BOOLEAN /\ busy \in BOOLEAN
    /\ load \in [Slots -> [at : {"free", "marking", "fetching"}, chat : Chats \cup {NoChat},
                           silent : BOOLEAN, wanted : BOOLEAN]]
    /\ ask \in [Asks -> [why : {"free", "poll", "entry", "refresh", "sent", "late"},
                         chat : Chats \cup {NoChat}]]
    /\ sending \in Chats \cup {NoChat}

Init ==
    /\ user = FALSE /\ inbox = NoInbox /\ selected = NoChat
    /\ bubbles = {} /\ loading = FALSE /\ busy = FALSE
    /\ load = [l \in Slots |-> NoLoad] /\ ask = [a \in Asks |-> NoAsk]
    /\ sending = NoChat

-----------------------------------------------------------------------------
(* Messages *)

\* No request is wanted any more.
Superseded == [l \in Slots |-> [load[l] EXCEPT !.wanted = FALSE]]

\* Mutant: messageLoadInFlightRef is left to the answer, which does not count any more.
Abandons_StaysBusy == load' = Superseded /\ UNCHANGED busy

Abandons == load' = Superseded /\ busy' = FALSE

\* loadMessages, up to its first await.
Loads(c, silent) ==
    \E l \in Slots :
      /\ load[l].at = "free"
      /\ \A k \in 1..(l - 1) : load[k].at # "free"
      /\ load' = [Superseded EXCEPT ![l] =
             [NoLoad EXCEPT !.at = "marking", !.chat = c, !.silent = silent, !.wanted = TRUE]]
      /\ busy' = TRUE
      /\ loading' = (loading \/ ~ silent)

\* The interval of 5 s; a silent load gives way to one in flight.
Tick ==
    /\ Active # NoChat /\ ~ busy
    /\ Loads(Active, TRUE)
    /\ UNCHANGED <<user, inbox, selected, bubbles, ask, sending>>

\* The chat has been marked read, or not; its messages are asked for.
Marked(l) ==
    /\ load[l].at = "marking"
    /\ load' = [load EXCEPT ![l].at = "fetching"]
    /\ UNCHANGED <<user, inbox, selected, bubbles, loading, busy, ask, sending>>

\* Of the answers only that to the last request counts.
Answered(l, shown) ==
    /\ load[l].at = "fetching"
    /\ load' = [load EXCEPT ![l] = NoLoad]
    /\ IF load[l].wanted
         THEN /\ bubbles' = shown
              /\ busy' = FALSE
              /\ loading' = (loading /\ load[l].silent)
         ELSE UNCHANGED <<bubbles, busy, loading>>
    /\ UNCHANGED <<user, inbox, selected, ask, sending>>

\* The counter of the chat in the list is reset, which runs the effect on an empty list.  A
\* request of somebody who has signed out succeeds if the browser also has an API key.
Fetched(l) == Answered(l, IF inbox = {} THEN {} ELSE Rows(load[l].chat))

FetchFails(l) == Answered(l, IF load[l].silent THEN bubbles ELSE {})

-----------------------------------------------------------------------------
(* The list, and the effects on it *)

\* An empty list drops everything, but not the sign that messages are being loaded; otherwise
\* a chat that has gone gives way to the first one, and a newly active chat is loaded.
Lists(chats, shown) ==
    /\ inbox' = chats
    /\ IF chats = {}
         THEN /\ selected' = NoChat /\ bubbles' = {}
              /\ Abandons /\ loading' = shown
         ELSE /\ selected' \in IF selected \in chats THEN {selected} ELSE chats
              /\ IF selected' # Active THEN Loads(selected', FALSE)
                                       ELSE UNCHANGED <<load, busy, loading>>
              /\ UNCHANGED bubbles

\* handleInboxRefresh goes on with the chat it began with; then come the effects, whose own
\* request, if they make one, supersedes it.
ListsAndReloads(chats, c) ==
    IF selected \notin chats THEN Lists(chats, TRUE)
    ELSE /\ inbox' = chats
         /\ Loads(c, FALSE)
         /\ UNCHANGED <<selected, bubbles>>

Asked(why, c) == \E a \in Asks :
    /\ ask[a].why = "free"
    /\ \A b \in 1..(a - 1) : ask[b].why # "free"
    /\ ask' = [ask EXCEPT ![a] = [why |-> why, chat |-> c]]

\* pollWorkspace: one at a time for as long as somebody is signed in.
Poll ==
    /\ user /\ \A a \in Asks : ask[a].why # "poll"
    /\ UNCHANGED <<user, inbox, selected, messages, sending>>
    /\ Asked("poll", NoChat)

\* handleInboxRefresh; its button is disabled while either is being loaded.
Refresh ==
    /\ user /\ ~ loading
    /\ \A a \in Asks : ask[a].why \notin {"entry", "refresh"}
    /\ UNCHANGED <<user, inbox, selected, messages, sending>>
    /\ Asked("refresh", Active)

\* Which chats there are depends on the phone and on the sessions the user is assigned.
ListAnswered(a) ==
    /\ ask[a].why # "free"
    /\ ask' = [ask EXCEPT ![a] = NoAsk]
    /\ \E chats \in SUBSET Chats :
         IF ask[a].why = "refresh" /\ ask[a].chat # NoChat
           THEN ListsAndReloads(chats, ask[a].chat) ELSE Lists(chats, loading)
    /\ UNCHANGED <<user, sending>>

\* After three attempts.  A session that has expired ends in Logout, which may come at any
\* time; the send that awaits the list counts as failed.
ListFails(a) ==
    /\ ask[a].why # "free"
    /\ ask' = [ask EXCEPT ![a] = NoAsk]
    /\ UNCHANGED <<user, inbox, selected, messages, sending>>

-----------------------------------------------------------------------------
(* The operator *)

SelectChat(c) ==
    /\ c \in inbox /\ c # selected
    /\ selected' = c
    /\ Loads(c, FALSE)
    /\ UNCHANGED <<user, inbox, bubbles, ask, sending>>

\* handleSend, with the placeholder.
Send ==
    /\ user /\ Active # NoChat /\ sending = NoChat
    /\ sending' = Active
    /\ bubbles' = bubbles \cup {[chat |-> Active, id |-> "own"]}
    /\ UNCHANGED <<user, inbox, selected, loading, busy, load, ask>>

\* ... which reloads the chat it was sent to, and the list.  Another send is allowed a
\* little earlier here than in the code, where it has to await both.
Sent ==
    /\ sending # NoChat
    /\ sending' = NoChat
    /\ UNCHANGED <<user, inbox, selected, bubbles>>
    /\ Loads(sending, FALSE) /\ Asked("sent", NoChat)

SendFails ==
    /\ sending # NoChat
    /\ sending' = NoChat
    /\ UNCHANGED <<user, inbox, selected, messages, ask>>

\* handleLogin, and the session restored when the page is opened.
Login ==
    /\ ~ user /\ user' = TRUE
    /\ Asked("entry", NoChat)
    /\ UNCHANGED <<inbox, selected, messages, sending>>

\* handleLogout, with the effect on the list unless there was none.  The poll in flight is
\* not cancelled.
Logout ==
    /\ user /\ user' = FALSE
    /\ inbox' = NoInbox /\ selected' = NoChat /\ bubbles' = {}
    /\ IF inbox = NoInbox THEN UNCHANGED <<load, busy>> ELSE Abandons
    /\ ask' = [a \in Asks |-> IF ask[a].why = "poll" THEN [ask[a] EXCEPT !.why = "late"] ELSE ask[a]]
    /\ UNCHANGED <<loading, sending>>

-----------------------------------------------------------------------------
Next ==
    \/ Tick \/ Poll \/ Refresh \/ Send \/ Sent \/ SendFails \/ Login \/ Logout
    \/ \E l \in Slots : Marked(l) \/ Fetched(l) \/ FetchFails(l)
    \/ \E a \in Asks : ListAnswered(a) \/ ListFails(a)
    \/ \E c \in Chats : SelectChat(c)

Spec == Init /\ [][Next]_vars

-----------------------------------------------------------------------------
(* Properties *)

\* Whatever lists, logins, sends and refreshes come in between: a silent load gives way to
\* messageLoadInFlightRef only while there is a request whose answer will clear it, and a room
\* says that it is loading, which disables the refresh button, only while one will end that.
NeverWaitsInVain ==
    /\ busy => \E l \in Slots : load[l].wanted
    /\ loading /\ Active # NoChat => \E l \in Slots : load[l].wanted /\ ~ load[l].silent
=============================================================================
