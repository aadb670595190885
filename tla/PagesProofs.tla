------------------------------ MODULE PagesProofs ------------------------------
(***************************************************************************)
(* Services' invariants of the dashboard's pages, for all values of its    *)
(* constants, and the types of all services.                               *)
(***************************************************************************)
EXTENDS ServicesProofs

-----------------------------------------------------------------------------
(* WorkspaceInbox.  Of the loads in flight at most one is wanted, and messageLoadInFlightRef *)
(* is set exactly while one is; a room that says it is loading has one that is not silent.   *)

Wanted == {l \in Inbox!Slots : fetch[l].wanted}

Fetches == [at : {"free", "marking", "fetching"}, chat : Chats \cup {Inbox!NoChat},
            silent : BOOLEAN, wanted : BOOLEAN]

InboxTyped ==
    /\ user \in BOOLEAN
    /\ inbox \in (SUBSET Chats) \cup {Inbox!NoInbox}
    /\ open \in Chats \cup {Inbox!NoChat}
    /\ shown \subseteq Inbox!Bubbles
    /\ busy \in BOOLEAN
    /\ fetch \in [Inbox!Slots -> Fetches]
    /\ ask \in [Inbox!Asks -> [why : {"free", "poll", "entry", "refresh", "sent", "late"},
                               chat : Chats \cup {Inbox!NoChat}]]
    /\ posting \in Chats \cup {Inbox!NoChat}
    /\ \A l \in Inbox!Slots : fetch[l].at # "free" => fetch[l].chat \in Chats

OneWanted == \A k, l \in Wanted : k = l

BusyWhileWanted == busy <=> Wanted # {}

LoadingEnds == fetching /\ Inbox!Active # Inbox!NoChat => \E l \in Wanted : ~ fetch[l].silent

InboxInv == InboxTyped /\ OneWanted /\ BusyWhileWanted /\ LoadingEnds

LEMMA ActiveIsAChat ==
    ASSUME InboxTyped, Inbox!Active # Inbox!NoChat
    PROVE  Inbox!Active \in Chats /\ Inbox!Active = open
BY DEF InboxTyped, Inbox!Active

LEMMA SupersededLoads ==
    ASSUME InboxTyped
    PROVE  Inbox!Superseded \in [Inbox!Slots -> Fetches]
           /\ \A k \in Inbox!Slots : /\ Inbox!Superseded[k].wanted = FALSE
                                     /\ Inbox!Superseded[k].at = fetch[k].at
                                     /\ Inbox!Superseded[k].chat = fetch[k].chat
<1>1. ASSUME NEW k \in Inbox!Slots
      PROVE  /\ Inbox!Superseded[k] = [fetch[k] EXCEPT !.wanted = FALSE]
             /\ fetch[k] \in Fetches
    BY DEF InboxTyped, Inbox!Superseded
<1>2. ASSUME NEW x \in Fetches
      PROVE  /\ [x EXCEPT !.wanted = FALSE] \in Fetches /\ [x EXCEPT !.wanted = FALSE].at = x.at
             /\ [x EXCEPT !.wanted = FALSE].wanted = FALSE
             /\ [x EXCEPT !.wanted = FALSE].chat = x.chat
    BY DEF Fetches
<1>3. \A k \in Inbox!Slots : Inbox!Superseded[k] \in Fetches
    BY <1>1, <1>2
<1>4. Inbox!Superseded \in [Inbox!Slots -> Fetches]
    BY <1>3 DEF Inbox!Superseded
<1>5. ASSUME NEW k \in Inbox!Slots
      PROVE  /\ Inbox!Superseded[k].wanted = FALSE
             /\ Inbox!Superseded[k].at = fetch[k].at
             /\ Inbox!Superseded[k].chat = fetch[k].chat
  <2> DEFINE x == fetch[k]
  <2>1. x \in Fetches /\ Inbox!Superseded[k] = [x EXCEPT !.wanted = FALSE]
      BY <1>1
  <2> HIDE DEF x
  <2>2. [x EXCEPT !.wanted = FALSE].wanted = FALSE /\ [x EXCEPT !.wanted = FALSE].at = x.at
        /\ [x EXCEPT !.wanted = FALSE].chat = x.chat
      BY <1>2, <2>1
  <2> QED
      BY <2>1, <2>2 DEF x
<1> QED
    BY <1>4, <1>5

\* What loadMessages makes of the loads.
LEMMA LoadsOne ==
    ASSUME InboxTyped, NEW c \in Chats, NEW silent \in BOOLEAN, Inbox!Loads(c, silent)
    PROVE  /\ fetch' \in [Inbox!Slots -> Fetches]
           /\ \A k \in Inbox!Slots : fetch'[k].at # "free" => fetch'[k].chat \in Chats
           /\ busy' = TRUE
           /\ OneWanted' /\ BusyWhileWanted'
           /\ \E l \in Wanted' : fetch'[l].silent = silent
<1> PICK l \in Inbox!Slots :
        fetch' = [Inbox!Superseded EXCEPT ![l] =
             [Inbox!NoLoad EXCEPT !.at = "marking", !.chat = c, !.silent = silent, !.wanted = TRUE]]
    BY DEF Inbox!Loads
<1>1. busy' = TRUE
    BY DEF Inbox!Loads
<1> DEFINE r == [Inbox!NoLoad EXCEPT !.at = "marking", !.chat = c, !.silent = silent, !.wanted = TRUE]
<1>2. /\ r \in Fetches /\ r.chat \in Chats /\ r.wanted = TRUE /\ r.silent = silent
    BY DEF Inbox!NoLoad, Fetches
<1>3. Inbox!Superseded \in [Inbox!Slots -> Fetches]
      /\ \A k \in Inbox!Slots : /\ Inbox!Superseded[k].wanted = FALSE
                                /\ Inbox!Superseded[k].at = fetch[k].at
                                /\ Inbox!Superseded[k].chat = fetch[k].chat
    BY SupersededLoads
<1> HIDE DEF r
<1>4. fetch' \in [Inbox!Slots -> Fetches] /\ fetch'[l] = r
      /\ \A k \in Inbox!Slots \ {l} : fetch'[k] = Inbox!Superseded[k]
    BY <1>2, <1>3 DEF r
<1>5. Wanted' = {l}
    BY <1>2, <1>3, <1>4 DEF Wanted
<1>6. \A k \in Inbox!Slots : fetch'[k].at # "free" => fetch'[k].chat \in Chats
    BY <1>2, <1>3, <1>4 DEF InboxTyped
<1>7. OneWanted' /\ BusyWhileWanted'
    BY <1>1, <1>5 DEF OneWanted, BusyWhileWanted
<1> QED
    BY <1>1, <1>2, <1>4, <1>5, <1>6, <1>7

\* A chat is loaded that the reader waits for.
LEMMA LoadsLoudly ==
    ASSUME InboxTyped, NEW c \in Chats, Inbox!Loads(c, FALSE)
    PROVE  OneWanted' /\ BusyWhileWanted' /\ LoadingEnds'
<1>1. OneWanted' /\ BusyWhileWanted' /\ \E l \in Wanted' : fetch'[l].silent = FALSE
    BY LoadsOne
<1> QED
    BY <1>1 DEF LoadingEnds

LEMMA AbandonsAll ==
    ASSUME InboxTyped, Inbox!Abandons
    PROVE  /\ fetch' \in [Inbox!Slots -> Fetches]
           /\ \A k \in Inbox!Slots : fetch'[k].at # "free" => fetch'[k].chat \in Chats
           /\ busy' = FALSE
           /\ OneWanted' /\ BusyWhileWanted'
<1>1. Inbox!Superseded \in [Inbox!Slots -> Fetches]
      /\ \A k \in Inbox!Slots : /\ Inbox!Superseded[k].wanted = FALSE
                                /\ Inbox!Superseded[k].at = fetch[k].at
                                /\ Inbox!Superseded[k].chat = fetch[k].chat
    BY SupersededLoads
<1>2. fetch' = Inbox!Superseded /\ busy' = FALSE
    BY DEF Inbox!Abandons
<1>3. Wanted' = {}
    BY <1>1, <1>2 DEF Wanted
<1> QED
    BY <1>1, <1>2, <1>3 DEF InboxTyped, OneWanted, BusyWhileWanted

\* Nothing that the property speaks of changes, or the room becomes none.
LEMMA InboxStands ==
    ASSUME InboxInv, UNCHANGED <<fetch, busy>>, UNCHANGED fetching,
           Inbox!Active' = Inbox!NoChat \/ Inbox!Active' = Inbox!Active
    PROVE  OneWanted' /\ BusyWhileWanted' /\ LoadingEnds'
<1>1. Wanted' = Wanted
    BY DEF Wanted
<1> QED
    BY <1>1 DEF InboxInv, OneWanted, BusyWhileWanted, LoadingEnds

LEMMA AskedTyped ==
    ASSUME InboxTyped, NEW why \in {"poll", "entry", "refresh", "sent", "late"},
           NEW c \in Chats \cup {Inbox!NoChat}, Inbox!Asked(why, c)
    PROVE  ask' \in [Inbox!Asks -> [why : {"free", "poll", "entry", "refresh", "sent", "late"},
                                    chat : Chats \cup {Inbox!NoChat}]]
BY DEF InboxTyped, Inbox!Asked

LEMMA InboxInit == Inbox!Init => InboxInv
<1> SUFFICES ASSUME Inbox!Init PROVE InboxInv
    OBVIOUS
<1>1. Inbox!NoLoad \in Fetches /\ Inbox!NoLoad.at = "free" /\ Inbox!NoLoad.wanted = FALSE
    BY DEF Inbox!NoLoad, Fetches
<1>2. InboxTyped
  <2>1. fetch \in [Inbox!Slots -> Fetches] /\ \A l \in Inbox!Slots : fetch[l].at = "free"
      BY <1>1 DEF Inbox!Init
  <2>2. ask \in [Inbox!Asks -> [why : {"free", "poll", "entry", "refresh", "sent", "late"},
                                chat : Chats \cup {Inbox!NoChat}]]
      BY DEF Inbox!Init, Inbox!NoAsk
  <2>3. /\ user = FALSE /\ inbox = Inbox!NoInbox /\ open = Inbox!NoChat
        /\ shown = {} /\ busy = FALSE /\ posting = Inbox!NoChat
      BY DEF Inbox!Init
  <2> QED
      BY <2>1, <2>2, <2>3 DEF InboxTyped
<1>3. Wanted = {}
    BY <1>1 DEF Inbox!Init, Wanted
<1> QED
    BY <1>2, <1>3 DEF InboxInv, OneWanted, BusyWhileWanted, LoadingEnds, Inbox!Init

\* Everything but the loads is typed, and these by the lemmas above.
LEMMA LoadsTyped ==
    ASSUME InboxTyped, NEW c \in Chats, NEW silent \in BOOLEAN, Inbox!Loads(c, silent)
    PROVE  /\ busy' \in BOOLEAN /\ fetch' \in [Inbox!Slots -> Fetches]
           /\ \A k \in Inbox!Slots : fetch'[k].at # "free" => fetch'[k].chat \in Chats
BY LoadsOne

LEMMA NoChatIsNone == Inbox!NoChat \notin Chats /\ Page!NoChat \notin Chats
BY ServicesAssumption DEF ServicesAssumption, Inbox!NoChat, Page!NoChat

LEMMA InboxTick ==
    ASSUME InboxInv, Inbox!Tick
    PROVE  InboxInv'
<1>0. InboxTyped /\ Inbox!Active \in Chats
    BY ActiveIsAChat DEF InboxInv, Inbox!Tick
<1>1. Inbox!Loads(Inbox!Active, TRUE) /\ ~ busy
      /\ UNCHANGED <<user, inbox, open, shown, ask, posting>>
    BY DEF Inbox!Tick
<1>2. OneWanted' /\ BusyWhileWanted'
    BY <1>0, <1>1, LoadsOne
<1>3. fetching' = (fetching \/ ~ TRUE)
    BY <1>1 DEF Inbox!Loads
<1>4. ~ (fetching /\ Inbox!Active # Inbox!NoChat)
    BY <1>1 DEF InboxInv, BusyWhileWanted, LoadingEnds
<1>5. LoadingEnds'
    BY <1>0, <1>3, <1>4, NoChatIsNone DEF LoadingEnds
<1>6. InboxTyped'
    BY <1>0, <1>1, LoadsTyped DEF InboxTyped
<1> QED
    BY <1>2, <1>5, <1>6 DEF InboxInv

LEMMA InboxAnswered ==
    ASSUME InboxInv, NEW l \in Inbox!Slots, NEW new \in SUBSET Inbox!Bubbles, Inbox!Answered(l, new)
    PROVE  InboxInv'
<1>0. InboxTyped /\ fetch' = [fetch EXCEPT ![l] = Inbox!NoLoad]
      /\ UNCHANGED <<user, inbox, open, ask, posting>>
    BY DEF Inbox!Answered, InboxInv
<1>1. Inbox!NoLoad \in Fetches /\ Inbox!NoLoad.at = "free" /\ Inbox!NoLoad.wanted = FALSE
    BY DEF Inbox!NoLoad, Fetches
<1>2. /\ fetch' \in [Inbox!Slots -> Fetches] /\ fetch'[l] = Inbox!NoLoad
      /\ \A k \in Inbox!Slots \ {l} : fetch'[k] = fetch[k]
    BY <1>0, <1>1 DEF InboxTyped
<1>3. Wanted' = Wanted \ {l}
    BY <1>1, <1>2 DEF Wanted
<1>4. OneWanted'
    BY <1>3 DEF InboxInv, OneWanted
<1>5. Inbox!Active' = Inbox!Active
    BY <1>0 DEF Inbox!Active
<1>6. CASE fetch[l].wanted
  <2>1. busy' = FALSE /\ fetching' = (fetching /\ fetch[l].silent) /\ shown' = new
      BY <1>6 DEF Inbox!Answered
  <2>2. l \in Wanted
      BY <1>6 DEF Wanted
  <2>3. Wanted = {l}
      BY <2>2 DEF InboxInv, OneWanted
  <2>4. ~ (fetching' /\ Inbox!Active # Inbox!NoChat)
      BY <2>1, <2>3 DEF InboxInv, LoadingEnds
  <2>5. LoadingEnds' /\ BusyWhileWanted'
      BY <1>3, <1>5, <2>1, <2>3, <2>4 DEF LoadingEnds, BusyWhileWanted
  <2>6. InboxTyped'
      BY <1>0, <1>1, <1>2, <2>1 DEF InboxTyped
  <2> QED
      BY <1>4, <2>5, <2>6 DEF InboxInv
<1>7. CASE ~ fetch[l].wanted
  <2>1. UNCHANGED <<shown, busy, fetching>>
      BY <1>7 DEF Inbox!Answered
  <2>2. Wanted' = Wanted /\ l \notin Wanted
      BY <1>3, <1>7 DEF Wanted
  <2>3. BusyWhileWanted' /\ LoadingEnds'
      BY <1>2, <1>5, <2>1, <2>2 DEF InboxInv, BusyWhileWanted, LoadingEnds, Wanted
  <2>4. InboxTyped'
      BY <1>0, <1>1, <1>2, <2>1 DEF InboxTyped
  <2> QED
      BY <1>4, <2>3, <2>4 DEF InboxInv
<1> QED
    BY <1>6, <1>7

\* The list, with the effects on it.
LEMMA InboxLists ==
    ASSUME InboxInv, NEW chats \in SUBSET Chats, NEW end, Inbox!Lists(chats, end),
           end \in BOOLEAN, UNCHANGED <<user, posting>>,
           ask' \in [Inbox!Asks -> [why : {"free", "poll", "entry", "refresh", "sent", "late"},
                                    chat : Chats \cup {Inbox!NoChat}]]
    PROVE  InboxInv'
<1>0. InboxTyped /\ inbox' = chats
    BY DEF InboxInv, Inbox!Lists
<1>1. CASE chats = {}
  <2>1. open' = Inbox!NoChat /\ shown' = {} /\ Inbox!Abandons
      BY <1>1 DEF Inbox!Lists
  <2>2. Inbox!Active' = Inbox!NoChat
      BY <1>0, <1>1 DEF Inbox!Active
  <2>3. OneWanted' /\ BusyWhileWanted' /\ LoadingEnds'
      BY <1>0, <2>1, <2>2, AbandonsAll DEF LoadingEnds
  <2>4. InboxTyped'
      BY <1>0, <2>1, AbandonsAll DEF InboxTyped
  <2> QED
      BY <2>3, <2>4 DEF InboxInv
<1>2. CASE chats # {}
  <2>1. open' \in chats /\ UNCHANGED shown
      BY <1>2 DEF Inbox!Lists
  <2>2. CASE open' # Inbox!Active
    <3>1. Inbox!Loads(open', FALSE)
        BY <1>2, <2>2 DEF Inbox!Lists
    <3>2. OneWanted' /\ BusyWhileWanted' /\ LoadingEnds'
        BY <1>0, <2>1, <3>1, LoadsLoudly
    <3>3. InboxTyped'
        BY <1>0, <2>1, <3>1, LoadsTyped DEF InboxTyped
    <3> QED
        BY <3>2, <3>3 DEF InboxInv
  <2>3. CASE open' = Inbox!Active
    <3>1. UNCHANGED <<fetch, busy, fetching>>
        BY <1>2, <2>3 DEF Inbox!Lists
    <3>2. Inbox!Active' = Inbox!Active
        BY <1>0, <2>1, <2>3 DEF Inbox!Active
    <3>3. OneWanted' /\ BusyWhileWanted' /\ LoadingEnds'
        BY <3>1, <3>2, InboxStands
    <3>4. InboxTyped'
        BY <1>0, <2>1, <3>1 DEF InboxTyped
    <3> QED
        BY <3>3, <3>4 DEF InboxInv
  <2> QED
      BY <2>2, <2>3
<1> QED
    BY <1>1, <1>2

LEMMA InboxListAnswered ==
    ASSUME InboxInv, fetching \in BOOLEAN, NEW a \in Inbox!Asks, Inbox!ListAnswered(a)
    PROVE  InboxInv'
<1>0. InboxTyped /\ UNCHANGED <<user, posting>>
    BY DEF InboxInv, Inbox!ListAnswered
<1>1. ask' \in [Inbox!Asks -> [why : {"free", "poll", "entry", "refresh", "sent", "late"},
                               chat : Chats \cup {Inbox!NoChat}]]
    BY <1>0 DEF InboxTyped, Inbox!ListAnswered, Inbox!NoAsk
<1> PICK chats \in SUBSET Chats :
        IF ask[a].why = "refresh" /\ ask[a].chat # Inbox!NoChat
          THEN Inbox!ListsAndReloads(chats, ask[a].chat) ELSE Inbox!Lists(chats, fetching)
    BY DEF Inbox!ListAnswered
<1>2. CASE Inbox!Lists(chats, fetching)
    BY <1>0, <1>1, <1>2, InboxLists
<1>3. CASE ask[a].chat # Inbox!NoChat /\ Inbox!ListsAndReloads(chats, ask[a].chat)
  <2> DEFINE c == ask[a].chat
  <2>1. c \in Chats
      BY <1>0, <1>3 DEF InboxTyped
  <2>2. CASE open \notin chats
    <3>1. Inbox!Lists(chats, TRUE)
        BY <1>3, <2>2 DEF Inbox!ListsAndReloads
    <3> QED
        BY <1>0, <1>1, <3>1, InboxLists
  <2>3. CASE open \in chats
    <3>1. inbox' = chats /\ Inbox!Loads(c, FALSE) /\ UNCHANGED <<open, shown>>
        BY <1>3, <2>3 DEF Inbox!ListsAndReloads
    <3>2. OneWanted' /\ BusyWhileWanted' /\ LoadingEnds'
        BY <1>0, <2>1, <3>1, LoadsLoudly
    <3>3. InboxTyped'
        BY <1>0, <1>1, <2>1, <3>1, LoadsTyped DEF InboxTyped
    <3> QED
        BY <3>2, <3>3 DEF InboxInv
  <2> QED
      BY <2>2, <2>3
<1> QED
    BY <1>2, <1>3

\* The messages are marked, or nothing but the requests for the list changes.
LEMMA InboxQuiet ==
    ASSUME InboxInv,
           \/ \E l \in Inbox!Slots : Inbox!Marked(l)
           \/ Inbox!Poll \/ Inbox!Refresh \/ Inbox!Login \/ Inbox!SendFails \/ Inbox!Send
           \/ \E a \in Inbox!Asks : Inbox!ListFails(a)
    PROVE  InboxInv'
<1>0. InboxTyped /\ Inbox!NoChat \in Chats \cup {Inbox!NoChat}
    BY DEF InboxInv
<1>1. ASSUME NEW l \in Inbox!Slots, Inbox!Marked(l) PROVE InboxInv'
  <2>1. fetch' = [fetch EXCEPT ![l].at = "fetching"] /\ fetch[l].at = "marking"
        /\ UNCHANGED <<user, inbox, open, shown, fetching, busy, ask, posting>>
      BY <1>1 DEF Inbox!Marked
  <2>2. fetch[l] \in Fetches /\ [fetch[l] EXCEPT !.at = "fetching"] \in Fetches
      BY <1>0 DEF InboxTyped, Fetches
  <2>3. /\ fetch' \in [Inbox!Slots -> Fetches]
        /\ \A k \in Inbox!Slots \ {l} : fetch'[k] = fetch[k]
        /\ fetch'[l] = [fetch[l] EXCEPT !.at = "fetching"]
      BY <1>0, <2>1, <2>2 DEF InboxTyped
  <2>4. /\ fetch'[l].wanted = fetch[l].wanted /\ fetch'[l].silent = fetch[l].silent
        /\ fetch'[l].chat = fetch[l].chat
      BY <2>2, <2>3 DEF Fetches
  <2>5. Wanted' = Wanted /\ \A k \in Inbox!Slots : fetch'[k].silent = fetch[k].silent
      BY <2>3, <2>4 DEF Wanted
  <2>6. Inbox!Active' = Inbox!Active
      BY <2>1 DEF Inbox!Active
  <2>7. OneWanted' /\ BusyWhileWanted' /\ LoadingEnds'
      BY <2>1, <2>5, <2>6 DEF InboxInv, OneWanted, BusyWhileWanted, LoadingEnds, Wanted
  <2>8. InboxTyped'
      BY <1>0, <2>1, <2>3, <2>4 DEF InboxTyped
  <2> QED
      BY <2>7, <2>8 DEF InboxInv
<1>2. ASSUME UNCHANGED <<inbox, open, fetching, busy, fetch>>, InboxTyped'
      PROVE  InboxInv'
  <2>1. Inbox!Active' = Inbox!Active
      BY <1>2 DEF Inbox!Active
  <2> QED
      BY <1>2, <2>1, InboxStands DEF InboxInv
<1>3. CASE Inbox!Poll
  <2>1. Inbox!Asked("poll", Inbox!NoChat) /\ UNCHANGED <<user, inbox, open, Inbox!messages, posting>>
      BY <1>3 DEF Inbox!Poll
  <2>2. InboxTyped'
      BY <1>0, <2>1, AskedTyped DEF InboxTyped, Inbox!messages
  <2> QED
      BY <1>2, <2>1, <2>2 DEF Inbox!messages
<1>4. CASE Inbox!Refresh
  <2>1. Inbox!Asked("refresh", Inbox!Active) /\ UNCHANGED <<user, inbox, open, Inbox!messages, posting>>
      BY <1>4 DEF Inbox!Refresh
  <2>2. Inbox!Active \in Chats \cup {Inbox!NoChat}
      BY <1>0, ActiveIsAChat
  <2>3. InboxTyped'
      BY <1>0, <2>1, <2>2, AskedTyped DEF InboxTyped, Inbox!messages
  <2> QED
      BY <1>2, <2>1, <2>3 DEF Inbox!messages
<1>5. CASE Inbox!Login
  <2>1. Inbox!Asked("entry", Inbox!NoChat) /\ user' = TRUE
        /\ UNCHANGED <<inbox, open, Inbox!messages, posting>>
      BY <1>5 DEF Inbox!Login
  <2>2. InboxTyped'
      BY <1>0, <2>1, AskedTyped DEF InboxTyped, Inbox!messages
  <2> QED
      BY <1>2, <2>1, <2>2 DEF Inbox!messages
<1>6. CASE Inbox!SendFails
  <2>1. posting' = Inbox!NoChat /\ UNCHANGED <<user, inbox, open, Inbox!messages, ask>>
      BY <1>6 DEF Inbox!SendFails
  <2>2. InboxTyped'
      BY <1>0, <2>1 DEF InboxTyped, Inbox!messages
  <2> QED
      BY <1>2, <2>1, <2>2 DEF Inbox!messages
<1>7. CASE Inbox!Send
  <2>1. posting' = Inbox!Active /\ shown' = shown \cup {[chat |-> Inbox!Active, id |-> "own"]}
        /\ Inbox!Active # Inbox!NoChat
        /\ UNCHANGED <<user, inbox, open, fetching, busy, fetch, ask>>
      BY <1>7 DEF Inbox!Send
  <2>2. Inbox!Active \in Chats
      BY <1>0, <2>1, ActiveIsAChat
  <2>3. shown' \subseteq Inbox!Bubbles
      BY <1>0, <2>1, <2>2 DEF InboxTyped, Inbox!Bubbles
  <2>4. InboxTyped'
      BY <1>0, <2>1, <2>2, <2>3 DEF InboxTyped
  <2> QED
      BY <1>2, <2>1, <2>4
<1>8. ASSUME NEW a \in Inbox!Asks, Inbox!ListFails(a) PROVE InboxInv'
  <2>1. ask' = [ask EXCEPT ![a] = Inbox!NoAsk] /\ UNCHANGED <<user, inbox, open, Inbox!messages, posting>>
      BY <1>8 DEF Inbox!ListFails
  <2>2. InboxTyped'
      BY <1>0, <2>1 DEF InboxTyped, Inbox!messages, Inbox!NoAsk
  <2> QED
      BY <1>2, <2>1, <2>2 DEF Inbox!messages
<1> QED
    BY <1>1, <1>3, <1>4, <1>5, <1>6, <1>7, <1>8

LEMMA InboxLogout ==
    ASSUME InboxInv, Inbox!Logout
    PROVE  InboxInv'
<1>0. InboxTyped
    BY DEF InboxInv
<1>1. /\ user' = FALSE /\ inbox' = Inbox!NoInbox /\ open' = Inbox!NoChat /\ shown' = {}
      /\ UNCHANGED <<fetching, posting>>
      /\ ask' = [a \in Inbox!Asks |-> IF ask[a].why = "poll" THEN [ask[a] EXCEPT !.why = "late"] ELSE ask[a]]
      /\ \/ UNCHANGED <<fetch, busy>>
         \/ Inbox!Abandons
    BY DEF Inbox!Logout
<1>2. Inbox!Active' = Inbox!NoChat
    BY <1>1 DEF Inbox!Active
<1>3. ask' \in [Inbox!Asks -> [why : {"free", "poll", "entry", "refresh", "sent", "late"},
                               chat : Chats \cup {Inbox!NoChat}]]
    BY <1>0, <1>1 DEF InboxTyped
<1>4. CASE UNCHANGED <<fetch, busy>>
  <2>1. OneWanted' /\ BusyWhileWanted' /\ LoadingEnds'
      BY <1>1, <1>2, <1>4, InboxStands
  <2>2. InboxTyped'
      BY <1>0, <1>1, <1>3, <1>4 DEF InboxTyped
  <2> QED
      BY <2>1, <2>2 DEF InboxInv
<1>5. CASE Inbox!Abandons
  <2>1. OneWanted' /\ BusyWhileWanted' /\ LoadingEnds'
      BY <1>0, <1>2, <1>5, AbandonsAll DEF LoadingEnds
  <2>2. InboxTyped'
      BY <1>0, <1>1, <1>3, <1>5, AbandonsAll DEF InboxTyped
  <2> QED
      BY <2>1, <2>2 DEF InboxInv
<1> QED
    BY <1>1, <1>4, <1>5

\* The operator opens a chat, or a send has been answered.
LEMMA InboxReloads ==
    ASSUME InboxInv, NEW c \in Chats,
           \/ Inbox!SelectChat(c)
           \/ Inbox!Sent
    PROVE  InboxInv'
<1>0. InboxTyped /\ Inbox!NoChat \in Chats \cup {Inbox!NoChat}
    BY DEF InboxInv
<1>1. CASE Inbox!SelectChat(c)
  <2>1. open' = c /\ Inbox!Loads(c, FALSE) /\ UNCHANGED <<user, inbox, shown, ask, posting>>
      BY <1>1 DEF Inbox!SelectChat
  <2> QED
      BY <1>0, <2>1, LoadsLoudly, LoadsTyped DEF InboxInv, InboxTyped
<1>2. CASE Inbox!Sent
  <2>1. posting \in Chats /\ posting' = Inbox!NoChat /\ Inbox!Loads(posting, FALSE)
        /\ Inbox!Asked("sent", Inbox!NoChat) /\ UNCHANGED <<user, inbox, open, shown>>
      BY <1>0, <1>2 DEF Inbox!Sent, InboxTyped
  <2> QED
      BY <1>0, <2>1, LoadsLoudly, LoadsTyped, AskedTyped DEF InboxInv, InboxTyped
<1> QED
    BY <1>1, <1>2

LEMMA InboxNext ==
    ASSUME InboxInv, fetching \in BOOLEAN, [Inbox!Next]_Inbox!vars
    PROVE  InboxInv'
<1>1. ASSUME NEW l \in Inbox!Slots, Inbox!Fetched(l) \/ Inbox!FetchFails(l) PROVE InboxInv'
  <2>1. fetch[l].at = "fetching"
      BY <1>1 DEF Inbox!Fetched, Inbox!FetchFails, Inbox!Answered
  <2>2. fetch[l].chat \in Chats /\ shown \in SUBSET Inbox!Bubbles
      BY <2>1 DEF InboxInv, InboxTyped
  <2>3. Inbox!Rows(fetch[l].chat) \in SUBSET Inbox!Bubbles
      BY <2>2 DEF Inbox!Rows, Inbox!Bubbles
  <2> QED
      BY <1>1, <2>2, <2>3, InboxAnswered DEF Inbox!Fetched, Inbox!FetchFails
<1>2. CASE Inbox!Sent
  <2>1. posting \in Chats
      BY <1>2 DEF Inbox!Sent, InboxInv, InboxTyped
  <2> QED
      BY <1>2, <2>1, InboxReloads
<1>3. CASE UNCHANGED Inbox!vars
  <2>1. Inbox!Active' = Inbox!Active
      BY <1>3 DEF Inbox!Active, Inbox!vars
  <2>2. InboxTyped'
      BY <1>3 DEF InboxInv, InboxTyped, Inbox!vars, Inbox!messages
  <2> QED
      BY <1>3, <2>1, <2>2, InboxStands DEF InboxInv, Inbox!vars, Inbox!messages
<1> QED
    BY <1>1, <1>2, <1>3, InboxTick, InboxQuiet, InboxLogout, InboxListAnswered, InboxReloads DEF Inbox!Next

FetchingTyped == fetching \in BOOLEAN

LEMMA FetchingStep ==
    ASSUME fetching \in BOOLEAN, [Inbox!Next]_Inbox!vars
    PROVE  fetching' \in BOOLEAN
<1>1. ASSUME NEW c, NEW silent, Inbox!Loads(c, silent) PROVE fetching' \in BOOLEAN
  <2>1. fetching' = (fetching \/ ~ silent)
      BY <1>1 DEF Inbox!Loads
  <2> QED
      BY <2>1, Zenon
<1>2. ASSUME NEW l, NEW new, Inbox!Answered(l, new) PROVE fetching' \in BOOLEAN
  <2>1. fetching' = fetching \/ fetching' = (fetching /\ fetch[l].silent)
      BY <1>2 DEF Inbox!Answered
  <2>2. CASE fetching' = (fetching /\ fetch[l].silent)
      BY <2>2, Zenon
  <2> QED
      BY <2>1, <2>2
<1>3. ASSUME NEW chats, NEW end \in BOOLEAN, Inbox!Lists(chats, end) PROVE fetching' \in BOOLEAN
    BY <1>1, <1>3 DEF Inbox!Lists
<1>4. ASSUME NEW a, Inbox!ListAnswered(a) PROVE fetching' \in BOOLEAN
    BY <1>1, <1>3, <1>4 DEF Inbox!ListAnswered, Inbox!ListsAndReloads
<1>5. ASSUME NEW l, Inbox!Fetched(l) \/ Inbox!FetchFails(l) PROVE fetching' \in BOOLEAN
    BY <1>2, <1>5 DEF Inbox!Fetched, Inbox!FetchFails
<1>6. ASSUME NEW l, Inbox!Marked(l) PROVE fetching' \in BOOLEAN
    BY <1>6 DEF Inbox!Marked
<1>7. ASSUME NEW c, Inbox!SelectChat(c) PROVE fetching' \in BOOLEAN
    BY <1>1, <1>7 DEF Inbox!SelectChat
<1>8. CASE Inbox!Tick \/ Inbox!Sent
    BY <1>1, <1>8 DEF Inbox!Tick, Inbox!Sent
<1>9. CASE Inbox!Poll \/ Inbox!Refresh \/ Inbox!Send \/ Inbox!SendFails \/ Inbox!Login \/ Inbox!Logout
    BY <1>9 DEF Inbox!Poll, Inbox!Refresh, Inbox!Send, Inbox!SendFails, Inbox!Login, Inbox!Logout, Inbox!messages
<1>10. ASSUME NEW a, Inbox!ListFails(a) PROVE fetching' \in BOOLEAN
    BY <1>10 DEF Inbox!ListFails, Inbox!messages
<1>11. CASE UNCHANGED Inbox!vars
    BY <1>11 DEF Inbox!vars, Inbox!messages
<1> QED
    BY <1>4, <1>5, <1>6, <1>7, <1>8, <1>9, <1>10, <1>11 DEF Inbox!Next

LEMMA InboxInvariant == Spec => [](InboxInv /\ FetchingTyped)
<1>1. Init => InboxInv /\ FetchingTyped
  <2>1. Inbox!Init => FetchingTyped
      BY DEF Inbox!Init, FetchingTyped
  <2> QED
      BY <2>1, InboxInit DEF Init
<1>2. InboxInv /\ FetchingTyped /\ [Next]_vars => InboxInv' /\ FetchingTyped'
  <2> SUFFICES ASSUME InboxInv, FetchingTyped, [Next]_vars
               PROVE  InboxInv' /\ FetchingTyped'
      OBVIOUS
  <2>1. [Inbox!Next]_Inbox!vars
      BY EachServiceSteps
  <2> QED
      BY <2>1, InboxNext, FetchingStep DEF FetchingTyped
<1> QED
    BY <1>1, <1>2, PTL DEF Spec

\* ClientApp.tsx: whenever messageLoadInFlightRef keeps the polling silent, or a room says
\* that it is loading, a request is under way whose answer will end that, whatever lists,
\* logins, sends and refreshes supersede each other.
THEOREM InboxNeverWaitsInVain == Spec => []NeverWaitsInVain
<1>1. InboxInv => NeverWaitsInVain
    BY DEF InboxInv, BusyWhileWanted, LoadingEnds, Wanted, NeverWaitsInVain, Inbox!NeverWaitsInVain
<1> QED
    BY <1>1, InboxInvariant, PTL

-----------------------------------------------------------------------------
(* EventRooms.  Where the page is connected, either its subscription to the session it shows *)
(* is under way and nothing behind it takes it back, or nothing under way takes it back and  *)
(* it is being checked or has joined the room.                                               *)

Messages == [type : {"subscribe", "unsubscribe"}, session : PageSessions]

Peers == [open : BOOLEAN, opening : BOOLEAN, known : BOOLEAN,
          rooms : SUBSET PageSessions, checks : [PageSessions -> Nat]]

RoomsTyped ==
    /\ selected \in PageSessions \cup {Rooms!NoSession}
    /\ connected \in BOOLEAN /\ failed \in BOOLEAN
    /\ socket \in {"opening", "up", "retrying", "closed", "failed"}
    /\ attempts \in 0..MaxAttempts
    /\ wire \in Seq(Messages)
    /\ peer \in Peers

\* "connect" and "disconnect" are those of the socket that the page holds.
SocketTold == (connected => socket = "up") /\ (failed => socket = "failed")

Asks(w, s) == \E i \in 1..Len(w) : /\ w[i] = Rooms!Subscribe(s)
                                   /\ \A j \in (i + 1)..Len(w) : w[j] # Rooms!Unsubscribe(s)

Spared(w, s) == \A j \in 1..Len(w) : w[j] # Rooms!Unsubscribe(s)

Joins(p, s) == p.checks[s] > 0 \/ (s \in Allowed => s \in p.rooms)

Hears(w, p, s) == Asks(w, s) \/ (Spared(w, s) /\ Joins(p, s))

PageIsHeard ==
    connected /\ peer.open /\ selected # Rooms!NoSession => Hears(wire, peer, selected)

RoomsInv == RoomsTyped /\ SocketTold /\ PageIsHeard

LEMMA MessagesTyped ==
    ASSUME NEW s \in PageSessions
    PROVE  /\ Rooms!Subscribe(s) \in Messages /\ Rooms!Unsubscribe(s) \in Messages
           /\ Rooms!Subscribe(s).type = "subscribe" /\ Rooms!Subscribe(s).session = s
           /\ Rooms!Unsubscribe(s).type = "unsubscribe" /\ Rooms!Unsubscribe(s).session = s
           /\ \A m \in Messages : /\ m.session = s /\ m.type = "subscribe" => m = Rooms!Subscribe(s)
                                  /\ m.session = s /\ m.type = "unsubscribe" => m = Rooms!Unsubscribe(s)
BY DEF Messages, Rooms!Subscribe, Rooms!Unsubscribe

LEMMA NoSessionIsNone == Rooms!NoSession \notin PageSessions /\ Rooms!NoSession \notin Allowed
BY ServicesAssumption DEF ServicesAssumption, Rooms!NoSession

LEMMA TailKept ==
    ASSUME NEW w \in Seq(Messages), w # <<>>
    PROVE  /\ Head(w) = w[1] /\ Head(w) \in Messages /\ Len(w) \in Nat /\ Len(w) >= 1
           /\ Tail(w) \in Seq(Messages) /\ Len(Tail(w)) = Len(w) - 1
           /\ \A i \in 1..(Len(w) - 1) : Tail(w)[i] = w[i + 1]
OBVIOUS

\* What is heard of once the first message has been taken.
LEMMA TakenFirst ==
    ASSUME NEW w \in Seq(Messages), w # <<>>, NEW s \in PageSessions
    PROVE  /\ Asks(w, s) => Asks(Tail(w), s) \/ (Spared(Tail(w), s) /\ Head(w) = Rooms!Subscribe(s))
           /\ Spared(w, s) => Spared(Tail(w), s) /\ Head(w) # Rooms!Unsubscribe(s)
<1> DEFINE t == Tail(w)
<1>1. /\ Head(w) = w[1] /\ Head(w) \in Messages /\ Len(w) \in Nat /\ Len(w) >= 1
      /\ t \in Seq(Messages) /\ Len(t) = Len(w) - 1
      /\ \A i \in 1..(Len(w) - 1) : t[i] = w[i + 1]
    BY TailKept
<1> HIDE DEF t
<1>2. ASSUME Asks(w, s) PROVE Asks(t, s) \/ (Spared(t, s) /\ Head(w) = Rooms!Subscribe(s))
  <2> PICK i \in 1..Len(w) : /\ w[i] = Rooms!Subscribe(s)
                             /\ \A j \in (i + 1)..Len(w) : w[j] # Rooms!Unsubscribe(s)
      BY <1>2 DEF Asks
  <2>1. CASE i = 1
    <3>1. Spared(t, s)
        BY <1>1, <2>1 DEF Spared
    <3> QED
        BY <1>1, <2>1, <3>1
  <2>2. CASE i # 1
    <3>1. (i - 1) \in 1..Len(t) /\ t[i - 1] = Rooms!Subscribe(s)
        BY <1>1, <2>2
    <3>2. \A j \in ((i - 1) + 1)..Len(t) : t[j] # Rooms!Unsubscribe(s)
        BY <1>1, <2>2
    <3> QED
        BY <3>1, <3>2 DEF Asks
  <2> QED
      BY <2>1, <2>2
<1>3. ASSUME Spared(w, s) PROVE Spared(t, s) /\ Head(w) # Rooms!Unsubscribe(s)
    BY <1>1, <1>3 DEF Spared
<1> QED
    BY <1>2, <1>3 DEF t

\* A message behind all others: the last one counts.
LEMMA LastAsks ==
    ASSUME NEW w \in Seq(Messages), NEW s \in PageSessions
    PROVE  Asks(w \o <<Rooms!Subscribe(s)>>, s)
<1> DEFINE v == w \o <<Rooms!Subscribe(s)>>
<1>1. v \in Seq(Messages) /\ Len(v) = Len(w) + 1 /\ v[Len(w) + 1] = Rooms!Subscribe(s) /\ Len(w) \in Nat
    BY MessagesTyped
<1> HIDE DEF v
<1>2. Asks(v, s)
    BY <1>1 DEF Asks
<1> QED
    BY <1>2 DEF v

LEMMA AttemptsBound == MaxAttempts \in Nat
BY ServicesAssumption DEF ServicesAssumption

LEMMA RoomsInit == Rooms!Init => RoomsInv
<1> SUFFICES ASSUME Rooms!Init PROVE RoomsInv
    OBVIOUS
<1>1. Rooms!NoPeer \in Peers
    BY DEF Rooms!NoPeer, Peers
<1>2. attempts \in 0..MaxAttempts /\ wire \in Seq(Messages)
    BY AttemptsBound DEF Rooms!Init
<1>3. RoomsTyped
    BY <1>1, <1>2 DEF Rooms!Init, RoomsTyped
<1> QED
    BY <1>3 DEF RoomsInv, SocketTold, PageIsHeard, Rooms!Init

\* Of the gateway only the connection is gone, or only what is not heard of changes.
LEMMA PeersTyped ==
    /\ Rooms!NoPeer \in Peers /\ Rooms!NoPeer.open = FALSE
    /\ Rooms!NewPeer \in Peers
BY DEF Rooms!NoPeer, Rooms!NewPeer, Peers

LEMMA RoomsPage ==
    ASSUME RoomsInv,
           \/ \E s \in PageSessions : Rooms!SelectSession(s)
           \/ Rooms!Connects \/ Rooms!Drops \/ Rooms!Closed
           \/ Rooms!AttemptFails \/ Rooms!AttemptOpens \/ Rooms!Reconnect
    PROVE  RoomsInv'
<1>0. RoomsTyped /\ SocketTold /\ PageIsHeard
    BY DEF RoomsInv
<1>1. ASSUME NEW s \in PageSessions, Rooms!SelectSession(s) PROVE RoomsInv'
  <2>1. selected' = s /\ UNCHANGED <<connected, failed, socket, attempts, peer>>
        /\ wire' = IF connected THEN wire \o Rooms!Leaves(selected) \o Rooms!Follows(s) ELSE wire
      BY <1>1 DEF Rooms!SelectSession
  <2> DEFINE w == wire \o Rooms!Leaves(selected)
  <2>2. w \in Seq(Messages)
      BY <1>0, MessagesTyped DEF RoomsTyped, Rooms!Leaves
  <2>3. Rooms!Follows(s) = <<Rooms!Subscribe(s)>>
      BY NoSessionIsNone DEF Rooms!Follows
  <2> HIDE DEF w
  <2>4. connected => wire' = w \o <<Rooms!Subscribe(s)>>
      BY <2>1, <2>3 DEF w
  <2>5. wire' \in Seq(Messages)
    <3>1. w \o <<Rooms!Subscribe(s)>> \in Seq(Messages)
        BY <2>2, MessagesTyped
    <3> QED
        BY <1>0, <2>1, <2>4, <3>1 DEF RoomsTyped
  <2>6. PageIsHeard'
      BY <2>1, <2>2, <2>4, LastAsks DEF PageIsHeard, Hears
  <2> QED
      BY <1>0, <2>1, <2>5, <2>6 DEF RoomsInv, RoomsTyped, SocketTold
<1>2. CASE Rooms!Connects
  <2>1. socket' = "up" /\ attempts' = 0 /\ connected' = TRUE /\ failed' = FALSE
        /\ wire' = Rooms!Follows(selected) /\ UNCHANGED <<selected, peer>>
      BY <1>2 DEF Rooms!Connects, Rooms!Resubscribes
  <2>2. CASE selected = Rooms!NoSession
    <3>1. wire' = <<>>
        BY <2>1, <2>2 DEF Rooms!Follows
    <3>2. attempts' \in 0..MaxAttempts /\ wire' \in Seq(Messages)
        BY <2>1, <3>1, AttemptsBound
    <3>3. RoomsTyped'
        BY <1>0, <2>1, <3>2 DEF RoomsTyped
    <3> QED
        BY <2>1, <2>2, <3>3 DEF RoomsInv, SocketTold, PageIsHeard
  <2>3. CASE selected # Rooms!NoSession
    <3>1. selected \in PageSessions /\ wire' = <<Rooms!Subscribe(selected)>>
        BY <1>0, <2>1, <2>3 DEF RoomsTyped, Rooms!Follows
    <3>2. <<>> \in Seq(Messages) /\ <<>> \o <<Rooms!Subscribe(selected)>> = <<Rooms!Subscribe(selected)>>
        OBVIOUS
    <3>3. Asks(<<Rooms!Subscribe(selected)>>, selected)
        BY <3>1, <3>2, LastAsks
    <3>4. wire' \in Seq(Messages)
        BY <3>1, MessagesTyped
    <3>5. PageIsHeard'
        BY <2>1, <3>1, <3>3 DEF PageIsHeard, Hears
    <3>6. attempts' \in 0..MaxAttempts
        BY <2>1, AttemptsBound
    <3>7. /\ selected' \in PageSessions \cup {Rooms!NoSession} /\ peer' \in Peers
          /\ connected' \in BOOLEAN /\ failed' \in BOOLEAN
        BY <1>0, <2>1 DEF RoomsTyped
    <3>8. socket' \in {"opening", "up", "retrying", "closed", "failed"}
        BY <2>1
    <3>9. RoomsTyped'
        BY <3>4, <3>6, <3>7, <3>8, Zenon DEF RoomsTyped
    <3> QED
        BY <2>1, <3>5, <3>9 DEF RoomsInv, SocketTold
  <2> QED
      BY <2>2, <2>3
<1>3. CASE Rooms!Drops \/ Rooms!Closed
  <2>1. /\ socket' \in {"retrying", "closed"} /\ socket # "failed"
        /\ connected' = FALSE /\ wire' = <<>> /\ peer' \in Peers
        /\ UNCHANGED <<selected, failed, attempts>>
      BY <1>0, <1>3, PeersTyped DEF Rooms!Drops, Rooms!Closed, Rooms!Disconnects, RoomsTyped
  <2>2. attempts' \in 0..MaxAttempts /\ wire' \in Seq(Messages)
      BY <1>0, <2>1 DEF RoomsTyped
  <2>3. RoomsTyped'
      BY <1>0, <2>1, <2>2 DEF RoomsTyped
  <2> QED
      BY <1>0, <2>1, <2>3 DEF RoomsInv, SocketTold, PageIsHeard
<1>4. CASE Rooms!AttemptFails
  <2>1. /\ socket = "retrying" /\ connected = FALSE
        /\ \/ attempts' = attempts + 1 /\ attempts < MaxAttempts /\ UNCHANGED <<socket, failed>>
           \/ socket' = "failed" /\ failed' = TRUE /\ UNCHANGED attempts
        /\ UNCHANGED <<selected, connected, wire, peer>>
      BY <1>0, <1>4 DEF Rooms!AttemptFails, SocketTold, RoomsTyped
  <2>2. attempts' \in 0..MaxAttempts
      BY <1>0, <2>1, AttemptsBound DEF RoomsTyped
  <2>3. RoomsTyped'
      BY <1>0, <2>1, <2>2 DEF RoomsTyped
  <2> QED
      BY <1>0, <2>1, <2>3 DEF RoomsInv, SocketTold, PageIsHeard
<1>5. CASE Rooms!AttemptOpens
  <2>1. /\ socket = "retrying" /\ connected = FALSE /\ socket' = "opening" /\ peer' \in Peers
        /\ UNCHANGED <<selected, connected, failed, attempts, wire>>
      BY <1>0, <1>5, PeersTyped DEF Rooms!AttemptOpens, SocketTold, RoomsTyped, Rooms!page
  <2>2. attempts' \in 0..MaxAttempts /\ wire' \in Seq(Messages)
      BY <1>0, <2>1 DEF RoomsTyped
  <2>3. RoomsTyped'
      BY <1>0, <2>1, <2>2 DEF RoomsTyped
  <2> QED
      BY <1>0, <2>1, <2>3 DEF RoomsInv, SocketTold, PageIsHeard
<1>6. CASE Rooms!Reconnect
  <2>1. /\ connected = FALSE /\ failed' = FALSE /\ socket' = "retrying" /\ attempts' = 0
        /\ UNCHANGED <<selected, connected, wire, peer>>
      BY <1>0, <1>6 DEF Rooms!Reconnect, SocketTold, RoomsTyped
  <2>2. attempts' \in 0..MaxAttempts
      BY <2>1, AttemptsBound
  <2>3. RoomsTyped'
      BY <1>0, <2>1, <2>2 DEF RoomsTyped
  <2> QED
      BY <1>0, <2>1, <2>3 DEF RoomsInv, SocketTold, PageIsHeard
<1> QED
    BY <1>1, <1>2, <1>3, <1>4, <1>5, <1>6

LEMMA RoomsGateway ==
    ASSUME RoomsInv,
           \/ Rooms!KeyAccepted \/ Rooms!KeyRejected \/ Rooms!ReceivesSubscribe \/ Rooms!ReceivesUnsubscribe
           \/ \E s \in PageSessions : Rooms!Subscribes(s) \/ Rooms!KeyRevoked(s)
    PROVE  RoomsInv'
<1>0. RoomsTyped /\ SocketTold /\ PageIsHeard /\ peer \in Peers
    BY DEF RoomsInv, RoomsTyped
<1>1. ASSUME UNCHANGED <<selected, connected, failed, socket, attempts>>, wire' \in Seq(Messages),
             peer' \in Peers,
             connected /\ peer'.open /\ selected \in PageSessions =>
                 peer.open /\ (Hears(wire, peer, selected) => Hears(wire', peer', selected))
      PROVE  RoomsInv'
  <2>1. PageIsHeard'
      BY <1>0, <1>1 DEF PageIsHeard, RoomsTyped
  <2> QED
      BY <1>0, <1>1, <2>1 DEF RoomsInv, RoomsTyped, SocketTold
<1>2. CASE Rooms!KeyAccepted
  <2>1. peer' = [peer EXCEPT !.opening = FALSE, !.known = TRUE]
        /\ UNCHANGED <<selected, connected, failed, socket, attempts, wire>>
      BY <1>2 DEF Rooms!KeyAccepted, Rooms!page
  <2>2. peer' \in Peers /\ peer'.open = peer.open /\ peer'.rooms = peer.rooms /\ peer'.checks = peer.checks
      BY <1>0, <2>1 DEF Peers
  <2>3. Hears(wire, peer, selected) => Hears(wire', peer', selected)
      BY <2>1, <2>2 DEF Hears, Joins
  <2> QED
      BY <1>0, <1>1, <2>1, <2>2, <2>3 DEF RoomsTyped
<1>3. CASE Rooms!KeyRejected \/ \E s \in PageSessions : Rooms!KeyRevoked(s)
  <2>1. peer' = Rooms!NoPeer /\ UNCHANGED <<selected, connected, failed, socket, attempts, wire>>
      BY <1>3 DEF Rooms!KeyRejected, Rooms!KeyRevoked, Rooms!Hangs, Rooms!page
  <2> QED
      BY <1>0, <1>1, <2>1, PeersTyped DEF RoomsTyped
<1>4. CASE Rooms!ReceivesSubscribe
  <2>1. /\ peer.open /\ wire # <<>> /\ Head(wire).type = "subscribe"
        /\ wire' = Tail(wire) /\ UNCHANGED <<selected, connected, failed, socket, attempts>>
      BY <1>4 DEF Rooms!ReceivesSubscribe, Rooms!page
  <2> DEFINE x == Head(wire).session
             c == [peer.checks EXCEPT ![x] = @ + 1]
  <2>2. x \in PageSessions /\ Tail(wire) \in Seq(Messages) /\ Head(wire) \in Messages
      BY <1>0, <2>1, TailKept DEF RoomsTyped, Messages
  <2>3. CASE peer.known
    <3>1. peer' = [peer EXCEPT !.checks = c]
        BY <1>4, <2>3 DEF Rooms!ReceivesSubscribe
    <3>2. /\ c \in [PageSessions -> Nat] /\ c[x] > 0
          /\ \A y \in PageSessions : peer.checks[y] > 0 => c[y] > 0
        BY <1>0, <2>2 DEF Peers
    <3> HIDE DEF c, x
    <3>3. peer' \in Peers /\ peer'.checks = c /\ peer'.rooms = peer.rooms
        BY <1>0, <3>1, <3>2 DEF Peers
    <3>4. ASSUME selected \in PageSessions, Hears(wire, peer, selected)
          PROVE  Hears(Tail(wire), peer', selected)
      <4>1. CASE Asks(wire, selected)
        <5>1. Asks(Tail(wire), selected) \/ (Spared(Tail(wire), selected) /\ Head(wire) = Rooms!Subscribe(selected))
            BY <1>0, <2>1, <3>4, <4>1, TakenFirst DEF RoomsTyped
        <5>2. Head(wire) = Rooms!Subscribe(selected) => x = selected
            BY <3>4, MessagesTyped DEF x
        <5> QED
            BY <3>2, <3>3, <5>1, <5>2 DEF Hears, Joins
      <4>2. CASE Spared(wire, selected) /\ Joins(peer, selected)
        <5>1. Spared(Tail(wire), selected)
            BY <1>0, <2>1, <3>4, <4>2, TakenFirst DEF RoomsTyped
        <5> QED
            BY <3>2, <3>3, <3>4, <4>2, <5>1 DEF Hears, Joins
      <4> QED
          BY <3>4, <4>1, <4>2 DEF Hears
    <3> QED
        BY <1>1, <2>1, <2>2, <3>3, <3>4
  <2>4. CASE ~ peer.known
    <3>1. peer' = Rooms!NoPeer
        BY <1>4, <2>4 DEF Rooms!ReceivesSubscribe, Rooms!Hangs
    <3> QED
        BY <1>1, <2>1, <2>2, <3>1, PeersTyped
  <2> QED
      BY <2>3, <2>4
<1>5. ASSUME NEW s \in PageSessions, Rooms!Subscribes(s) PROVE RoomsInv'
  <2> DEFINE c == [peer.checks EXCEPT ![s] = @ - 1]
             r == IF s \in Allowed THEN peer.rooms \cup {s} ELSE peer.rooms
  <2>1. peer.checks[s] > 0 /\ peer' = [peer EXCEPT !.checks = c, !.rooms = r]
        /\ UNCHANGED <<selected, connected, failed, socket, attempts, wire>>
      BY <1>5 DEF Rooms!Subscribes, Rooms!page
  <2>2. /\ c \in [PageSessions -> Nat] /\ \A y \in PageSessions \ {s} : c[y] = peer.checks[y]
        /\ r \in SUBSET PageSessions /\ peer.rooms \subseteq r /\ (s \in Allowed => s \in r)
      BY <1>0, <2>1 DEF Peers
  <2> HIDE DEF c, r
  <2>3. peer' \in Peers /\ peer'.checks = c /\ peer'.rooms = r /\ peer'.open = peer.open
      BY <1>0, <2>1, <2>2 DEF Peers
  <2>4. selected \in PageSessions /\ Hears(wire, peer, selected) => Hears(wire, peer', selected)
      BY <2>2, <2>3 DEF Hears, Joins
  <2> QED
      BY <1>0, <1>1, <2>1, <2>3, <2>4 DEF RoomsTyped
<1>6. CASE Rooms!ReceivesUnsubscribe
  <2> DEFINE x == Head(wire).session
             r == peer.rooms \ {x}
  <2>1. /\ peer.open /\ wire # <<>> /\ Head(wire).type = "unsubscribe"
        /\ wire' = Tail(wire) /\ UNCHANGED <<selected, connected, failed, socket, attempts>>
        /\ peer' = [peer EXCEPT !.rooms = r]
      BY <1>6 DEF Rooms!ReceivesUnsubscribe, Rooms!page
  <2>2. x \in PageSessions /\ Tail(wire) \in Seq(Messages) /\ Head(wire) \in Messages
      BY <1>0, <2>1, TailKept DEF RoomsTyped, Messages
  <2>3. r \in SUBSET PageSessions
      BY <1>0 DEF Peers
  <2>4. peer' \in Peers /\ peer'.checks = peer.checks /\ peer'.rooms = r
    <3> HIDE DEF r
    <3> QED
        BY <1>0, <2>1, <2>3 DEF Peers
  <2>5. ASSUME selected \in PageSessions, Hears(wire, peer, selected)
        PROVE  Hears(Tail(wire), peer', selected)
    <3>1. CASE Asks(wire, selected)
      <4>1. Head(wire) # Rooms!Subscribe(selected)
          BY <2>1, <2>5, MessagesTyped
      <4>2. Asks(Tail(wire), selected)
          BY <1>0, <2>1, <2>5, <3>1, <4>1, TakenFirst DEF RoomsTyped
      <4> QED
          BY <4>2 DEF Hears
    <3>2. CASE Spared(wire, selected) /\ Joins(peer, selected)
      <4>1. Spared(Tail(wire), selected) /\ Head(wire) # Rooms!Unsubscribe(selected)
          BY <1>0, <2>1, <2>5, <3>2, TakenFirst DEF RoomsTyped
      <4>2. x # selected
          BY <2>1, <2>2, <2>5, <4>1, MessagesTyped
      <4>3. Joins(peer', selected)
          BY <2>4, <3>2, <4>2 DEF Joins
      <4> QED
          BY <4>1, <4>3 DEF Hears
    <3> QED
        BY <2>5, <3>1, <3>2 DEF Hears
  <2> QED
      BY <1>1, <2>1, <2>2, <2>4, <2>5
<1> QED
    BY <1>2, <1>3, <1>4, <1>5, <1>6

LEMMA RoomsNext ==
    ASSUME RoomsInv, [Rooms!Next]_Rooms!vars
    PROVE  RoomsInv'
<1>1. CASE UNCHANGED Rooms!vars
    BY <1>1 DEF Rooms!vars, Rooms!page, RoomsInv, RoomsTyped, SocketTold, PageIsHeard
<1> QED
    BY <1>1, RoomsPage, RoomsGateway DEF Rooms!Next

LEMMA RoomsInvariant == Spec => []RoomsInv
<1>1. Init => RoomsInv
    BY RoomsInit DEF Init
<1>2. RoomsInv /\ [Next]_vars => RoomsInv'
  <2> SUFFICES ASSUME RoomsInv, [Next]_vars PROVE RoomsInv'
      OBVIOUS
  <2>1. [Rooms!Next]_Rooms!vars
      BY EachServiceSteps
  <2> QED
      BY <2>1, RoomsNext
<1> QED
    BY <1>1, <1>2, PTL DEF Spec

\* useWebSocket.ts and events.gateway.ts: through every drop, reconnection, late validation
\* and change of the session, a connected page whose messages have all been handled is in
\* the room of the session it shows.
THEOREM PageAlwaysHears == Spec => []PageHears
<1>1. RoomsInv => PageHears
  <2> SUFFICES ASSUME RoomsInv, connected, peer.open, Rooms!Quiet, selected \in Allowed
               PROVE  selected \in peer.rooms
      BY DEF PageHears, Rooms!PageHears
  <2>1. selected \in PageSessions /\ peer.checks \in [PageSessions -> Nat] /\ wire = <<>>
        /\ Hears(wire, peer, selected)
      BY NoSessionIsNone DEF RoomsInv, RoomsTyped, Peers, PageIsHeard, Rooms!Quiet
  <2>2. ~ Asks(wire, selected)
      BY <2>1 DEF Asks
  <2>3. ~ peer.checks[selected] > 0
      BY <2>1 DEF Rooms!Quiet, Rooms!Awaited
  <2> QED
      BY <2>1, <2>2, <2>3 DEF Hears, Joins
<1> QED
    BY <1>1, RoomsInvariant, PTL

-----------------------------------------------------------------------------
(* ChatRoom.  A load that is still wanted is one of the room that is open, and so is the      *)
(* recovery; only the message that handleSend awaits has a placeholder that awaits its id.    *)

\* What a history shows has an id.
Histories == {b \in Page!Bubbles : b.id \in {"row", "wa"}}

PageLoads == [at : {"free", "asked", "read", "media"}, room : Page!Rooms \cup {Page!NoRoom},
              older : BOOLEAN, stored : BOOLEAN, found : SUBSET Histories]

PageTyped ==
    /\ session \in Sessions
    /\ active \in Chats \cup {Page!NoChat}
    /\ ready \in BOOLEAN
    /\ bubbles \in Seq(Page!Bubbles)
    /\ loading \in BOOLEAN /\ older \in BOOLEAN
    /\ source \in {"live", "stored"}
    /\ newest \in 0..MaxLoads
    /\ load \in [Page!Slots -> PageLoads]
    /\ recovery \in [at : {"off", "armed"}, room : Page!Rooms \cup {Page!NoRoom}]
    /\ sending \in Page!Messages \cup {Page!Nothing} /\ sends \in 0..MaxSends
    /\ table \in [Page!Messages -> {"none", "unnamed", "named"}]
    /\ known \subseteq Page!Messages /\ events \subseteq known

FoundThere == \A l \in Page!Slots : \A b \in load[l].found : b.msg.room = load[l].room

\* The load x of the slot l, where `room` is open and n is newest.
WantedHere(x, l, room, n, spinner) == n = l /\ x.at # "free" => x.room = room /\ (x.older => ~ spinner)

LoadsHere == \A l \in Page!Slots : WantedHere(load[l], l, Page!Room, newest, loading)

RecoversHere == recovery.at = "armed" => recovery.room = Page!Room

\* Of the list bs: no bubble with an id of WhatsApp is there twice, and neither is a placeholder;
\* placeholders are of the message m; all are of the room r.
Distinct(bs) == \A i, k \in 1..Len(bs) : bs[i] = bs[k] /\ bs[i].id \in {"temp", "wa"} => i = k
Awaits(bs, m) == \A i \in 1..Len(bs) : bs[i].id = "temp" => bs[i].msg = m
OfRoom(bs, r) == \A i \in 1..Len(bs) : bs[i].msg.room = r

PageInv ==
    /\ PageTyped /\ FoundThere /\ LoadsHere /\ RecoversHere
    /\ Distinct(bubbles) /\ Awaits(bubbles, sending)
    /\ ~ loading => OfRoom(bubbles, Page!Room)

LEMMA PageBound == IsFiniteSet(Sessions) /\ IsFiniteSet(Chats) /\ MaxSends \in Nat /\ MaxLoads \in Nat
BY ServicesAssumption DEF ServicesAssumption

LEMMA RoomsAreRooms ==
    /\ Page!NoRoom \notin Page!Rooms /\ Page!Nothing \notin Page!Messages
    /\ \A s \in Sessions, c \in Chats : <<s, c>> \in Page!Rooms
    /\ Page!NoChat \notin Chats
<1>1. Page!NoChat \notin Chats
    BY NoChatIsNone
<1>2. Page!NoRoom \notin Page!Rooms
    BY <1>1 DEF Page!NoRoom, Page!Rooms
<1>3. Page!Nothing \notin Page!Messages
    BY <1>2 DEF Page!Nothing, Page!Messages
<1> QED
    BY <1>1, <1>2, <1>3 DEF Page!Rooms

LEMMA MessagesAreFinite == IsFiniteSet(Page!Messages)
<1> DEFINE P == Page!Rooms \X (0..MaxSends)
           f == [m \in Page!Messages |-> <<m.room, m.number>>]
<1>1. IsFiniteSet(Page!Rooms)
    BY PageBound, FS_Product DEF Page!Rooms
<1>2. IsFiniteSet(0..MaxSends)
  <2>1. 0 \in Int /\ MaxSends \in Int
      BY PageBound
  <2> QED
      BY <2>1, FS_Interval
<1>3. IsFiniteSet(P)
    BY <1>1, <1>2, FS_Product
<1>4. f \in [Page!Messages -> P]
    BY DEF Page!Messages
<1>5. \A m, n \in Page!Messages : f[m] = f[n] => m = n
    BY DEF Page!Messages
<1> HIDE DEF f, P
<1>6. f \in Injection(Page!Messages, P)
    BY <1>4, <1>5 DEF Injection, IsInjective
<1> QED
    BY <1>3, <1>6, FS_Injection

LEMMA BubblesAreTyped ==
    /\ \A m \in Page!Messages, id \in {"temp", "failed", "row", "wa"} :
           Page!Bubble(m, id) \in Page!Bubbles /\ Page!Bubble(m, id).msg = m /\ Page!Bubble(m, id).id = id
    /\ \A b \in Page!Bubbles : /\ b.msg \in Page!Messages /\ b.id \in {"temp", "failed", "row", "wa"}
                               /\ b = Page!Bubble(b.msg, b.id)
    /\ \A m, id : Page!Bubble(m, id).msg = m /\ Page!Bubble(m, id).id = id
<1>1. \A m, id : Page!Bubble(m, id).msg = m /\ Page!Bubble(m, id).id = id
    BY DEF Page!Bubble
<1>2. \A m \in Page!Messages, id \in {"temp", "failed", "row", "wa"} : Page!Bubble(m, id) \in Page!Bubbles
    BY DEF Page!Bubbles
<1>3. ASSUME NEW b \in Page!Bubbles
      PROVE  /\ b.msg \in Page!Messages /\ b.id \in {"temp", "failed", "row", "wa"}
             /\ b = Page!Bubble(b.msg, b.id)
  <2> PICK m \in Page!Messages, id \in {"temp", "failed", "row", "wa"} : b = Page!Bubble(m, id)
      BY DEF Page!Bubbles
  <2> QED
      BY <1>1
<1> QED
    BY <1>1, <1>2, <1>3

LEMMA BubblesAreFinite == IsFiniteSet(Page!Bubbles)
<1> DEFINE ids == {"temp", "failed", "row", "wa"}
           P == Page!Messages \X ids
           f == [b \in Page!Bubbles |-> <<b.msg, b.id>>]
<1>1. IsFiniteSet(ids)
  <2>1. ids = ((({} \cup {"temp"}) \cup {"failed"}) \cup {"row"}) \cup {"wa"}
      OBVIOUS
  <2>2. IsFiniteSet({} \cup {"temp"})
      BY FS_EmptySet, FS_AddElement
  <2>3. IsFiniteSet(({} \cup {"temp"}) \cup {"failed"})
      BY <2>2, FS_AddElement
  <2>4. IsFiniteSet((({} \cup {"temp"}) \cup {"failed"}) \cup {"row"})
      BY <2>3, FS_AddElement
  <2>5. IsFiniteSet(((({} \cup {"temp"}) \cup {"failed"}) \cup {"row"}) \cup {"wa"})
      BY <2>4, FS_AddElement
  <2> QED
      BY <2>1, <2>5
<1>2. IsFiniteSet(P)
    BY <1>1, MessagesAreFinite, FS_Product
<1>3. f \in [Page!Bubbles -> P] /\ \A b, c \in Page!Bubbles : f[b] = f[c] => b = c
    BY BubblesAreTyped
<1> HIDE DEF f, P
<1>4. f \in Injection(Page!Bubbles, P)
    BY <1>3 DEF Injection, IsInjective
<1> QED
    BY <1>2, <1>4, FS_Injection

\* The sequence of a finite set's elements, each once.
LEMMA SeqOfSet ==
    ASSUME NEW S, IsFiniteSet(S)
    PROVE  /\ Page!SetToSeq(S) \in Seq(S)
           /\ \A i, k \in 1..Len(Page!SetToSeq(S)) : Page!SetToSeq(S)[i] = Page!SetToSeq(S)[k] => i = k
<1> DEFINE n == Cardinality(S)
           F == {f \in [1..n -> S] : \A i, k \in 1..n : f[i] = f[k] => i = k}
           q == CHOOSE f \in [1..n -> S] : Page!IsInjective(f)
<1>1. n \in Nat /\ ExistsBijection(1..n, S)
    BY FS_CardinalityType
<1>2. Page!SetToSeq(S) = q
  <2>1. Page!Cardinality(S) = Cardinality(S)
      BY DEF Page!Cardinality, Cardinality
  <2> QED
      BY <2>1 DEF Page!SetToSeq
<1>3. PICK g : g \in Bijection(1..n, S)
    BY <1>1 DEF ExistsBijection
<1>4. g \in [1..n -> S] /\ \A i, k \in 1..n : g[i] = g[k] => i = k
    BY <1>3 DEF Bijection, Injection, IsInjective
<1> HIDE DEF n
<1>5. Page!IsInjective(g)
    BY <1>4 DEF Page!IsInjective
<1>6. q \in [1..n -> S] /\ Page!IsInjective(q)
    BY <1>4, <1>5
<1> HIDE DEF q
<1>7. q \in Seq(S) /\ Len(q) = n
    BY <1>1, <1>6
<1>8. \A i, k \in 1..n : q[i] = q[k] => i = k
    BY <1>6 DEF Page!IsInjective
<1> QED
    BY <1>2, <1>7, <1>8

\* What a history adds to a list: each bubble once, and none that is there.
LEMMA MergedHolds ==
    ASSUME NEW bs \in Seq(Page!Bubbles), NEW F \in SUBSET Histories
    PROVE  /\ Page!Merged(bs, F) \in Seq(Page!Bubbles)
           /\ Distinct(bs) => Distinct(Page!Merged(bs, F))
           /\ \A m : Awaits(bs, m) => Awaits(Page!Merged(bs, F), m)
           /\ \A r : OfRoom(bs, r) /\ (\A b \in F : b.msg.room = r) => OfRoom(Page!Merged(bs, F), r)
<1> DEFINE new == F \ Page!ToSet(bs)
           q == Page!SetToSeq(new)
           n == Len(bs)
           M == bs \o q
<1>1. IsFiniteSet(new)
    BY BubblesAreFinite, FS_Subset DEF Histories
<1>2. q \in Seq(new) /\ \A i, k \in 1..Len(q) : q[i] = q[k] => i = k
    BY <1>1, SeqOfSet
<1>3. Page!Merged(bs, F) = M
    BY DEF Page!Merged
<1> HIDE DEF q
<1>4. /\ \A i \in 1..n : bs[i] \in Page!ToSet(bs) /\ bs[i] \in Page!Bubbles
      /\ \A i \in 1..Len(q) : q[i] \in F /\ q[i] \notin Page!ToSet(bs)
  <2>1. \A i \in 1..n : bs[i] \in Page!ToSet(bs) /\ bs[i] \in Page!Bubbles
      BY DEF Page!ToSet
  <2>2. \A i \in 1..Len(q) : q[i] \in new
      BY <1>2
  <2> QED
      BY <2>1, <2>2
<1>5. q \in Seq(Page!Bubbles)
    BY <1>2 DEF Histories
<1>6. /\ M \in Seq(Page!Bubbles) /\ Len(M) = n + Len(q) /\ n \in Nat /\ Len(q) \in Nat
      /\ \A i \in 1..n : M[i] = bs[i]
      /\ \A i \in 1..Len(M) : i \notin 1..n => i - n \in 1..Len(q) /\ M[i] = q[i - n]
    BY <1>5
<1> HIDE DEF M, n
<1>7. ASSUME Distinct(bs) PROVE Distinct(M)
  <2> SUFFICES ASSUME NEW i \in 1..Len(M), NEW k \in 1..Len(M), M[i] = M[k], M[i].id \in {"temp", "wa"}
               PROVE  i = k
      BY DEF Distinct
  <2>1. i \in Nat /\ k \in Nat
      BY <1>6
  <2>2. CASE i \in 1..n /\ k \in 1..n
      BY <1>6, <1>7, <2>2 DEF Distinct, n
  <2>3. CASE i \notin 1..n /\ k \notin 1..n
    <3>1. /\ i - n \in 1..Len(q) /\ M[i] = q[i - n]
          /\ k - n \in 1..Len(q) /\ M[k] = q[k - n]
        BY <1>6, <2>3
    <3>2. q[i - n] = q[k - n]
        BY <3>1
    <3>3. i - n = k - n
        BY <1>2, <3>1, <3>2
    <3> QED
        BY <1>6, <2>1, <3>3
  <2>4. \A h \in 1..Len(M) : h \in 1..n <=> M[h] \in Page!ToSet(bs)
    <3> TAKE h \in 1..Len(M)
    <3>1. CASE h \in 1..n
      <4>1. M[h] = bs[h] /\ bs[h] \in Page!ToSet(bs)
          BY <1>4, <1>6, <3>1
      <4> QED
          BY <3>1, <4>1
    <3>2. CASE h \notin 1..n
      <4>1. h - n \in 1..Len(q) /\ M[h] = q[h - n]
          BY <1>6, <3>2
      <4> QED
          BY <1>4, <3>2, <4>1
    <3> QED
        BY <3>1, <3>2
  <2>5. i \in 1..n <=> k \in 1..n
      BY <2>4
  <2> QED
      BY <2>2, <2>3, <2>5
<1>8. ASSUME NEW m, Awaits(bs, m) PROVE Awaits(M, m)
  <2>1. \A b \in F : b.id # "temp"
      BY DEF Histories
  <2> QED
      BY <1>4, <1>6, <1>8, <2>1 DEF Awaits, n
<1>9. ASSUME NEW r, OfRoom(bs, r), \A b \in F : b.msg.room = r PROVE OfRoom(M, r)
  <2>1. \A h \in 1..Len(M) : (h \in 1..n /\ M[h] = bs[h]) \/ M[h] \in F
      BY <1>4, <1>6
  <2> QED
      BY <1>9, <2>1 DEF OfRoom, n
<1> QED
    BY <1>3, <1>6, <1>7, <1>8, <1>9

\* A history is of its room.
LEMMA HistoriesAreOfRoom ==
    ASSUME known \subseteq Page!Messages, NEW room
    PROVE  /\ \A found \in Page!LiveHistories(room) :
                  found \in SUBSET Histories /\ \A b \in found : b.msg.room = room
           /\ Page!Stored(room) \in SUBSET Histories /\ \A b \in Page!Stored(room) : b.msg.room = room
<1>1. ASSUME NEW found \in Page!LiveHistories(room), NEW b \in found
      PROVE  b \in Histories /\ b.msg.room = room
  <2> PICK m \in known : m.room = room /\ b = Page!Bubble(m, "wa")
      BY <1>1 DEF Page!LiveHistories
  <2> QED
      BY BubblesAreTyped DEF Histories
<1>2. ASSUME NEW b \in Page!Stored(room)
      PROVE  b \in Histories /\ b.msg.room = room
  <2> PICK m \in Page!Messages : m.room = room /\ b = Page!Bubble(m, IF table[m] = "named" THEN "wa" ELSE "row")
      BY DEF Page!Stored
  <2>1. \E id \in {"row", "wa"} : b = Page!Bubble(m, id)
      OBVIOUS
  <2> QED
      BY <2>1, BubblesAreTyped DEF Histories
<1> QED
    BY <1>1, <1>2

\* A list of which a placeholder has another id now.
LEMMA ReplacedHolds ==
    ASSUME bubbles \in Seq(Page!Bubbles), NEW m \in Page!Messages, NEW id \in {"failed", "wa"},
           Distinct(bubbles), Awaits(bubbles, m), id = "wa" => ~ Page!Shown(m)
    PROVE  LET R == Page!Replaced(Page!Bubble(m, "temp"), Page!Bubble(m, id))
           IN  /\ R \in Seq(Page!Bubbles) /\ Distinct(R) /\ \A s : Awaits(R, s)
               /\ \A r : OfRoom(bubbles, r) => OfRoom(R, r)
<1> DEFINE old == Page!Bubble(m, "temp")
           new == Page!Bubble(m, id)
           R == Page!Replaced(old, new)
<1>1. /\ old \in Page!Bubbles /\ new \in Page!Bubbles /\ old.msg = m /\ new.msg = m
      /\ old.id = "temp" /\ new.id = id
    BY BubblesAreTyped
<1>2. DOMAIN bubbles = 1..Len(bubbles) /\ Len(bubbles) \in Nat /\ \A i \in 1..Len(bubbles) : bubbles[i] \in Page!Bubbles
    OBVIOUS
<1>3. R = [i \in DOMAIN bubbles |-> IF bubbles[i] = old THEN new ELSE bubbles[i]]
    BY DEF Page!Replaced
<1>4. id = "wa" => \A i \in 1..Len(bubbles) : bubbles[i] # new
    BY <1>2 DEF Page!Shown
<1> HIDE DEF old, new, R
<1>5. R \in [1..Len(bubbles) -> Page!Bubbles]
    BY <1>1, <1>2, <1>3
<1>6. /\ R \in Seq(Page!Bubbles) /\ Len(R) = Len(bubbles)
      /\ \A i \in 1..Len(R) : R[i] = IF bubbles[i] = old THEN new ELSE bubbles[i]
    BY <1>2, <1>3, <1>5
\* Every placeholder that awaited its id was this one.
<1>7. \A i \in 1..Len(bubbles) : bubbles[i].id = "temp" => bubbles[i] = old
    BY <1>2, BubblesAreTyped DEF Awaits, old
<1>8. \A i \in 1..Len(R) : R[i].id # "temp"
    BY <1>1, <1>6, <1>7
<1>9. Distinct(R)
  <2> SUFFICES ASSUME NEW i \in 1..Len(R), NEW k \in 1..Len(R), R[i] = R[k], R[i].id = "wa"
               PROVE  i = k
      BY <1>8 DEF Distinct
  <2>1. i \in 1..Len(bubbles) /\ k \in 1..Len(bubbles)
      BY <1>6
  <2>2. CASE bubbles[i] = old
    <3>1. bubbles[k] = old
        BY <1>1, <1>4, <1>6, <2>1, <2>2
    <3> QED
        BY <1>1, <2>1, <2>2, <3>1 DEF Distinct
  <2>3. CASE bubbles[i] # old
    <3>1. bubbles[k] # old
        BY <1>1, <1>4, <1>6, <2>1, <2>3
    <3> QED
        BY <1>6, <2>1, <2>3, <3>1 DEF Distinct
  <2> QED
      BY <2>2, <2>3
<1>10. \A r : OfRoom(bubbles, r) => OfRoom(R, r)
    BY <1>1, <1>6 DEF OfRoom
<1>11. \A s : Awaits(R, s)
    BY <1>8 DEF Awaits
<1> QED
    BY <1>6, <1>9, <1>10, <1>11 DEF R, old, new

LEMMA PageArrays == \A s, K : Page!Entries(s, K) = Entries(s, K)
<1>1. \A S : Page!Ascending(S) = Ascending(S) /\ Page!Cardinality(S) = Cardinality(S)
    BY DEF Page!Ascending, Ascending, Page!Cardinality, Cardinality
<1> QED
    BY <1>1 DEF Page!Entries, Entries

\* The list when the message has its id: the placeholder is gone, or is the message.
LEMMA ConfirmedHolds ==
    ASSUME bubbles \in Seq(Page!Bubbles), NEW m \in Page!Messages, Distinct(bubbles), Awaits(bubbles, m)
    PROVE  /\ Page!Confirmed(m) \in Seq(Page!Bubbles) /\ Distinct(Page!Confirmed(m))
           /\ \A s : Awaits(Page!Confirmed(m), s)
           /\ \A r : OfRoom(bubbles, r) => OfRoom(Page!Confirmed(m), r)
<1>1. CASE ~ Page!Shown(m)
    BY <1>1, ReplacedHolds DEF Page!Confirmed
<1>2. CASE Page!Shown(m)
  <2> DEFINE K == {i \in DOMAIN bubbles : bubbles[i] # Page!Bubble(m, "temp")}
             R == Entries(bubbles, K)
             a == Ascending(K)
  <2>1. Page!Confirmed(m) = R
      BY <1>2, PageArrays DEF Page!Confirmed, Page!Filter
  <2>2. /\ DOMAIN bubbles = 1..Len(bubbles) /\ K \in SUBSET DOMAIN bubbles
        /\ \A i \in K : i \in 1..Len(bubbles) /\ bubbles[i] # Page!Bubble(m, "temp")
      OBVIOUS
  <2> HIDE DEF K
  <2>3. /\ R \in Seq(Page!Bubbles) /\ Len(R) = Cardinality(K)
        /\ \A k \in 1..Cardinality(K) : a[k] \in K /\ R[k] = bubbles[a[k]]
        /\ \A j, k \in 1..Cardinality(K) : j # k => a[j] # a[k]
      BY <2>2, EntriesKept
  <2> HIDE DEF R, a
  <2>4. \A i \in 1..Len(bubbles) : bubbles[i].id = "temp" => bubbles[i] = Page!Bubble(m, "temp")
      BY BubblesAreTyped DEF Awaits
  <2>5. \A k \in 1..Len(R) : R[k].id # "temp" /\ a[k] \in 1..Len(bubbles) /\ R[k] = bubbles[a[k]]
      BY <2>2, <2>3, <2>4
  <2>6. Distinct(R)
    <3> SUFFICES ASSUME NEW i \in 1..Len(R), NEW k \in 1..Len(R), R[i] = R[k], R[i].id \in {"temp", "wa"}
                 PROVE  i = k
        BY DEF Distinct
    <3>1. a[i] \in 1..Len(bubbles) /\ a[k] \in 1..Len(bubbles) /\ R[i] = bubbles[a[i]] /\ R[k] = bubbles[a[k]]
        BY <2>5
    <3>2. a[i] = a[k]
        BY <3>1 DEF Distinct
    <3>3. i \in 1..Cardinality(K) /\ k \in 1..Cardinality(K)
        BY <2>3
    <3> QED
        BY <2>3, <3>2, <3>3
  <2>7. \A r : OfRoom(bubbles, r) => OfRoom(R, r)
      BY <2>5 DEF OfRoom
  <2>8. \A s : Awaits(R, s)
      BY <2>5 DEF Awaits
  <2> QED
      BY <2>1, <2>3, <2>6, <2>7, <2>8
<1> QED
    BY <1>1, <1>2

\* The recovery after a step.
LEMMA RecoveryGoesOn ==
    ASSUME PageTyped, RecoversHere, session' \in Sessions, active' \in Chats \cup {Page!NoChat},
           Page!RecoveryFollows
    PROVE  recovery' \in [at : {"off", "armed"}, room : Page!Rooms \cup {Page!NoRoom}] /\ RecoversHere'
<1>1. CASE Page!Watched' = Page!Watched
  <2>1. recovery' = recovery /\ session' = session /\ active' = active
      BY <1>1 DEF Page!RecoveryFollows, Page!Watched
  <2> QED
      BY <2>1 DEF PageTyped, RecoversHere, Page!Room
<1>2. CASE Page!Watched' # Page!Watched
  <2>1. \/ recovery' = [at |-> "armed", room |-> Page!Room'] /\ active' # Page!NoChat
        \/ recovery' = Page!NoRecovery
      BY <1>2 DEF Page!RecoveryFollows, Page!Begun
  <2>2. active' # Page!NoChat => Page!Room' \in Page!Rooms
      BY RoomsAreRooms DEF Page!Room
  <2> QED
      BY <2>1, <2>2 DEF RecoversHere, Page!NoRecovery
<1> QED
    BY <1>1, <1>2

\* The loads after a step that changes none, stays in the room and has no new spinner.
LEMMA SameLoads ==
    ASSUME PageTyped, FoundThere, LoadsHere, UNCHANGED <<load, newest, session, active>>,
           loading' \in {loading, FALSE}
    PROVE  FoundThere' /\ LoadsHere'
<1>1. FoundThere'
    BY DEF FoundThere
<1>2. Page!Room' = Page!Room /\ loading \in BOOLEAN
    BY DEF Page!Room, PageTyped
<1>3. ASSUME NEW l \in Page!Slots PROVE WantedHere(load[l], l, Page!Room, newest, loading')
  <2>1. WantedHere(load[l], l, Page!Room, newest, loading)
      BY DEF LoadsHere
  <2> QED
      BY <1>2, <2>1 DEF WantedHere
<1> QED
    BY <1>1, <1>2, <1>3 DEF LoadsHere

\* One load goes on.
LEMMA OneLoad ==
    ASSUME PageTyped, FoundThere, LoadsHere, NEW l \in Page!Slots, NEW x \in PageLoads,
           load' = [load EXCEPT ![l] = x], UNCHANGED <<newest, session, active>>,
           loading' \in {loading, FALSE},
           \A b \in x.found : b.msg.room = x.room,
           x.at # "free" => load[l].at # "free" /\ x.room = load[l].room /\ (x.older => load[l].older)
    PROVE  load' \in [Page!Slots -> PageLoads] /\ FoundThere' /\ LoadsHere'
<1>1. /\ load \in [Page!Slots -> PageLoads] /\ loading \in BOOLEAN
      /\ load' \in [Page!Slots -> PageLoads]
      /\ \A k \in Page!Slots : load'[k] = IF k = l THEN x ELSE load[k]
    BY DEF PageTyped
<1>2. FoundThere'
    BY <1>1 DEF FoundThere
<1>3. Page!Room' = Page!Room
    BY DEF Page!Room
<1>4. ASSUME NEW k \in Page!Slots PROVE WantedHere(load'[k], k, Page!Room, newest, loading')
  <2>1. WantedHere(load[k], k, Page!Room, newest, loading)
      BY DEF LoadsHere
  <2> QED
      BY <1>1, <2>1 DEF WantedHere
<1> QED
    BY <1>1, <1>2, <1>3, <1>4 DEF LoadsHere

\* A load begins, of the room that is open after the step.
LEMMA LoadBegins ==
    ASSUME PageTyped, FoundThere, NEW room \in Page!Rooms, NEW isOlder \in BOOLEAN,
           Page!Loads(room, isOlder), room = Page!Room', isOlder => ~ loading
    PROVE  /\ load' \in [Page!Slots -> PageLoads] /\ FoundThere' /\ LoadsHere'
           /\ newest' \in 0..MaxLoads /\ older' \in BOOLEAN /\ loading' \in BOOLEAN
           /\ loading' = (loading \/ ~ isOlder)
<1> PICK l \in Page!Slots :
        /\ load' = [load EXCEPT ![l] = [Page!NoLoad EXCEPT !.at = "asked", !.room = room, !.older = isOlder]]
        /\ newest' = l
        /\ IF isOlder THEN older' = TRUE /\ UNCHANGED loading ELSE loading' = TRUE /\ UNCHANGED older
    BY DEF Page!Loads
<1> DEFINE x == [Page!NoLoad EXCEPT !.at = "asked", !.room = room, !.older = isOlder]
<1>1. x \in PageLoads /\ x.at = "asked" /\ x.room = room /\ x.older = isOlder /\ x.found = {}
    BY DEF Page!NoLoad, PageLoads
<1>2. load' = [load EXCEPT ![l] = x]
    OBVIOUS
<1> HIDE DEF x
<1>3. /\ load' \in [Page!Slots -> PageLoads]
      /\ \A k \in Page!Slots : load'[k] = IF k = l THEN x ELSE load[k]
    BY <1>1, <1>2 DEF PageTyped
<1>4. FoundThere'
    BY <1>1, <1>3 DEF FoundThere
<1>5. loading \in BOOLEAN /\ older \in BOOLEAN
    BY DEF PageTyped
<1>6. /\ loading' \in BOOLEAN /\ older' \in BOOLEAN /\ loading' = (loading \/ ~ isOlder)
      /\ (isOlder => ~ loading')
  <2>1. CASE isOlder
      BY <1>5, <2>1, Zenon
  <2>2. CASE ~ isOlder
      BY <1>5, <2>2, Zenon
  <2> QED
      BY <2>1, <2>2
<1>7. LoadsHere'
    BY <1>1, <1>3, <1>6 DEF LoadsHere, WantedHere
<1>8. newest' \in 0..MaxLoads
    BY PageBound DEF Page!Slots
<1> QED
    BY <1>3, <1>4, <1>6, <1>7, <1>8

\* A step of the page that neither loads nor goes elsewhere: the list it leaves.
LEMMA ListChanges ==
    ASSUME PageInv, UNCHANGED <<session, active, newest, table, known, sends>>,
           ready' \in BOOLEAN, loading' \in {loading, FALSE}, older' \in {older, FALSE},
           source' \in {"live", "stored"}, sending' \in Page!Messages \cup {Page!Nothing},
           events' \subseteq known,
           load' \in [Page!Slots -> PageLoads], FoundThere', LoadsHere',
           Page!RecoveryFollows \/ UNCHANGED recovery,
           bubbles' \in Seq(Page!Bubbles), Distinct(bubbles'), Awaits(bubbles', sending'),
           ~ loading' => OfRoom(bubbles', Page!Room)
    PROVE  PageInv'
<1>1. PageTyped /\ RecoversHere /\ loading \in BOOLEAN /\ older \in BOOLEAN
    BY DEF PageInv, PageTyped
<1>2. recovery' \in [at : {"off", "armed"}, room : Page!Rooms \cup {Page!NoRoom}] /\ RecoversHere'
  <2>1. CASE Page!RecoveryFollows
      BY <1>1, <2>1, RecoveryGoesOn DEF PageTyped
  <2>2. CASE UNCHANGED recovery
      BY <1>1, <2>2 DEF PageTyped, RecoversHere, Page!Room
  <2> QED
      BY <2>1, <2>2
<1>3. loading' \in BOOLEAN /\ older' \in BOOLEAN
    BY <1>1
<1>4. PageTyped'
    BY <1>1, <1>2, <1>3 DEF PageTyped
<1>5. Page!Room' = Page!Room
    BY DEF Page!Room
<1>6. ~ loading' => OfRoom(bubbles', Page!Room')
    BY <1>5
<1> QED
    BY <1>2, <1>4, <1>6 DEF PageInv

\* The steps of the list: the recovery's answer, events, and the operator's sends.
LEMMA ListSteps ==
    ASSUME PageInv,
           \/ Page!RecoveryMerges \/ Page!StatusChanges
           \/ Page!HandleSend \/ Page!SendReturns \/ Page!SendFails
           \/ \E m \in Page!Messages : Page!EventComes(m)
    PROVE  PageInv'
<1>0. /\ PageTyped /\ FoundThere /\ LoadsHere /\ RecoversHere
      /\ bubbles \in Seq(Page!Bubbles) /\ Distinct(bubbles) /\ Awaits(bubbles, sending)
      /\ (~ loading => OfRoom(bubbles, Page!Room))
      /\ known \subseteq Page!Messages /\ events \subseteq known /\ ready \in BOOLEAN
      /\ sending \in Page!Messages \cup {Page!Nothing} /\ source \in {"live", "stored"}
      /\ load \in [Page!Slots -> PageLoads] /\ sends \in 0..MaxSends
      /\ session \in Sessions /\ active \in Chats \cup {Page!NoChat}
    BY DEF PageInv, PageTyped
<1>1. UNCHANGED <<session, active, loading, older, load, newest, table, known>>
    BY DEF Page!RecoveryMerges, Page!StatusChanges, Page!HandleSend, Page!SendReturns, Page!SendFails,
           Page!EventComes, Page!send, Page!gateway, Page!requests
<1>2. FoundThere' /\ LoadsHere' /\ load' \in [Page!Slots -> PageLoads]
    BY <1>0, <1>1, SameLoads
<1>3. CASE Page!RecoveryMerges
  <2> PICK found \in Page!LiveHistories(recovery.room) : bubbles' = Page!Merged(bubbles, found)
      BY <1>3 DEF Page!RecoveryMerges
  <2>1. /\ recovery.at = "armed" /\ source' = "live" /\ UNCHANGED <<ready, sending, sends, events>>
        /\ Page!RecoveryFollows
      BY <1>3 DEF Page!RecoveryMerges, Page!send, Page!gateway
  <2>2. found \in SUBSET Histories /\ \A b \in found : b.msg.room = Page!Room
      BY <1>0, <2>1, HistoriesAreOfRoom DEF RecoversHere
  <2>3. /\ bubbles' \in Seq(Page!Bubbles) /\ Distinct(bubbles') /\ Awaits(bubbles', sending)
        /\ (~ loading => OfRoom(bubbles', Page!Room))
      BY <1>0, <2>2, MergedHolds
  <2> QED
      BY <1>0, <1>1, <1>2, <2>1, <2>3, ListChanges
<1>4. CASE Page!StatusChanges
  <2>1. /\ ready' \in BOOLEAN /\ UNCHANGED <<bubbles, source, sending, sends, events>>
        /\ Page!RecoveryFollows
      BY <1>4 DEF Page!StatusChanges, Page!send, Page!gateway
  <2> QED
      BY <1>0, <1>1, <1>2, <2>1, ListChanges
<1>5. CASE Page!HandleSend
  <2> DEFINE b == Page!Bubble(sending', "temp")
  <2>1. /\ active # Page!NoChat /\ sending = Page!Nothing /\ sends < MaxSends /\ sends' = sends + 1
        /\ sending' = [room |-> Page!Room, number |-> sends'] /\ bubbles' = Append(bubbles, b)
        /\ UNCHANGED <<ready, source, events>> /\ Page!RecoveryFollows
      BY <1>5 DEF Page!HandleSend, Page!gateway
  <2>2. Page!Room \in Page!Rooms /\ sends' \in 0..MaxSends
      BY <1>0, <2>1, RoomsAreRooms, PageBound DEF Page!Room
  <2>3. sending' \in Page!Messages /\ sending'.room = Page!Room
      BY <2>1, <2>2 DEF Page!Messages
  <2>4. b \in Page!Bubbles /\ b.msg = sending' /\ b.id = "temp"
      BY <2>3, BubblesAreTyped
  <2> HIDE DEF b
\* No message is awaited: there is no placeholder yet.
  <2>5. \A i \in 1..Len(bubbles) : bubbles[i] \in Page!Bubbles /\ bubbles[i].id # "temp"
      BY <1>0, <2>1, RoomsAreRooms, BubblesAreTyped DEF Awaits
  <2>6. /\ bubbles' \in Seq(Page!Bubbles) /\ Len(bubbles') = Len(bubbles) + 1 /\ Len(bubbles) \in Nat
        /\ \A i \in 1..Len(bubbles') : bubbles'[i] = IF i \in 1..Len(bubbles) THEN bubbles[i] ELSE b
      BY <1>0, <2>1, <2>4
  <2>7. Distinct(bubbles') /\ Awaits(bubbles', sending')
      BY <1>0, <2>4, <2>5, <2>6 DEF Distinct, Awaits
  <2>8. ~ loading => OfRoom(bubbles', Page!Room)
      BY <1>0, <2>3, <2>4, <2>6 DEF OfRoom
  <2>9. PageTyped'
    <3>1. recovery' \in [at : {"off", "armed"}, room : Page!Rooms \cup {Page!NoRoom}]
        BY <1>0, <1>1, <2>1, RecoveryGoesOn
    <3> QED
        BY <1>0, <1>1, <1>2, <2>1, <2>2, <2>3, <2>6, <3>1 DEF PageTyped
  <2>10. RecoversHere' /\ Page!Room' = Page!Room
      BY <1>0, <1>1, <2>1, RecoveryGoesOn DEF Page!Room
  <2> QED
      BY <1>1, <1>2, <2>7, <2>8, <2>9, <2>10 DEF PageInv
<1>6. CASE Page!SendReturns
  <2>1. /\ sending # Page!Nothing /\ bubbles' = Page!Confirmed(sending) /\ sending' = Page!Nothing
        /\ UNCHANGED <<ready, source, sends, events>> /\ Page!RecoveryFollows
      BY <1>6 DEF Page!SendReturns, Page!gateway
  <2>2. /\ bubbles' \in Seq(Page!Bubbles) /\ Distinct(bubbles') /\ Awaits(bubbles', sending')
        /\ (~ loading => OfRoom(bubbles', Page!Room))
      BY <1>0, <2>1, ConfirmedHolds
  <2> QED
      BY <1>0, <1>1, <1>2, <2>1, <2>2, ListChanges
<1>7. CASE Page!SendFails
  <2>1. /\ sending # Page!Nothing /\ sending' = Page!Nothing
        /\ bubbles' = Page!Replaced(Page!Bubble(sending, "temp"), Page!Bubble(sending, "failed"))
        /\ UNCHANGED <<ready, source, sends, events, recovery>>
      BY <1>7 DEF Page!SendFails, Page!gateway, Page!requests
  <2>2. sending \in Page!Messages
      BY <1>0, <2>1
  <2>3. /\ bubbles' \in Seq(Page!Bubbles) /\ Distinct(bubbles') /\ Awaits(bubbles', sending')
        /\ (~ loading => OfRoom(bubbles', Page!Room))
      BY <1>0, <2>1, <2>2, ReplacedHolds
  <2> QED
      BY <1>0, <1>1, <1>2, <2>1, <2>3, ListChanges
<1>8. ASSUME NEW m \in Page!Messages, Page!EventComes(m) PROVE PageInv'
  <2> DEFINE b == Page!Bubble(m, "wa")
  <2>1. /\ m \in events /\ events' = events \ {m}
        /\ bubbles' = IF m.room = Page!Room /\ ~ Page!Shown(m) THEN Append(bubbles, b) ELSE bubbles
        /\ UNCHANGED <<ready, source, sending, sends>> /\ Page!RecoveryFollows
      BY <1>8 DEF Page!EventComes, Page!send
  <2>2. b \in Page!Bubbles /\ b.msg = m /\ b.id = "wa"
      BY BubblesAreTyped
  <2>3. ~ Page!Shown(m) => \A i \in 1..Len(bubbles) : bubbles[i] # b
      BY <1>0 DEF Page!Shown
  <2> HIDE DEF b
  <2>4. CASE bubbles' = bubbles
      BY <1>0, <1>1, <1>2, <2>1, <2>4, ListChanges
  <2>5. CASE bubbles' # bubbles
    <3>1. m.room = Page!Room /\ bubbles' = Append(bubbles, b) /\ \A i \in 1..Len(bubbles) : bubbles[i] # b
        BY <2>1, <2>3, <2>5
    <3>2. /\ bubbles' \in Seq(Page!Bubbles) /\ Len(bubbles') = Len(bubbles) + 1 /\ Len(bubbles) \in Nat
          /\ \A i \in 1..Len(bubbles') : bubbles'[i] = IF i \in 1..Len(bubbles) THEN bubbles[i] ELSE b
        BY <1>0, <2>2, <3>1
    <3>3. Distinct(bubbles')
        BY <1>0, <3>1, <3>2 DEF Distinct
    <3>4. Awaits(bubbles', sending) /\ (~ loading => OfRoom(bubbles', Page!Room))
        BY <1>0, <2>2, <3>1, <3>2 DEF Awaits, OfRoom
    <3> QED
        BY <1>0, <1>1, <1>2, <2>1, <3>2, <3>3, <3>4, ListChanges
  <2> QED
      BY <2>4, <2>5
<1> QED
    BY <1>3, <1>4, <1>5, <1>6, <1>7, <1>8

\* The steps that go elsewhere, or load.
LEMMA LoadSteps ==
    ASSUME PageInv,
           \/ \E c \in Chats : Page!OpenChat(c)
           \/ Page!Reload \/ Page!LoadOlder
           \/ \E s \in Sessions : Page!SelectSession(s)
    PROVE  PageInv'
<1>0. /\ PageTyped /\ FoundThere /\ LoadsHere /\ RecoversHere
      /\ bubbles \in Seq(Page!Bubbles) /\ Distinct(bubbles) /\ Awaits(bubbles, sending)
      /\ (~ loading => OfRoom(bubbles, Page!Room))
      /\ ready \in BOOLEAN /\ loading \in BOOLEAN
      /\ session \in Sessions /\ active \in Chats \cup {Page!NoChat}
    BY DEF PageInv, PageTyped
<1>1. ASSUME NEW c \in Chats, Page!ShowsChat(c) PROVE PageInv'
  <2>1. /\ active' = c /\ source' = "live" /\ Page!Loads(<<session, c>>, FALSE)
        /\ UNCHANGED <<session, ready, bubbles, sending, sends, table, known, events>>
        /\ Page!RecoveryFollows
      BY <1>1 DEF Page!ShowsChat, Page!send, Page!gateway
  <2>2. <<session, c>> \in Page!Rooms /\ Page!Room' = <<session, c>>
      BY <1>0, <2>1, RoomsAreRooms DEF Page!Room
  <2>3. /\ load' \in [Page!Slots -> PageLoads] /\ FoundThere' /\ LoadsHere'
        /\ newest' \in 0..MaxLoads /\ older' \in BOOLEAN /\ loading' \in BOOLEAN
        /\ loading' = (loading \/ ~ FALSE)
      BY <1>0, <2>1, <2>2, LoadBegins
  <2>4. loading'
      BY <2>3, Zenon
  <2>5. recovery' \in [at : {"off", "armed"}, room : Page!Rooms \cup {Page!NoRoom}] /\ RecoversHere'
      BY <1>0, <2>1, RecoveryGoesOn
  <2>6. PageTyped'
      BY <1>0, <2>1, <2>3, <2>5 DEF PageTyped
  <2> QED
      BY <1>0, <2>1, <2>3, <2>4, <2>5, <2>6 DEF PageInv
<1>2. CASE \E c \in Chats : Page!OpenChat(c)
    BY <1>1, <1>2 DEF Page!OpenChat
<1>3. CASE Page!Reload
    BY <1>0, <1>1, <1>3 DEF Page!Reload
<1>4. CASE Page!LoadOlder
  <2>1. /\ active # Page!NoChat /\ ~ loading /\ Page!Loads(Page!Room, TRUE)
        /\ UNCHANGED <<session, active, ready, bubbles, source, recovery, sending, sends,
                       table, known, events>>
      BY <1>4 DEF Page!LoadOlder, Page!send, Page!gateway
  <2>2. Page!Room \in Page!Rooms /\ Page!Room' = Page!Room
      BY <1>0, <2>1, RoomsAreRooms DEF Page!Room
  <2>3. /\ load' \in [Page!Slots -> PageLoads] /\ FoundThere' /\ LoadsHere'
        /\ newest' \in 0..MaxLoads /\ older' \in BOOLEAN /\ loading' \in BOOLEAN
      BY <1>0, <2>1, <2>2, LoadBegins
  <2>4. PageTyped'
      BY <1>0, <2>1, <2>3 DEF PageTyped
  <2>5. RecoversHere'
      BY <1>0, <2>1, <2>2 DEF RecoversHere
  <2> QED
      BY <1>0, <2>1, <2>2, <2>3, <2>4, <2>5 DEF PageInv
<1>5. ASSUME NEW s \in Sessions, Page!SelectSession(s) PROVE PageInv'
  <2>1. /\ session' = s /\ active' = Page!NoChat /\ ready' \in BOOLEAN
        /\ bubbles' = <<>> /\ loading' = FALSE /\ older' = FALSE /\ newest' = 0
        /\ UNCHANGED <<source, load, sending, sends, table, known, events>>
        /\ Page!RecoveryFollows
      BY <1>5 DEF Page!SelectSession, Page!send, Page!gateway
  <2>2. recovery' \in [at : {"off", "armed"}, room : Page!Rooms \cup {Page!NoRoom}] /\ RecoversHere'
      BY <1>0, <2>1, RecoveryGoesOn
  <2>3. bubbles' \in Seq(Page!Bubbles) /\ Len(bubbles') = 0 /\ newest' \in 0..MaxLoads
      BY <2>1, PageBound
  <2>4. PageTyped'
      BY <1>0, <2>1, <2>2, <2>3 DEF PageTyped
  <2>5. FoundThere' /\ LoadsHere'
    <3>1. FoundThere'
        BY <1>0, <2>1 DEF FoundThere
    <3>2. \A l \in Page!Slots : newest' # l
        BY <2>1, PageBound DEF Page!Slots
    <3> QED
        BY <3>1, <3>2 DEF LoadsHere, WantedHere
  <2>6. Distinct(bubbles') /\ Awaits(bubbles', sending') /\ OfRoom(bubbles', Page!Room')
      BY <2>3 DEF Distinct, Awaits, OfRoom
  <2> QED
      BY <2>2, <2>4, <2>5, <2>6 DEF PageInv
<1> QED
    BY <1>2, <1>3, <1>4, <1>5

\* The answers to a load.
LEMMA AnswerSteps ==
    ASSUME PageInv, NEW l \in Page!Slots,
           \/ Page!StoredReads(l) \/ Page!StoredFails(l)
           \/ Page!HistoryComes(l) \/ Page!MediaComes(l) \/ Page!LoadEnds(l)
    PROVE  PageInv'
<1>0. /\ PageTyped /\ FoundThere /\ LoadsHere /\ RecoversHere
      /\ bubbles \in Seq(Page!Bubbles) /\ Distinct(bubbles) /\ Awaits(bubbles, sending)
      /\ (~ loading => OfRoom(bubbles, Page!Room))
      /\ known \subseteq Page!Messages /\ events \subseteq known /\ ready \in BOOLEAN
      /\ loading \in BOOLEAN /\ older \in BOOLEAN
      /\ sending \in Page!Messages \cup {Page!Nothing} /\ source \in {"live", "stored"}
      /\ load \in [Page!Slots -> PageLoads]
    BY DEF PageInv, PageTyped
<1>1. /\ load[l] \in PageLoads /\ load[l].found \in SUBSET Histories
      /\ load[l].room \in Page!Rooms \cup {Page!NoRoom}
      /\ \A b \in load[l].found : b.msg.room = load[l].room
      /\ Page!NoLoad \in PageLoads /\ Page!NoLoad.at = "free" /\ Page!NoLoad.found = {}
    BY <1>0 DEF PageLoads, FoundThere, Page!NoLoad
<1>2. UNCHANGED <<session, active, ready, newest, table, known, events, sending, sends>>
    BY DEF Page!StoredReads, Page!StoredFails, Page!HistoryComes, Page!MediaComes, Page!LoadEnds,
           Page!page, Page!send, Page!gateway
\* What the list, the spinner and the recovery then are.
<1>3. ASSUME load' \in [Page!Slots -> PageLoads], FoundThere', LoadsHere',
             UNCHANGED <<loading, older, source, bubbles, recovery>>
      PROVE  PageInv'
    BY <1>0, <1>2, <1>3, ListChanges
<1>4. CASE Page!StoredReads(l) \/ Page!StoredFails(l)
  <2>1. /\ load[l].at = "asked" /\ UNCHANGED <<loading, older, source, bubbles, recovery>>
        /\ \/ load' = [load EXCEPT ![l].at = "read", ![l].stored = TRUE,
                                   ![l].found = Page!Stored(load[l].room)]
           \/ load' = [load EXCEPT ![l].at = "read"]
      BY <1>4 DEF Page!StoredReads, Page!StoredFails, Page!page
  <2>2. /\ Page!Stored(load[l].room) \in SUBSET Histories
        /\ \A b \in Page!Stored(load[l].room) : b.msg.room = load[l].room
      BY <1>0, HistoriesAreOfRoom
  <2>3. \E x \in PageLoads :
            /\ load' = [load EXCEPT ![l] = x]
            /\ x.at = "read" /\ x.room = load[l].room /\ x.older = load[l].older
            /\ \A b \in x.found : b.msg.room = x.room
    <3>1. CASE load' = [load EXCEPT ![l].at = "read"]
      <4> DEFINE x == [load[l] EXCEPT !.at = "read"]
      <4>1. /\ x \in PageLoads /\ x.at = "read" /\ x.room = load[l].room
            /\ x.older = load[l].older /\ x.found = load[l].found
          BY <1>1 DEF PageLoads
      <4>2. load' = [load EXCEPT ![l] = x]
          BY <1>0, <3>1
      <4> QED
          BY <1>1, <4>1, <4>2
    <3>2. CASE load' = [load EXCEPT ![l].at = "read", ![l].stored = TRUE,
                                    ![l].found = Page!Stored(load[l].room)]
      <4> DEFINE x == [load[l] EXCEPT !.at = "read", !.stored = TRUE, !.found = Page!Stored(load[l].room)]
      <4>1. /\ x \in PageLoads /\ x.at = "read" /\ x.room = load[l].room
            /\ x.older = load[l].older /\ x.found = Page!Stored(load[l].room)
          BY <1>1, <2>2 DEF PageLoads
      <4>2. load' = [load EXCEPT ![l] = x]
          BY <1>0, <3>2
      <4> QED
          BY <2>2, <4>1, <4>2
    <3> QED
        BY <2>1, <3>1, <3>2
  <2> PICK x \in PageLoads :
          /\ load' = [load EXCEPT ![l] = x]
          /\ x.at = "read" /\ x.room = load[l].room /\ x.older = load[l].older
          /\ \A b \in x.found : b.msg.room = x.room
      BY <2>3
  <2>4. UNCHANGED <<newest, session, active>> /\ loading' \in {loading, FALSE} /\ load[l].at # "free"
      BY <1>2, <2>1
  <2>5. load' \in [Page!Slots -> PageLoads] /\ FoundThere' /\ LoadsHere'
      BY <1>0, <2>4, OneLoad
  <2> QED
      BY <1>3, <2>1, <2>5
<1>5. CASE Page!LoadEnds(l)
  <2>1. /\ load' = [load EXCEPT ![l] = Page!NoLoad]
        /\ UNCHANGED <<loading, older, source, bubbles, recovery>>
      BY <1>5 DEF Page!LoadEnds, Page!page, Page!Returned
  <2>2. load' \in [Page!Slots -> PageLoads] /\ FoundThere' /\ LoadsHere'
      BY <1>0, <1>1, <1>2, <2>1, OneLoad
  <2> QED
      BY <1>3, <2>1, <2>2
\* A load that is wanted is of the room that is open.
<1>6. load[l].at # "free" /\ ~ Page!Stale(l) =>
          load[l].room = Page!Room /\ (load[l].older => ~ loading)
    BY <1>0 DEF LoadsHere, WantedHere, Page!Stale
<1>7. CASE Page!MediaComes(l)
  <2>1. /\ load[l].at = "media" /\ ~ Page!Stale(l)
        /\ load' = [load EXCEPT ![l] = Page!NoLoad]
        /\ UNCHANGED <<loading, older, source>> /\ Page!RecoveryFollows
        /\ \E live \in Page!LiveHistories(load[l].room) : bubbles' = Page!Merged(bubbles, live)
      BY <1>7 DEF Page!MediaComes, Page!Returned
  <2>2. load' \in [Page!Slots -> PageLoads] /\ FoundThere' /\ LoadsHere'
      BY <1>0, <1>1, <1>2, <2>1, OneLoad
  <2> PICK live \in Page!LiveHistories(load[l].room) : bubbles' = Page!Merged(bubbles, live)
      BY <2>1
  <2>3. live \in SUBSET Histories /\ \A b \in live : b.msg.room = Page!Room
      BY <1>0, <1>6, <2>1, HistoriesAreOfRoom
  <2>4. /\ bubbles' \in Seq(Page!Bubbles) /\ Distinct(bubbles') /\ Awaits(bubbles', sending)
        /\ (~ loading => OfRoom(bubbles', Page!Room))
      BY <1>0, <2>3, MergedHolds
  <2> QED
      BY <1>0, <1>2, <2>1, <2>2, <2>4, ListChanges
<1>8. CASE Page!HistoryComes(l)
  <2> DEFINE kept == Page!Kept(l)
  <2>1. load[l].at = "read" /\ ~ Page!Stale(l) /\ loading' = FALSE /\ older' = FALSE /\ Page!RecoveryFollows
      BY <1>8 DEF Page!HistoryComes
  <2>2. load[l].room = Page!Room /\ (load[l].older => OfRoom(bubbles, Page!Room))
      BY <1>0, <1>6, <2>1
  <2>3. /\ kept \in Seq(Page!Bubbles) /\ Distinct(kept) /\ Awaits(kept, sending)
        /\ OfRoom(kept, Page!Room)
    <3>1. CASE load[l].older
        BY <1>0, <2>2, <3>1 DEF Page!Kept
    <3>2. CASE ~ load[l].older
      <4>1. kept = <<>> /\ Len(<<>>) = 0
          BY <3>2 DEF Page!Kept
      <4> HIDE DEF kept
      <4> QED
          BY <4>1 DEF Distinct, Awaits, OfRoom
    <3> QED
        BY <3>1, <3>2
  <2> HIDE DEF kept
  <2>4. ASSUME NEW x \in PageLoads, load' = [load EXCEPT ![l] = x],
               x.at # "free" => x.room = load[l].room /\ ~ x.older, x.found = {},
               source' \in {"live", "stored"},
               bubbles' = kept \/ \E F \in SUBSET Histories :
                   bubbles' = Page!Merged(kept, F) /\ \A b \in F : b.msg.room = Page!Room
        PROVE  PageInv'
    <3>1. load' \in [Page!Slots -> PageLoads] /\ FoundThere' /\ LoadsHere'
        BY <1>0, <1>2, <2>1, <2>4, OneLoad
    <3>2. /\ bubbles' \in Seq(Page!Bubbles) /\ Distinct(bubbles') /\ Awaits(bubbles', sending)
          /\ OfRoom(bubbles', Page!Room)
        BY <2>3, <2>4, MergedHolds
    <3> QED
        BY <1>0, <1>2, <2>1, <2>4, <3>1, <3>2, ListChanges
  <2>5. CASE \E live \in Page!LiveHistories(load[l].room) :
               /\ load' = [load EXCEPT ![l] = [Page!NoLoad EXCEPT !.at = "media", !.room = load[l].room]]
               /\ bubbles' = Page!Merged(kept, load[l].found \cup live)
               /\ source' = "live"
    <3> PICK live \in Page!LiveHistories(load[l].room) :
               /\ load' = [load EXCEPT ![l] = [Page!NoLoad EXCEPT !.at = "media", !.room = load[l].room]]
               /\ bubbles' = Page!Merged(kept, load[l].found \cup live)
               /\ source' = "live"
        BY <2>5
    <3> DEFINE x == [Page!NoLoad EXCEPT !.at = "media", !.room = load[l].room]
               F == load[l].found \cup live
    <3>1. x \in PageLoads /\ x.room = load[l].room /\ ~ x.older /\ x.found = {}
        BY <1>1 DEF PageLoads, Page!NoLoad
    <3>2. live \in SUBSET Histories /\ \A b \in live : b.msg.room = load[l].room
        BY <1>0, HistoriesAreOfRoom
    <3>3. F \in SUBSET Histories /\ \A b \in F : b.msg.room = Page!Room
        BY <1>1, <2>2, <3>2
    <3>4. load' = [load EXCEPT ![l] = x] /\ bubbles' = Page!Merged(kept, F)
        OBVIOUS
    <3> HIDE DEF x, F
    <3> QED
        BY <2>4, <3>1, <3>3, <3>4
  <2>6. CASE /\ load' = [load EXCEPT ![l] = Page!NoLoad]
             /\ bubbles' = Page!Merged(kept, load[l].found)
             /\ source' = "stored"
      BY <1>1, <2>2, <2>4, <2>6
  <2>7. CASE /\ load' = [load EXCEPT ![l] = Page!NoLoad] /\ bubbles' = kept /\ UNCHANGED source
      BY <1>0, <1>1, <2>4, <2>7
  <2> QED
      BY <1>8, <2>5, <2>6, <2>7 DEF Page!HistoryComes, Page!Returned, kept
<1> QED
    BY <1>4, <1>5, <1>7, <1>8

\* The steps of the gateway leave the page as it is.
LEMMA GatewaySteps ==
    ASSUME PageInv, NEW m \in Page!Messages,
           Page!EventLost(m) \/ Page!RowSaved(m) \/ Page!Arrives(m) \/ Page!RowNamed(m)
    PROVE  PageInv'
<1>1. UNCHANGED <<session, active, ready, bubbles, loading, older, source, load, newest, recovery,
                  sending, sends>>
    BY DEF Page!EventLost, Page!RowSaved, Page!Arrives, Page!RowNamed, Page!page, Page!requests, Page!send
<1>2. table' \in [Page!Messages -> {"none", "unnamed", "named"}] /\ known' \subseteq Page!Messages
      /\ events' \subseteq known'
  <2>1. /\ table \in [Page!Messages -> {"none", "unnamed", "named"}]
        /\ known \subseteq Page!Messages /\ events \subseteq known
      BY DEF PageInv, PageTyped
  <2> QED
      BY <2>1 DEF Page!EventLost, Page!RowSaved, Page!Arrives, Page!RowNamed
<1>3. PageTyped'
    BY <1>1, <1>2 DEF PageInv, PageTyped
<1>4. FoundThere' /\ RecoversHere' /\ Page!Room' = Page!Room
    BY <1>1 DEF PageInv, FoundThere, RecoversHere, Page!Room
<1>5. LoadsHere'
    BY <1>1, <1>4 DEF PageInv, LoadsHere
<1> QED
    BY <1>1, <1>3, <1>4, <1>5 DEF PageInv

LEMMA PageNext == ASSUME PageInv, [Page!Next]_Page!vars PROVE PageInv'
<1>1. CASE UNCHANGED Page!vars
  <2>1. UNCHANGED <<session, active, ready, bubbles, loading, older, source, load, newest, recovery,
                    sending, sends, table, known, events>>
      BY <1>1 DEF Page!vars, Page!page, Page!requests, Page!send, Page!gateway
  <2>2. PageTyped' /\ FoundThere' /\ RecoversHere' /\ Page!Room' = Page!Room
      BY <2>1 DEF PageInv, PageTyped, FoundThere, RecoversHere, Page!Room
  <2>3. LoadsHere'
      BY <2>1, <2>2 DEF PageInv, LoadsHere
  <2> QED
      BY <2>1, <2>2, <2>3 DEF PageInv
<1>2. CASE Page!Next
  <2>1. ASSUME NEW l \in Page!Slots,
               \/ Page!StoredReads(l) \/ Page!StoredFails(l)
               \/ Page!HistoryComes(l) \/ Page!MediaComes(l) \/ Page!LoadEnds(l)
        PROVE  PageInv'
      BY <2>1, AnswerSteps
  <2>2. ASSUME NEW m \in Page!Messages,
               Page!EventLost(m) \/ Page!RowSaved(m) \/ Page!Arrives(m) \/ Page!RowNamed(m)
        PROVE  PageInv'
      BY <2>2, GatewaySteps
  <2> QED
      BY <1>2, <2>1, <2>2, ListSteps, LoadSteps, Zenon DEF Page!Next
<1> QED
    BY <1>1, <1>2

LEMMA PageInit == ASSUME Page!Init PROVE PageInv
<1>1. /\ session \in Sessions /\ active = Page!NoChat /\ ready = TRUE
      /\ bubbles = <<>> /\ loading = FALSE /\ older = FALSE /\ source = "live"
      /\ load = [l \in Page!Slots |-> Page!NoLoad] /\ newest = 0 /\ recovery = Page!NoRecovery
      /\ sending = Page!Nothing /\ sends = 0
      /\ table = [m \in Page!Messages |-> "none"] /\ known = {} /\ events = {}
    BY DEF Page!Init
<1>2. Page!NoLoad \in PageLoads /\ Page!NoLoad.at = "free" /\ Page!NoLoad.found = {}
    BY DEF PageLoads, Page!NoLoad
<1>3. bubbles \in Seq(Page!Bubbles) /\ Len(bubbles) = 0 /\ 0 \in 0..MaxLoads /\ 0 \in 0..MaxSends
    BY <1>1, PageBound
<1>4. /\ Page!NoRecovery \in [at : {"off", "armed"}, room : Page!Rooms \cup {Page!NoRoom}]
      /\ Page!NoRecovery.at = "off"
    BY DEF Page!NoRecovery
<1>5. PageTyped
    BY <1>1, <1>2, <1>3, <1>4 DEF PageTyped
<1>6. FoundThere /\ LoadsHere /\ RecoversHere
    BY <1>1, <1>2, <1>4 DEF FoundThere, LoadsHere, WantedHere, RecoversHere
<1>7. Distinct(bubbles) /\ Awaits(bubbles, sending) /\ OfRoom(bubbles, Page!Room)
    BY <1>3 DEF Distinct, Awaits, OfRoom
<1> QED
    BY <1>5, <1>6, <1>7 DEF PageInv

LEMMA PageInvariant == Spec => []PageInv
<1>1. Init => PageInv
    BY PageInit DEF Init
<1>2. PageInv /\ [Next]_vars => PageInv'
  <2> SUFFICES ASSUME PageInv, [Next]_vars PROVE PageInv'
      OBVIOUS
  <2>1. [Page!Next]_Page!vars
      BY EachServiceSteps
  <2> QED
      BY <2>1, PageNext
<1> QED
    BY <1>1, <1>2, PTL DEF Spec

\* loadMessages, the recovery of the live history and the events: a room shows no message of
\* another one, whatever was asked for before the operator went there.
THEOREM RoomAlwaysShowsItsChat == Spec => []RoomShowsItsChat
<1>1. PageInv => RoomShowsItsChat
  <2> SUFFICES ASSUME PageInv, ~ loading, NEW i \in DOMAIN bubbles
               PROVE  bubbles[i].msg.room = Page!Room
      BY DEF RoomShowsItsChat, Page!RoomShowsItsChat
  <2>1. bubbles \in Seq(Page!Bubbles) /\ OfRoom(bubbles, Page!Room)
      BY DEF PageInv, PageTyped
  <2> QED
      BY <2>1 DEF OfRoom
<1> QED
    BY <1>1, PageInvariant, PTL

\* mergeMessageHistory, handleIncomingMessage and handleSend: a message is shown once, in
\* whatever order its echo, the answer to its send and a history come.
THEOREM AlwaysShownOnce == Spec => []ShownOnce
<1>1. PageInv => ShownOnce
  <2> SUFFICES ASSUME PageInv, NEW i \in DOMAIN bubbles, NEW k \in DOMAIN bubbles,
                      i # k, bubbles[i].msg = bubbles[k].msg,
                      {bubbles[i].id, bubbles[k].id} \cap {"row", "failed"} = {}
               PROVE  bubbles[i].msg = sending /\ "temp" \in {bubbles[i].id, bubbles[k].id}
      BY DEF ShownOnce, Page!ShownOnce
  <2>1. /\ bubbles \in Seq(Page!Bubbles) /\ Distinct(bubbles) /\ Awaits(bubbles, sending)
        /\ i \in 1..Len(bubbles) /\ k \in 1..Len(bubbles)
        /\ bubbles[i] \in Page!Bubbles /\ bubbles[k] \in Page!Bubbles
      BY DEF PageInv, PageTyped
  <2>2. bubbles[i].id \in {"temp", "wa"} /\ bubbles[k].id \in {"temp", "wa"}
      BY <2>1, BubblesAreTyped
  <2>3. bubbles[i].id # bubbles[k].id
    <3>1. bubbles[i].id = bubbles[k].id => bubbles[i] = bubbles[k]
        BY <2>1, BubblesAreTyped
    <3> QED
        BY <2>1, <2>2, <3>1 DEF Distinct
  <2> QED
      BY <2>1, <2>2, <2>3 DEF Awaits
<1> QED
    BY <1>1, PageInvariant, PTL

-----------------------------------------------------------------------------
(* The types of all services *)

LEMMA PageTypes == PageInv => Page!TypeOK
<1> SUFFICES ASSUME PageInv PROVE Page!TypeOK
    OBVIOUS
<1>1. PageTyped
    BY DEF PageInv
<1>2. Histories \subseteq Page!Bubbles
    BY DEF Histories
<1>3. load \in [Page!Slots -> [at : {"free", "asked", "read", "media"}, room : Page!Rooms \cup {Page!NoRoom},
                               older : BOOLEAN, stored : BOOLEAN, found : SUBSET Page!Bubbles]]
  <2>1. PageLoads \subseteq [at : {"free", "asked", "read", "media"}, room : Page!Rooms \cup {Page!NoRoom},
                             older : BOOLEAN, stored : BOOLEAN, found : SUBSET Page!Bubbles]
      BY <1>2 DEF PageLoads
  <2>2. load \in [Page!Slots -> PageLoads]
      BY <1>1 DEF PageTyped
  <2> QED
      BY <2>1, <2>2
<1> QED
    BY <1>1, <1>3 DEF PageTyped, Page!TypeOK

\* In every behaviour of every service its state is typed: rows, copies and requests have the
\* columns they should, counters stay within their bounds, and a scan's order has each message
\* that is due once.
THEOREM AlwaysTyped == Spec => []TypeOK
<1>1. RoomsInv => Rooms!TypeOK
    BY DEF RoomsInv, RoomsTyped, Peers, Messages, Rooms!TypeOK
<1>2. InboxInv /\ FetchingTyped => Inbox!TypeOK
    BY DEF InboxInv, InboxTyped, FetchingTyped, Fetches, Inbox!TypeOK
<1>3. GatewayTypeOK /\ PageInv /\ RoomsInv /\ InboxInv /\ FetchingTyped => TypeOK
    BY <1>1, <1>2, PageTypes DEF GatewayTypeOK, TypeOK
<1> QED
    BY <1>3, GatewayTyped, PageInvariant, RoomsInvariant, InboxInvariant, PTL

=============================================================================
