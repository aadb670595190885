--------------------------- MODULE GroupTranslation ---------------------------
(***************************************************************************)
(* The translation plugin in one group (TranslationCoordinator): commands  *)
(* change the group's settings, messages are translated and teach it who   *)
(* speaks what.  Each message is handled on a copy of the stored state,    *)
(* which is saved when its replies have been sent.                         *)
(***************************************************************************)
EXTENDS Naturals

CONSTANTS
    Participants,
    Languages,
    Handlers \* the messages being handled

VARIABLES
    state,   \* the group's document in the plugin's storage
    handler, \* the progress of each message
    ordered, \* history: what the last confirmed command of each kind has set
    torn     \* history: a save has put back what another message had saved

vars == <<state, handler, ordered, torn>>

\* A participant: its language, the candidate for the next one (pendingLang),
\* whether the language is pinned, and whether it is translated at all.
None == "none"
Participant == [lang : Languages \cup {None}, pending : Languages \cup {None},
                pinned : BOOLEAN, enabled : BOOLEAN]
NewParticipant == [lang |-> None, pending |-> None, pinned |-> FALSE, enabled |-> TRUE]

\* delegatedControllers decide who may give a command; the refusals change nothing.
States == [announced : BOOLEAN, active : BOOLEAN, people : [Participants -> Participant]]
NewState == [announced |-> FALSE, active |-> FALSE, people |-> [p \in Participants |-> NewParticipant]]

Idle == [at |-> "idle", base |-> NewState, copy |-> NewState, who |-> None, heard |-> None]

\* Who is pinned has a language and no candidate; a candidate is heard of somebody
\* who has a language.
WellFormed(person) ==
    /\ person.pinned => person.lang # None /\ person.pending = None
    /\ person.pending # None => person.lang # None

TypeOK ==
    /\ state \in States
    /\ \A p \in Participants : WellFormed(state.people[p])
    /\ handler \in [Handlers -> [at : {"idle", "announcing", "loaded", "command", "detecting", "saving"},
                                 base : States, copy : States,
                                 who : Participants \cup {None}, heard : Languages \cup {None}]]
    /\ torn \in BOOLEAN

-----------------------------------------------------------------------------
\* Every save stores the whole copy.
Save(h) ==
    /\ state' = handler[h].copy
    /\ torn' = (torn \/ state # handler[h].base)

\* handleMessage: the state is loaded.  A group that has not been greeted is.
MessageBegins(h) ==
    /\ handler[h].at = "idle"
    /\ handler' = [handler EXCEPT
           ![h] = [Idle EXCEPT !.at = IF state.announced THEN "loaded" ELSE "announcing",
                               !.base = state, !.copy = state]]
    /\ UNCHANGED <<state, ordered, torn>>

\* The help text is sent, then the state saved.
Announces(h) ==
    /\ handler[h].at = "announcing"
    /\ LET greeted == [handler[h].copy EXCEPT !.announced = TRUE] IN
           /\ handler' = [handler EXCEPT ![h].at = "loaded", ![h].copy = greeted, ![h].base = greeted]
           /\ state' = greeted
           /\ torn' = (torn \/ state # handler[h].base)
    /\ UNCHANGED ordered

Known(copy) == {copy.people[p].lang : p \in {q \in Participants : copy.people[q].enabled}} \ {None}

\* The language translated from: the detected one if anybody here speaks it.
Source(copy, p, heard) ==
    IF heard \in Known(copy) \/ copy.people[p].lang = None THEN heard ELSE copy.people[p].lang

\* The languages translated into: neither the source nor the sender's own, unless
\* nobody were left (the backstop).
Targets(copy, p, heard) ==
    LET source == Source(copy, p, heard)
        others == Known(copy) \ {source, copy.people[p].lang} IN
    IF others # {} THEN others ELSE Known(copy) \ {source}

\* The reply, a refusal or an error message cannot be sent: the handler throws, and
\* nothing more is saved.  The same where nothing is to be saved: help, status, a
\* command refused or not understood; a message too short, of a participant who is
\* ignored, in a group that is not active, or whose language cannot be detected.
MessageDropped(h) ==
    /\ handler[h].at \in {"announcing", "loaded", "detecting", "saving"}
    /\ handler[h].at = "saving" => Targets(handler[h].copy, handler[h].who, handler[h].heard) # {}
    /\ handler' = [handler EXCEPT ![h] = Idle]
    /\ UNCHANGED <<state, ordered, torn>>

\* The commands that change the settings: on and off, setlang, auto, ignore and
\* unignore.  Whom it is about is resolved, its rights and the language checked.
Commands == {"on", "off", "setlang", "auto", "ignore", "unignore"}

\* handleCommand: what a command makes of the state.
Commanded(copy, command, p, lang) ==
    CASE command \in {"on", "off"} -> [copy EXCEPT !.active = command = "on"]
      [] command \in {"ignore", "unignore"} -> [copy EXCEPT !.people[p].enabled = command = "unignore"]
      [] command = "setlang" -> [copy EXCEPT !.people[p] = [@ EXCEPT !.lang = lang, !.pinned = TRUE,
                                                                     !.pending = None]]
      [] command = "auto" -> [copy EXCEPT !.people[p] = [@ EXCEPT !.pinned = FALSE, !.pending = None]]

\* confirm: the state is saved, then the confirmation sent (it may fail).
CommandSaves(h, command, p, lang) ==
    /\ handler[h].at = "loaded"
    /\ state' = Commanded(handler[h].copy, command, p, lang)
    /\ torn' = (torn \/ state # handler[h].base)
    /\ ordered' = Commanded(ordered, command, p, lang)
    /\ handler' = [handler EXCEPT ![h] = Idle]

-----------------------------------------------------------------------------
\* translateMessage: the sender (resolveSenderKey: the author, or who has its
\* pushName) is translated; detect is awaited.
TranslationBegins(h, p) ==
    /\ handler[h].at = "loaded"
    /\ handler[h].copy.active
    /\ handler[h].copy.people[p].enabled
    /\ handler' = [handler EXCEPT ![h].at = "detecting", ![h].who = p]
    /\ UNCHANGED <<state, ordered, torn>>

\* Mutant: a pinned language is learned over.
Learned_Pinned(person, heard) ==
    IF person.lang = heard THEN [person EXCEPT !.pending = None]
    ELSE IF person.pending = heard THEN [person EXCEPT !.lang = heard, !.pending = None]
    ELSE [person EXCEPT !.pending = heard, !.lang = IF @ = None THEN heard ELSE @]

\* applyLearning: a language is adopted when it is heard a second time; the first
\* one at once.
Learned(person, heard) ==
    IF person.pinned THEN person
    ELSE IF person.lang = heard THEN [person EXCEPT !.pending = None]
    ELSE IF person.pending = heard THEN [person EXCEPT !.lang = heard, !.pending = None]
    ELSE [person EXCEPT !.pending = heard, !.lang = IF @ = None THEN heard ELSE @]

\* detect answers; the translations and the reply are awaited.
Detects(h, lang) ==
    /\ handler[h].at = "detecting"
    /\ handler' = [handler EXCEPT ![h].at = "saving", ![h].heard = lang,
                                  ![h].copy.people[handler[h].who] = Learned(@, lang)]
    /\ UNCHANGED <<state, ordered, torn>>

\* The reply is sent, or there was nothing to translate into.
TranslationSaves(h) ==
    /\ handler[h].at = "saving"
    /\ Save(h)
    /\ handler' = [handler EXCEPT ![h] = Idle]
    /\ UNCHANGED ordered

-----------------------------------------------------------------------------
Init ==
    /\ state = NewState
    /\ handler = [h \in Handlers |-> Idle]
    /\ ordered = NewState
    /\ torn = FALSE

Next ==
    \E h \in Handlers :
        \/ MessageBegins(h) \/ Announces(h) \/ MessageDropped(h) \/ TranslationSaves(h)
        \/ \E p \in Participants, lang \in Languages :
               \/ \E command \in Commands : CommandSaves(h, command, p, lang)
               \/ TranslationBegins(h, p)
               \/ Detects(h, lang)

Spec == Init /\ [][Next]_vars

-----------------------------------------------------------------------------
(* Properties *)

\* What a command has set stays set: whether the group is translated, who is
\* ignored, and each pinned language, whatever is learned from the messages.
\* Only two messages handled at once can put a setting back.
SettingsStand ==
    ~torn =>
        /\ state.active = ordered.active
        /\ \A p \in Participants :
               /\ state.people[p].enabled = ordered.people[p].enabled
               /\ state.people[p].pinned = ordered.people[p].pinned
               /\ ordered.people[p].pinned => state.people[p].lang = ordered.people[p].lang

=============================================================================
