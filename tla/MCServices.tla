------------------------------- MODULE MCServices -------------------------------
(* Services on small instances. *)
EXTENDS Services

TranslationFirst == [p \in Plugins |-> IF p = "translation" THEN 1 ELSE 2]

\* The room in which the operator sends, and somebody else writes.
Home == <<"s", "c">>
OnlyHome == {Home}

Busy == {h \in Handlers : handler[h].at # "idle"}

\* Bound: messages of the group overlap, and save over each other, only as long as it is one
\* person of whom one language has been heard.
GroupBound ==
    \/ Busy \subseteq {1} /\ ~ groupTorn
    \/ \A doc \in {group, ordered} \cup UNION {{handler[h].copy, handler[h].base} : h \in Busy} :
         /\ {doc.people["p"].lang, doc.people["p"].pending} \subseteq {"en", "none"}
         /\ \A q \in Participants \ {"p"} : doc.people[q] = Group!NewParticipant

\* Bound: when the operator sends a message he is at home, and nothing has been loaded of
\* another room or written by anybody else.
PageBound ==
    sends > 0 =>
        /\ session = Home[1] /\ active \in {Home[2], Page!NoChat}
        /\ \A l \in Page!Slots : load[l].room \in {Home, Page!NoRoom}
        /\ \A m \in known : m.number > 0

MCInit == Init /\ (service # "page" => session = Home[1])

MCNext == Next /\ GroupBound' /\ PageBound'

MCSpec == MCInit /\ [][MCNext]_vars /\ Scan!Fairness
=============================================================================
