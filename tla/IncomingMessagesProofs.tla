------------------------- MODULE IncomingMessagesProofs -------------------------
(***************************************************************************)
(* What IncomingMessages promises, for any number of messages, jobs and    *)
(* writers.  The queue's half of the argument is QueueInv: only the last   *)
(* of the chained jobs can follow on, and a job that has begun has none    *)
(* before it that has not settled.  The other half says who holds a copy   *)
(* of what: a copy is as good as the row until somebody else saves his.    *)
(***************************************************************************)
EXTENDS IncomingMessages, FiniteSetTheorems, WellFoundedInduction, TLAPS

JobAts == {"none"} \cup Waiting \cup Held \cup Settled

-----------------------------------------------------------------------------
(* Types *)

LEMMA NoRowTyped ==
    /\ NoRow \in Rows /\ NoRow.stored = FALSE /\ NoRow.reactions = {} /\ NoRow.body = ""
    /\ NoRows \in [Messages -> Rows]
    /\ NoContent \in [Messages -> Contents]
BY DEF NoRow, Rows, NoRows, NoContent, Contents

LEMMA NoChatTyped == NoChat \in Chats
BY MessagesAssumption DEF NoChat, Chats

LEMMA JobFields ==
    ASSUME NEW j \in JobStates
    PROVE  /\ j.at \in JobAts /\ j.kind \in Kinds /\ j.of \in SUBSET Messages
           /\ j.content \in [Messages -> Contents] /\ j.prev \in 0..MaxJobs
           /\ j.rows \in [Messages -> Rows] /\ j.chat \in Chats
           /\ j.clashed \in BOOLEAN /\ j.cleaned \in BOOLEAN
BY DEF JobStates, JobAts

LEMMA JobStaysTyped ==
    ASSUME NEW j \in JobStates, NEW at \in JobAts,
           NEW rows \in [Messages -> Rows], NEW c \in Chats, NEW clashed \in BOOLEAN
    PROVE  /\ [j EXCEPT !.at = at, !.rows = rows] \in JobStates
           /\ [j EXCEPT !.at = at, !.rows = rows, !.clashed = clashed] \in JobStates
           /\ [j EXCEPT !.at = at, !.chat = c] \in JobStates
           /\ [j EXCEPT !.cleaned = TRUE] \in JobStates
<1>1. [j EXCEPT !.at = at, !.rows = rows] \in JobStates
    BY DEF JobStates, JobAts
<1>2. [j EXCEPT !.at = at, !.rows = rows, !.clashed = clashed] \in JobStates
    BY DEF JobStates, JobAts
<1>3. [j EXCEPT !.at = at, !.chat = c] \in JobStates
    BY DEF JobStates, JobAts
<1>4. [j EXCEPT !.cleaned = TRUE] \in JobStates
    BY DEF JobStates
<1> QED
    BY <1>1, <1>2, <1>3, <1>4

\* The job persistMessages chains.
NewJob(kind, of, content, prev) ==
    [NoJob EXCEPT !.at = "waiting", !.kind = kind, !.of = of, !.content = content, !.prev = prev]

LEMMA NewJobTyped ==
    ASSUME NEW kind \in Kinds, NEW of \in SUBSET Messages, NEW content \in [Messages -> Contents],
           NEW prev \in 0..MaxJobs
    PROVE  NewJob(kind, of, content, prev) \in JobStates
BY NoRowTyped, NoChatTyped DEF NewJob, JobStates, NoJob, Waiting, Kinds

LEMMA RowsStayTyped ==
    /\ \A r \in Rows, c \in Contents : Merged(r, c) \in Rows /\ Merged(r, c).stored
    /\ \A r \in Rows, who \in Changes : Applied(r, who) \in Rows /\ Applied(r, who).stored = r.stored
    /\ \A r \in Rows : Blanked(r) \in Rows /\ Blanked(r).stored = r.stored
<1>1. ASSUME NEW r \in Rows, NEW c \in Contents
      PROVE  Merged(r, c) \in Rows /\ Merged(r, c).stored
    BY DEF Merged, Rows, Contents, Body, Type
<1>2. ASSUME NEW r \in Rows, NEW who \in Changes
      PROVE  Applied(r, who) \in Rows /\ Applied(r, who).stored = r.stored
    BY BoundsAssumption DEF Applied, Edits, Rows, Changes
<1>3. ASSUME NEW r \in Rows
      PROVE  Blanked(r) \in Rows /\ Blanked(r).stored = r.stored
    BY DEF Blanked, Rows
<1> QED
    BY <1>1, <1>2, <1>3

LEMMA MessagesAreFinite ==
    ASSUME NEW S \in SUBSET Messages
    PROVE  IsFiniteSet(S) /\ Cardinality(S) \in Nat
<1>1. IsFiniteSet(Messages)
    BY FS_Interval, MessagesAssumption DEF Messages
<1> QED
    BY <1>1, FS_Subset, FS_CardinalityType

\* A set of messages has a newest one.
LEMMA LatestIsOne ==
    ASSUME NEW S \in SUBSET Messages, S # {}
    PROVE  Latest(S) \in S
<1> DEFINE T == {k \in Nat : \E m \in S : k = Newest - m}
           R == OpToRel(<, Nat)
<1>1. T \subseteq Nat /\ T # {}
  <2>1. PICK m \in S : TRUE
      OBVIOUS
  <2>2. Newest - m \in Nat
      BY MessagesAssumption DEF Messages
  <2> QED
      BY <2>2
<1>2. \E x \in T : \A y \in T : ~ (<<y, x>> \in R)
    BY <1>1, NatLessThanWellFounded, WFMin
<1>3. PICK x \in T : \A y \in T : ~ (<<y, x>> \in R)
    BY <1>2
<1>4. PICK m \in S : x = Newest - m
    OBVIOUS
<1>5. ASSUME NEW n \in S
      PROVE  n <= m
  <2>1. Newest - n \in T
      BY MessagesAssumption DEF Messages
  <2>2. ~ (Newest - n < x)
      BY <1>3, <2>1 DEF OpToRel
  <2> QED
      BY <1>4, <2>2, MessagesAssumption DEF Messages
<1> QED
    BY <1>5 DEF Latest

LEMMA CountedTyped ==
    ASSUME NEW c \in Chats, NEW counted \in Nat, NEW last \in Messages
    PROVE  /\ Counted(c, counted, last) \in Chats
           /\ Counted(c, counted, last).unread = c.unread + counted
           /\ Counted(c, counted, last).stored
BY MessagesAssumption DEF Counted, Chats, Larger, Messages

-----------------------------------------------------------------------------
(* Every step keeps the types *)

LEMMA JobBecomesTyped ==
    ASSUME TypeOK, NEW n \in Jobs, NEW j \in JobStates, JobBecomes(n, j)
    PROVE  /\ job' \in [Jobs -> JobStates]
           /\ job'[n] = j
           /\ \A k \in Jobs \ {n} : job'[k] = job[k]
BY DEF TypeOK, JobBecomes

\* Every step of a job leaves its kind, its messages and its place in the queue.
JobGoesOn(n, j) ==
    /\ JobBecomes(n, j)
    /\ j.kind = job[n].kind /\ j.of = job[n].of /\ j.prev = job[n].prev
    /\ j.content = job[n].content
    /\ job[n].at # "none" /\ j.at \notin {"none", "waiting"}
    /\ job[n].at \in Settled => j.at = job[n].at /\ j.clashed = job[n].clashed
    /\ job[n].at = "waiting" => Turn(n)

LEMMA JobStep ==
    ASSUME TypeOK, NEW n \in Jobs, JobNext(n)
    PROVE  \E j \in JobStates : JobGoesOn(n, j)
<1>0. job[n] \in JobStates /\ job[n].at \in JobAts
    BY JobFields DEF TypeOK
<1>1. CASE JobReads(n)
  <2> DEFINE rows == [m \in Messages |-> IF m \in job[n].of THEN row[m] ELSE NoRow]
             j == [job[n] EXCEPT !.at = "saving", !.rows = rows]
  <2>1. rows \in [Messages -> Rows]
      BY NoRowTyped DEF TypeOK
  <2>2. j \in JobStates
      BY <1>0, <2>1, JobStaysTyped, JobFields, NoChatTyped DEF JobAts, Held
  <2>3. j.kind = job[n].kind /\ j.of = job[n].of /\ j.prev = job[n].prev
        /\ j.content = job[n].content /\ j.at = "saving"
      BY <1>0 DEF JobStates
  <2>4. JobBecomes(n, j) /\ job[n].at = "waiting" /\ Turn(n)
      BY <1>1 DEF JobReads
  <2> QED
      BY <2>2, <2>3, <2>4 DEF Settled, JobGoesOn
<1>2. CASE JobSaves(n)
  <2> DEFINE j == [job[n] EXCEPT !.at = "stored", !.rows = NoRows]
  <2>1. j \in JobStates
      BY <1>0, JobStaysTyped, JobFields, NoChatTyped, NoRowTyped DEF JobAts, Held
  <2>2. j.kind = job[n].kind /\ j.of = job[n].of /\ j.prev = job[n].prev
        /\ j.content = job[n].content /\ j.at = "stored"
      BY <1>0 DEF JobStates
  <2>3. JobBecomes(n, j) /\ job[n].at = "saving"
      BY <1>2 DEF JobSaves
  <2> QED
      BY <2>1, <2>2, <2>3 DEF Settled, JobGoesOn
<1>3. CASE JobRejected(n)
  <2> DEFINE j == [job[n] EXCEPT !.at = "rejected", !.rows = NoRows, !.clashed = JobClashes(n)]
  <2>1. JobClashes(n) \in BOOLEAN
      BY DEF JobClashes
  <2>2. j \in JobStates
      BY <1>0, <2>1, JobStaysTyped, NoChatTyped, NoRowTyped DEF JobAts, Settled
  <2>3. j.kind = job[n].kind /\ j.of = job[n].of /\ j.prev = job[n].prev
        /\ j.content = job[n].content /\ j.at = "rejected"
      BY <1>0 DEF JobStates
  <2>4. JobBecomes(n, j) /\ job[n].at = "saving"
      BY <1>3 DEF JobRejected
  <2> QED
      BY <2>2, <2>3, <2>4 DEF Settled, JobGoesOn
<1>4. ASSUME NEW at \in {"counting", "fulfilled"}, NEW c \in Chats,
             JobBecomes(n, [job[n] EXCEPT !.at = at, !.chat = c]), job[n].at \in {"stored", "counting"}
      PROVE  \E j \in JobStates : JobGoesOn(n, j)
  <2> DEFINE j == [job[n] EXCEPT !.at = at, !.chat = c]
  <2>1. j \in JobStates
      BY <1>0, <1>4, JobStaysTyped, NoRowTyped DEF JobAts, Held, Settled
  <2>2. j.kind = job[n].kind /\ j.of = job[n].of /\ j.prev = job[n].prev
        /\ j.content = job[n].content /\ j.at = at
      BY <1>0 DEF JobStates
  <2> QED
      BY <1>4, <2>1, <2>2 DEF Settled, JobGoesOn
<1>5. CASE JobReadsChat(n)
    BY <1>4, <1>5 DEF JobReadsChat, TypeOK
<1>6. CASE JobCounts(n)
    BY <1>4, <1>6, NoChatTyped DEF JobCounts
<1>7. CASE JobSkipsChat(n)
    BY <1>4, <1>7, NoChatTyped DEF JobSkipsChat
<1>8. CASE JobEnds(n)
  <2> DEFINE j == [job[n] EXCEPT !.cleaned = TRUE]
  <2>1. j \in JobStates
      BY <1>0, JobStaysTyped, NoChatTyped, NoRowTyped
  <2>2. j.kind = job[n].kind /\ j.of = job[n].of /\ j.prev = job[n].prev
        /\ j.content = job[n].content /\ j.at = job[n].at /\ j.clashed = job[n].clashed
      BY <1>0 DEF JobStates
  <2>3. JobBecomes(n, j) /\ job[n].at \in Settled
      BY <1>8 DEF JobEnds
  <2> QED
      BY <2>1, <2>2, <2>3 DEF Settled, JobGoesOn
<1> QED
    BY <1>1, <1>2, <1>3, <1>5, <1>6, <1>7, <1>8 DEF JobNext

\* A job has something to persist.
JobsHaveMessages == \A n \in Jobs : Chained(n) => job[n].of # {}

LEMMA JobStepTyped ==
    ASSUME TypeOK, JobsHaveMessages, NEW n \in Jobs, JobNext(n)
    PROVE  TypeOK'
<1>0. job[n] \in JobStates /\ job' \in [Jobs -> JobStates]
    BY JobStep, JobBecomesTyped DEF TypeOK, JobGoesOn
<1>1. CASE JobReads(n)
    BY <1>0, <1>1 DEF JobReads, TypeOK, data, history
<1>2. CASE JobSaves(n)
  <2>1. \A m \in Messages : Merged(job[n].rows[m], job[n].content[m]) \in Rows
      BY <1>0, JobFields, RowsStayTyped
  <2>2. row' \in [Messages -> Rows] /\ torn' \subseteq Messages
      BY <1>0, <1>2, <2>1, JobFields DEF JobSaves, TypeOK
  <2> QED
      BY <1>0, <1>2, <2>2 DEF JobSaves, TypeOK
<1>3. CASE JobRejected(n)
    BY <1>0, <1>3 DEF JobRejected, TypeOK, data, history
<1>4. CASE JobReadsChat(n)
    BY <1>0, <1>4 DEF JobReadsChat, TypeOK, data, history
<1>5. CASE JobCounts(n)
  <2> DEFINE live == IF job[n].kind = "live" THEN job[n].of \ Outgoing ELSE {}
             last == Latest(job[n].of)
             clash == ~ job[n].chat.stored /\ chat.stored
  <2>1. live \subseteq Messages /\ Cardinality(live) \in Nat
      BY <1>0, JobFields, MessagesAreFinite
  <2>2. chat' \in Chats
      <3>1. last \in Messages
          BY <1>0, <1>5, JobFields, LatestIsOne DEF JobsHaveMessages, Chained, JobCounts
      <3>2. Counted(job[n].chat, Cardinality(live), last) \in Chats
          BY <1>0, <2>1, <3>1, JobFields, CountedTyped
      <3> QED
          BY <1>5, <3>2 DEF JobCounts, TypeOK
  <2>3. owed' \subseteq Messages /\ tornChat' \in BOOLEAN
      BY <1>5, <2>1 DEF JobCounts, TypeOK, ChatHeldByEcho
  <2> QED
      BY <1>0, <1>5, <2>2, <2>3 DEF JobCounts, TypeOK
<1>6. CASE JobSkipsChat(n)
    BY <1>0, <1>6 DEF JobSkipsChat, TypeOK, data, history
<1>7. CASE JobEnds(n)
  <2>1. tail' \in 0..MaxJobs
      BY <1>7, BoundsAssumption DEF JobEnds, TailWithout, TypeOK
  <2>2. stage' \in [Incoming -> {"unsent", "hook", "stopped", "queued", "published", "silent"}]
      BY <1>7 DEF JobEnds, TypeOK
  <2> QED
      BY <1>0, <1>7, <2>1, <2>2 DEF JobEnds, TypeOK, data, history
<1> QED
    BY <1>1, <1>2, <1>3, <1>4, <1>5, <1>6, <1>7 DEF JobNext
\* persistMessages chains a job in type.
LEMMA ChainTyped ==
    ASSUME TypeOK, NEW kind \in Kinds, NEW of \in SUBSET Messages, NEW content \in [Messages -> Contents],
           Chain(kind, of, content)
    PROVE  \E n \in Jobs :
               /\ NextFree(n)
               /\ JobBecomes(n, NewJob(kind, of, content, tail))
               /\ tail' = n
               /\ job' \in [Jobs -> JobStates] /\ tail' \in 0..MaxJobs
<1>1. PICK n \in Jobs : NextFree(n) /\ JobBecomes(n, NewJob(kind, of, content, tail)) /\ tail' = n
    BY DEF Chain, NewJob
<1>2. NewJob(kind, of, content, tail) \in JobStates
    BY NewJobTyped DEF TypeOK
<1>3. job' \in [Jobs -> JobStates] /\ tail' \in 0..MaxJobs
    BY <1>1, <1>2, JobBecomesTyped, BoundsAssumption DEF Jobs
<1> QED
    BY <1>1, <1>3

LEMMA HistoryContent ==
    ASSUME TypeOK, NEW M \in SUBSET Messages, \A m \in M : wa[m] # "unsent"
    PROVE  [m \in Messages |-> IF m \in M THEN wa[m] ELSE "text"] \in [Messages -> Contents]
BY DEF TypeOK, Contents

LEMMA ArrivalTyped ==
    ASSUME TypeOK, NEW m \in Incoming, Arrives(m) \/ HookStops(m) \/ HookGoesOn(m)
    PROVE  TypeOK'
<1>0. m \in Messages
    BY DEF Incoming
<1>1. CASE Arrives(m)
  <2>1. wa' \in [Messages -> {"unsent"} \cup Contents]
      BY <1>1 DEF Arrives, TypeOK, Contents
  <2>2. stage' \in [Incoming -> {"unsent", "hook", "stopped", "queued", "published", "silent"}]
      BY <1>1 DEF Arrives, TypeOK
  <2> QED
      BY <1>1, <2>1, <2>2 DEF Arrives, TypeOK, data, history
<1>2. CASE HookStops(m)
  <2>2. stage' \in [Incoming -> {"unsent", "hook", "stopped", "queued", "published", "silent"}]
      BY <1>2 DEF HookStops, TypeOK
  <2> QED
      BY <1>2, <2>2 DEF HookStops, TypeOK, data, history
<1>3. CASE HookGoesOn(m)
  <2>1. job' \in [Jobs -> JobStates] /\ tail' \in 0..MaxJobs
      BY <1>0, <1>3, ChainTyped, NoRowTyped DEF HookGoesOn, Kinds
  <2>2. stage' \in [Incoming -> {"unsent", "hook", "stopped", "queued", "published", "silent"}]
      BY <1>3 DEF HookGoesOn, TypeOK
  <2> QED
      BY <1>3, <2>1, <2>2 DEF HookGoesOn, TypeOK, data, history
<1> QED
    BY <1>1, <1>2, <1>3

LEMMA HistoryTyped ==
    ASSUME TypeOK, NEW M \in SUBSET Messages, HistoryArrives(M)
    PROVE  TypeOK'
<1>1. job' \in [Jobs -> JobStates] /\ tail' \in 0..MaxJobs
    BY ChainTyped, HistoryContent DEF HistoryArrives, Kinds
<1> QED
    BY <1>1 DEF HistoryArrives, TypeOK, data, history

LEMMA ChangeBecomesTyped ==
    ASSUME TypeOK, NEW m \in Changed, NEW who \in Changes, NEW c \in ChangeStates,
           ChangeBecomes(m, who, c)
    PROVE  /\ change' \in [Changed -> [Changes -> ChangeStates]]
           /\ change'[m][who] = c
           /\ \A w \in Changes \ {who} : change'[m][w] = change[m][w]
           /\ \A k \in Changed \ {m} : change'[k] = change[k]
<1>1. change[m] \in [Changes -> ChangeStates]
    BY DEF TypeOK
<1>2. [change[m] EXCEPT ![who] = c] \in [Changes -> ChangeStates]
    BY <1>1
<1>3. change' = [change EXCEPT ![m] = [change[m] EXCEPT ![who] = c]]
    BY DEF ChangeBecomes
<1> QED
    BY <1>1, <1>2, <1>3 DEF TypeOK

LEMMA ChangeTyped ==
    ASSUME TypeOK, NEW m \in Changed, ChangeNext(m)
    PROVE  TypeOK'
<1>0. m \in Messages /\ row[m] \in Rows
    BY MessagesAssumption DEF TypeOK
<1>1. ASSUME NEW who \in Changes, ChangeArrives(m, who)
      PROVE  TypeOK'
  <2> DEFINE c == [at |-> "asked", copy |-> NoRow]
  <2>1. c \in ChangeStates
      BY NoRowTyped DEF ChangeStates
  <2>2. change' \in [Changed -> [Changes -> ChangeStates]]
      BY <1>1, <2>1, ChangeBecomesTyped DEF ChangeArrives
  <2>3. wa' \in [Messages -> {"unsent"} \cup Contents]
      BY <1>1 DEF ChangeArrives, TypeOK, Contents
  <2> QED
      BY <1>1, <2>2, <2>3 DEF ChangeArrives, TypeOK, data, history
<1>2. ASSUME NEW who \in Changes, ChangeReads(m, who)
      PROVE  TypeOK'
  <2> DEFINE c == IF row[m].stored THEN [at |-> "holding", copy |-> row[m]]
                                   ELSE [at |-> "done", copy |-> NoRow]
  <2>1. c \in ChangeStates
      BY <1>0, NoRowTyped DEF ChangeStates
  <2>2. ChangeBecomes(m, who, c)
      BY <1>2 DEF ChangeReads
  <2>3. change' \in [Changed -> [Changes -> ChangeStates]]
      BY <2>1, <2>2, ChangeBecomesTyped
  <2>4. torn' \subseteq Messages
      BY <1>0, <1>2 DEF ChangeReads, TypeOK
  <2> QED
      BY <1>2, <2>3, <2>4 DEF ChangeReads, TypeOK, data
<1>3. ASSUME NEW who \in Changes, ChangeSaves(m, who)
      PROVE  TypeOK'
  <2> DEFINE c == [at |-> "done", copy |-> NoRow]
  <2>1. c \in ChangeStates
      BY NoRowTyped DEF ChangeStates
  <2>2. change' \in [Changed -> [Changes -> ChangeStates]]
      BY <1>3, <2>1, ChangeBecomesTyped DEF ChangeSaves
  <2>3. change[m][who].copy \in Rows
      BY DEF TypeOK, ChangeStates
  <2>4. row' \in [Messages -> Rows] /\ torn' \subseteq Messages
      BY <1>0, <1>3, <2>3, RowsStayTyped DEF ChangeSaves, TypeOK
  <2> QED
      BY <1>3, <2>2, <2>4 DEF ChangeSaves, TypeOK
<1>4. CASE RevokeArrives(m)
  <2>1. wa' \in [Messages -> {"unsent"} \cup Contents] /\ revoke' \in [Changed -> {"none", "asked", "done"}]
      BY <1>4 DEF RevokeArrives, TypeOK, Contents
  <2> QED
      BY <1>4, <2>1 DEF RevokeArrives, TypeOK, data, history
<1>5. CASE RevokeUpdates(m)
  <2>1. revoke' \in [Changed -> {"none", "asked", "done"}]
      BY <1>5 DEF RevokeUpdates, TypeOK
  <2>2. row' \in [Messages -> Rows] /\ torn' \subseteq Messages
      BY <1>0, <1>5, RowsStayTyped DEF RevokeUpdates, TypeOK
  <2> QED
      BY <1>5, <2>1, <2>2 DEF RevokeUpdates, TypeOK
<1> QED
    BY <1>1, <1>2, <1>3, <1>4, <1>5 DEF ChangeNext

LEMMA EchoBecomesTyped ==
    ASSUME TypeOK, NEW m \in Outgoing, NEW e \in EchoStates, EchoBecomes(m, e)
    PROVE  /\ echo' \in [Outgoing -> EchoStates]
           /\ echo'[m] = e
           /\ \A k \in Outgoing \ {m} : echo'[k] = echo[k]
BY DEF TypeOK, EchoBecomes

EchoAts == {"none", "hook", "reading", "saving", "stored", "counting", "done"}

LEMMA EchoFields ==
    ASSUME NEW e \in EchoStates
    PROVE  e.at \in EchoAts /\ e.copy \in Rows /\ e.chat \in Chats
BY DEF EchoStates, EchoAts

LEMMA EchoStaysTyped ==
    ASSUME NEW e \in EchoStates, NEW at \in EchoAts, NEW r \in Rows, NEW c \in Chats
    PROVE  /\ [e EXCEPT !.at = at] \in EchoStates
           /\ [e EXCEPT !.at = at, !.copy = r] \in EchoStates
           /\ [e EXCEPT !.at = at, !.chat = c] \in EchoStates
<1>1. [e EXCEPT !.at = at] \in EchoStates
    BY DEF EchoStates, EchoAts
<1>2. [e EXCEPT !.at = at, !.copy = r] \in EchoStates
    BY DEF EchoStates, EchoAts
<1>3. [e EXCEPT !.at = at, !.chat = c] \in EchoStates
    BY DEF EchoStates, EchoAts
<1> QED
    BY <1>1, <1>2, <1>3

\* The state a step of onMessageCreate takes the message's handling to.
LEMMA EchoStep ==
    ASSUME TypeOK, NEW m \in Outgoing, EchoNext(m)
    PROVE  \E e \in EchoStates : EchoBecomes(m, e)
<1>0. echo[m] \in EchoStates /\ m \in Messages /\ row[m] \in Rows /\ chat \in Chats
    BY MessagesAssumption DEF TypeOK
<1>1. CASE EchoArrives(m)
  <2>1. [echo[m] EXCEPT !.at = "hook"] \in EchoStates
      BY <1>0, EchoStaysTyped, NoRowTyped, NoChatTyped DEF EchoAts
  <2> QED
      BY <1>1, <2>1 DEF EchoArrives
<1>2. CASE EchoHook(m)
  <2>1. \A at \in {"done", "reading"} : [echo[m] EXCEPT !.at = at] \in EchoStates
      BY <1>0, EchoStaysTyped, NoRowTyped, NoChatTyped DEF EchoAts
  <2> QED
      BY <1>2, <2>1 DEF EchoHook
<1>3. CASE EchoReads(m)
  <2>1. [echo[m] EXCEPT !.at = "saving", !.copy = row[m]] \in EchoStates
      BY <1>0, EchoStaysTyped, NoChatTyped DEF EchoAts
  <2> QED
      BY <1>3, <2>1 DEF EchoReads
<1>4. CASE EchoSaves(m)
  <2>1. \A at \in {"done", "stored"} : [echo[m] EXCEPT !.at = at, !.copy = NoRow] \in EchoStates
      BY <1>0, EchoStaysTyped, NoChatTyped, NoRowTyped DEF EchoAts
  <2> QED
      BY <1>4, <2>1 DEF EchoSaves
<1>5. CASE EchoReadsChat(m)
  <2>1. [echo[m] EXCEPT !.at = "counting", !.chat = chat] \in EchoStates
      BY <1>0, EchoStaysTyped, NoRowTyped DEF EchoAts
  <2> QED
      BY <1>5, <2>1 DEF EchoReadsChat
<1>6. CASE EchoCounts(m)
  <2>1. [echo[m] EXCEPT !.at = "done", !.chat = NoChat] \in EchoStates
      BY <1>0, EchoStaysTyped, NoRowTyped, NoChatTyped DEF EchoAts
  <2> QED
      BY <1>6, <2>1 DEF EchoCounts
<1> QED
    BY <1>1, <1>2, <1>3, <1>4, <1>5, <1>6 DEF EchoNext

LEMMA EchoTyped ==
    ASSUME TypeOK, NEW m \in Outgoing, EchoNext(m)
    PROVE  TypeOK'
<1>0. echo[m] \in EchoStates /\ m \in Messages /\ row[m] \in Rows /\ chat \in Chats
    BY MessagesAssumption DEF TypeOK
<1>1. echo' \in [Outgoing -> EchoStates]
    BY EchoStep, EchoBecomesTyped
<1>2. CASE EchoArrives(m)
  <2>1. wa' \in [Messages -> {"unsent"} \cup Contents]
      BY <1>2 DEF EchoArrives, TypeOK, Contents
  <2> QED
      BY <1>1, <1>2, <2>1 DEF EchoArrives, TypeOK, data, history
<1>3. CASE EchoHook(m) \/ EchoReads(m) \/ EchoReadsChat(m)
    BY <1>1, <1>3 DEF EchoHook, EchoReads, EchoReadsChat, TypeOK, data, history
<1>4. CASE EchoSaves(m)
  <2>1. Merged(echo[m].copy, "text") \in Rows
      BY <1>0, EchoFields, RowsStayTyped DEF Contents
  <2>2. row' \in [Messages -> Rows] /\ torn' \subseteq Messages
      BY <1>0, <1>4, <2>1 DEF EchoSaves, TypeOK
  <2> QED
      BY <1>1, <1>4, <2>2 DEF EchoSaves, TypeOK
<1>5. CASE EchoCounts(m)
  <2>1. Counted(echo[m].chat, 0, m) \in Chats
      BY <1>0, EchoFields, CountedTyped
  <2>2. chat' \in Chats /\ tornChat' \in BOOLEAN
      BY <1>0, <1>5, <2>1 DEF EchoCounts, TypeOK, ChatHeldByJob, ChatHeldByEcho
  <2> QED
      BY <1>1, <1>5, <2>2 DEF EchoCounts, TypeOK
<1> QED
    BY <1>2, <1>3, <1>4, <1>5 DEF EchoNext

LEMMA ChatTyped ==
    ASSUME TypeOK, ChatNext
    PROVE  TypeOK'
<1>0. refresh \in RefreshStates /\ chat \in Chats
    BY DEF TypeOK
<1>1. CASE RefreshFetches
  <2> DEFINE of == Unopened
             last == Latest({m \in Messages : wa[m] # "unsent"})
  <2>1. of \in SUBSET Messages
      BY DEF Unopened, Incoming
  <2>2. last \in 0..Newest
      BY <1>1, LatestIsOne, MessagesAssumption DEF RefreshFetches, Messages
  <2>3. [refresh EXCEPT !.at = "fetched", !.of = of, !.last = last] \in RefreshStates
      <3> HIDE DEF of, last
      <3> QED
          BY <1>0, <2>1, <2>2 DEF RefreshStates
  <2> QED
      BY <1>1, <2>3 DEF RefreshFetches, TypeOK, data, history
<1>2. CASE RefreshReads
  <2>1. [refresh EXCEPT !.at = "holding", !.copy = chat] \in RefreshStates
      BY <1>0 DEF RefreshStates
  <2> QED
      BY <1>2, <2>1 DEF RefreshReads, TypeOK, data, history
<1>3. CASE RefreshSaves
  <2>1. refresh.of \in SUBSET Messages /\ refresh.last \in 0..Newest /\ refresh.copy \in Chats
        /\ refresh.copy.last \in 0..Newest
      BY <1>0 DEF RefreshStates, Chats
  <2>2. Cardinality(refresh.of) \in Nat
      BY <2>1, MessagesAreFinite
  <2>3. chat' \in Chats
      BY <1>0, <1>3, <2>1, <2>2 DEF RefreshSaves, Chats, Larger
  <2>4. [at |-> "done", of |-> {}, last |-> 0, copy |-> NoChat] \in RefreshStates
      BY NoChatTyped, MessagesAssumption DEF RefreshStates
  <2>5. tornChat' \in BOOLEAN /\ owed' \subseteq Messages
      BY <1>3, <2>1 DEF RefreshSaves, TypeOK, ChatHeldByJob
  <2> QED
      BY <1>3, <2>3, <2>4, <2>5 DEF RefreshSaves, TypeOK
<1>4. CASE SeenAsked
    BY <1>4 DEF SeenAsked, TypeOK, data, history
<1>5. CASE SeenUpdates
  <2>1. chat' \in Chats
      BY <1>0, <1>5 DEF SeenUpdates, Chats
  <2>2. tornChat' \in BOOLEAN
      BY <1>5 DEF SeenUpdates, ChatHeldByJob, TypeOK
  <2> QED
      BY <1>5, <2>1, <2>2 DEF SeenUpdates, TypeOK
<1> QED
    BY <1>1, <1>2, <1>3, <1>4, <1>5 DEF ChatNext

LEMMA StepTyped ==
    ASSUME TypeOK, JobsHaveMessages, [Next]_vars
    PROVE  TypeOK'
<1>1. CASE UNCHANGED vars
    BY <1>1 DEF vars, data, history, TypeOK
<1> QED
    BY <1>1, JobStepTyped, ArrivalTyped, HistoryTyped, ChangeTyped, EchoTyped, ChatTyped DEF Next
-----------------------------------------------------------------------------
(* The queue *)

Finished(n) == job[n].at \in Settled
EarlierFinished(n) == \A k \in Jobs : k < n => Finished(k)

\* The jobs follow each other without a gap; each follows the one before, or has
\* come when all were settled; the map's entry is the last one, or all are settled.
QueueInv ==
    /\ JobsHaveMessages
    /\ \A n \in Jobs : Chained(n) => \A k \in Jobs : k < n => Chained(k)
    /\ \A n \in Jobs : Chained(n) => job[n].prev = 0 \/ (job[n].prev \in Jobs /\ job[n].prev = n - 1)
    /\ \A n \in Jobs : Chained(n) /\ (job[n].prev = 0 \/ job[n].at # "waiting") => EarlierFinished(n)
    /\ tail # 0 => tail \in Jobs /\ Chained(tail) /\ \A k \in Jobs : Chained(k) => k <= tail
    /\ tail = 0 => \A k \in Jobs : Chained(k) => Finished(k)

\* A job whose turn it is has only settled ones before it.
LEMMA TurnMeansFirst ==
    ASSUME QueueInv, NEW n \in Jobs, Chained(n), job[n].at = "waiting" => Turn(n)
    PROVE  EarlierFinished(n)
<1>1. CASE job[n].prev = 0 \/ job[n].at # "waiting"
    BY <1>1 DEF QueueInv
<1>2. CASE job[n].prev # 0 /\ job[n].at = "waiting"
  <2> DEFINE p == job[n].prev
  <2>1. p \in Jobs /\ p = n - 1 /\ p < n /\ Finished(p)
      BY <1>2, BoundsAssumption DEF QueueInv, Turn, Finished, Jobs
  <2>2. Chained(p) /\ job[p].at # "waiting"
      BY <2>1 DEF Chained, Finished, Settled
  <2>3. EarlierFinished(p)
      BY <2>1, <2>2 DEF QueueInv
  <2>4. ASSUME NEW k \in Jobs, k < n
        PROVE  Finished(k)
      <3>1. k = p \/ k < p
          BY <2>1, <2>4, BoundsAssumption DEF Jobs
      <3> QED
          BY <2>1, <2>3, <3>1 DEF EarlierFinished
  <2> QED
      BY <2>4 DEF EarlierFinished
<1> QED
    BY <1>1, <1>2

LEMMA JobStepKeepsQueue ==
    ASSUME TypeOK, QueueInv, NEW n \in Jobs, JobNext(n)
    PROVE  QueueInv'
<1>1. PICK j \in JobStates : JobGoesOn(n, j)
    BY JobStep
<1>2. /\ job'[n] = j
      /\ \A k \in Jobs \ {n} : job'[k] = job[k]
    BY <1>1, JobBecomesTyped DEF JobGoesOn
<1>3. /\ \A k \in Jobs : Chained(k)' <=> Chained(k)
      /\ \A k \in Jobs : job'[k].prev = job[k].prev /\ job'[k].of = job[k].of
      /\ \A k \in Jobs : Finished(k) => Finished(k)'
    BY <1>1, <1>2 DEF Chained, Finished, JobGoesOn
<1>4. EarlierFinished(n)
    BY <1>1, TurnMeansFirst DEF JobGoesOn, Chained
<1>5. ASSUME NEW k \in Jobs, Chained(k)', (job[k].prev = 0 \/ job[k].at # "waiting")'
      PROVE  EarlierFinished(k)'
  <2>1. EarlierFinished(k)
      BY <1>2, <1>3, <1>4, <1>5 DEF QueueInv
  <2> QED
      BY <1>3, <2>1 DEF EarlierFinished
<1>6. tail' = tail \/ (tail = n /\ tail' = 0 /\ Finished(n))
    BY DEF JobNext, JobReads, JobSaves, JobRejected, JobReadsChat, JobCounts, JobSkipsChat, JobEnds,
           TailWithout, Finished
<1>7. /\ (tail # 0)' => tail' \in Jobs /\ Chained(tail)' /\ \A k \in Jobs : Chained(k)' => k <= tail'
      /\ (tail = 0)' => \A k \in Jobs : Chained(k)' => Finished(k)'
  <2>1. CASE tail' = tail
      BY <1>3, <2>1 DEF QueueInv, Chained
  <2>2. CASE tail = n /\ tail' = 0 /\ Finished(n)
      <3>1. n # 0 /\ \A k \in Jobs : Chained(k) => k = n \/ k < n
          BY <2>2, BoundsAssumption DEF QueueInv, Jobs
      <3>2. \A k \in Jobs : Chained(k) => Finished(k)
          BY <1>4, <2>2, <3>1 DEF EarlierFinished
      <3> QED
          BY <1>3, <2>2, <3>2
  <2> QED
      BY <1>6, <2>1, <2>2
<1>8. JobsHaveMessages'
    BY <1>3 DEF QueueInv, JobsHaveMessages
<1>9. \A k \in Jobs : Chained(k)' => \A i \in Jobs : i < k => Chained(i)'
    BY <1>3 DEF QueueInv
<1>10. \A k \in Jobs : Chained(k)' => job'[k].prev = 0 \/ (job'[k].prev \in Jobs /\ job'[k].prev = k - 1)
    BY <1>3 DEF QueueInv
<1> QED
    BY <1>5, <1>7, <1>8, <1>9, <1>10 DEF QueueInv

LEMMA ChainKeepsQueue ==
    ASSUME TypeOK, QueueInv, NEW kind \in Kinds, NEW of \in SUBSET Messages, of # {},
           NEW content \in [Messages -> Contents], Chain(kind, of, content)
    PROVE  QueueInv'
<1>1. PICK n \in Jobs : NextFree(n) /\ JobBecomes(n, NewJob(kind, of, content, tail)) /\ tail' = n
    BY ChainTyped
<1> DEFINE j == NewJob(kind, of, content, tail)
<1>2. j \in JobStates /\ j.at = "waiting" /\ j.of = of /\ j.prev = tail
  <2>1. j \in JobStates
      BY NewJobTyped DEF TypeOK
  <2> QED
      BY <2>1 DEF NewJob, NoJob
<1> HIDE DEF j
<1>3. job'[n] = j /\ \A k \in Jobs \ {n} : job'[k] = job[k]
    BY <1>1, <1>2, JobBecomesTyped DEF j
<1>4. /\ ~ Chained(n) /\ Chained(n)' /\ \A k \in Jobs : k < n => Chained(k)
      /\ \A k \in Jobs : Chained(k)' => k = n \/ (Chained(k) /\ k < n)
  <2>1. ~ Chained(n) /\ Chained(n)' /\ \A k \in Jobs : k < n => Chained(k)
      BY <1>1, <1>2, <1>3 DEF NextFree, Chained
  <2>2. ASSUME NEW k \in Jobs, Chained(k)', k # n
        PROVE  Chained(k) /\ k < n
      <3>1. Chained(k)
          BY <1>3, <2>2 DEF Chained
      <3>2. ~ (n < k)
          BY <2>1, <3>1 DEF QueueInv
      <3> QED
          BY <2>2, <3>1, <3>2 DEF Jobs
  <2> QED
      BY <2>1, <2>2
<1>5. \A k \in Jobs : k # n => (Finished(k) <=> Finished(k)')
    BY <1>3 DEF Finished
<1>6. tail = 0 \/ (tail \in Jobs /\ tail = n - 1)
  <2>1. CASE tail # 0
      <3>1. PICK t \in Jobs : t = tail /\ Chained(t) /\ \A k \in Jobs : Chained(k) => k <= t
          BY <2>1 DEF QueueInv
      <3>2. t # n /\ Chained(t)'
          BY <1>3, <1>4, <3>1 DEF Chained
      <3>3. t < n
          BY <1>4, <3>2
      <3>4. n - 1 \in Jobs /\ n - 1 < n
          BY <3>3, BoundsAssumption DEF Jobs
      <3>5. n - 1 <= t
          BY <1>4, <3>1, <3>4
      <3> QED
          BY <3>1, <3>3, <3>5 DEF Jobs
  <2> QED
      BY <2>1
<1>7. JobsHaveMessages'
    BY <1>2, <1>3 DEF QueueInv, JobsHaveMessages, Chained
<1>8. ASSUME NEW k \in Jobs, Chained(k)'
      PROVE  \A i \in Jobs : i < k => Chained(i)'
  <2>1. ASSUME NEW i \in Jobs, i < k
        PROVE  Chained(i)'
      <3>1. i < n
          BY <1>4, <1>8, <2>1 DEF Jobs
      <3> QED
          BY <1>3, <1>4, <3>1 DEF Chained, Jobs
  <2> QED
      BY <2>1
<1>9. ASSUME NEW k \in Jobs, Chained(k)'
      PROVE  job'[k].prev = 0 \/ (job'[k].prev \in Jobs /\ job'[k].prev = k - 1)
  <2>1. CASE k = n
      BY <1>2, <1>3, <1>6, <2>1
  <2>2. CASE k # n
      BY <1>3, <1>4, <1>9, <2>2 DEF QueueInv
  <2> QED
      BY <2>1, <2>2
<1>10. ASSUME NEW k \in Jobs, Chained(k)', (job[k].prev = 0 \/ job[k].at # "waiting")'
       PROVE  EarlierFinished(k)'
  <2>1. CASE k = n
      <3>1. tail = 0
          BY <1>2, <1>3, <1>10, <2>1
      <3>2. \A i \in Jobs : i < n => Finished(i)
          BY <1>4, <3>1 DEF QueueInv
      <3>3. \A i \in Jobs : i < n => i # n
          BY DEF Jobs
      <3> QED
          BY <1>5, <2>1, <3>2, <3>3 DEF EarlierFinished
  <2>2. CASE k # n
      <3>1. EarlierFinished(k) /\ k < n
          BY <1>3, <1>4, <1>10, <2>2 DEF QueueInv
      <3>2. \A i \in Jobs : i < k => i # n
          BY <3>1 DEF Jobs
      <3> QED
          BY <1>5, <3>1, <3>2 DEF EarlierFinished
  <2> QED
      BY <2>1, <2>2
<1>11. n # 0 /\ \A k \in Jobs : Chained(k)' => k <= n
    BY <1>4 DEF Jobs
<1> QED
    BY <1>1, <1>4, <1>7, <1>8, <1>9, <1>10, <1>11 DEF QueueInv

LEMMA StepKeepsQueue ==
    ASSUME TypeOK, QueueInv, [Next]_vars
    PROVE  QueueInv'
<1>1. ASSUME UNCHANGED <<job, tail>> PROVE QueueInv'
    BY <1>1 DEF QueueInv, JobsHaveMessages, Chained, EarlierFinished, Finished
<1>2. CASE UNCHANGED vars
    BY <1>1, <1>2 DEF vars
<1>3. ASSUME NEW m \in Incoming, Arrives(m) \/ HookStops(m) \/ HookGoesOn(m)
      PROVE  QueueInv'
    BY <1>1, <1>3, ChainKeepsQueue, NoRowTyped DEF Arrives, HookStops, HookGoesOn, Kinds, Incoming
<1>4. ASSUME NEW M \in SUBSET Messages, HistoryArrives(M)
      PROVE  QueueInv'
    BY <1>4, ChainKeepsQueue, HistoryContent DEF HistoryArrives, Kinds
<1>5. ASSUME NEW m \in Changed, ChangeNext(m)
      PROVE  QueueInv'
    BY <1>1, <1>5 DEF ChangeNext, ChangeArrives, ChangeReads, ChangeSaves, RevokeArrives, RevokeUpdates
<1>6. ASSUME NEW m \in Outgoing, EchoNext(m)
      PROVE  QueueInv'
    BY <1>1, <1>6 DEF EchoNext, EchoArrives, EchoHook, EchoReads, EchoSaves, EchoReadsChat, EchoCounts
<1>7. CASE ChatNext
    BY <1>1, <1>7 DEF ChatNext, RefreshFetches, RefreshReads, RefreshSaves, SeenAsked, SeenUpdates
<1> QED
    BY <1>2, <1>3, <1>4, <1>5, <1>6, <1>7, JobStepKeepsQueue DEF Next

\* Two jobs that both are between their first read and their last write are one.
LEMMA QueueSerialises == QueueInv => OneJobAtATime
<1> SUFFICES ASSUME QueueInv, NEW n \in Jobs, NEW k \in Jobs, Running(n), Running(k)
             PROVE  n = k
    BY DEF OneJobAtATime
<1>1. Chained(n) /\ job[n].at # "waiting" /\ ~ Finished(n)
    BY DEF Running, Chained, Finished, Held, Settled
<1>2. Chained(k) /\ job[k].at # "waiting" /\ ~ Finished(k)
    BY DEF Running, Chained, Finished, Held, Settled
<1>3. ~ (n < k) /\ ~ (k < n)
    BY <1>1, <1>2 DEF QueueInv, EarlierFinished
<1> QED
    BY <1>3 DEF Jobs

-----------------------------------------------------------------------------
(* What is known of a message: nothing before it has been sent *)

\* onMessage has had exactly the incoming messages that have been sent.
StageKnown == \A m \in Incoming : wa[m] = "unsent" <=> stage[m] = "unsent"

\* Only what has been sent is queued, stored or changed.
OnlyOfSent ==
    /\ \A n \in Jobs : \A m \in job[n].of : wa[m] # "unsent"
    /\ \A m \in Messages : row[m].stored => wa[m] # "unsent"
    /\ \A m \in Changed : \A who \in Changes : change[m][who].at # "none" => wa[m] # "unsent"
    /\ \A m \in Outgoing : echo[m].at # "none" => wa[m] # "unsent"

\* A live job is the one of its message, which the hook has let through.
LiveOnce ==
    /\ \A n \in Jobs : job[n].kind = "live" =>
           job[n].of \subseteq Incoming /\ \A m \in job[n].of : stage[m] \notin {"unsent", "hook"}
    /\ \A n, k \in Jobs : n # k /\ job[n].kind = "live" /\ job[k].kind = "live"
           => job[n].of \cap job[k].of = {}

\* A message is revoked, or edited, if and only if someone has done it.
ChangesKnown ==
    \A m \in Messages :
        /\ m \in Changed => (wa[m] = "revoked" <=> revoke[m] # "none")
        /\ m \in Changed /\ wa[m] = "text" => change[m]["edit"].at = "none"
        /\ m \notin Changed => wa[m] \in {"unsent", "text"}

SentInv == StageKnown /\ OnlyOfSent /\ LiveOnce /\ ChangesKnown

LEMMA JobsKeep ==
    ASSUME TypeOK, NEW n \in Jobs, JobNext(n)
    PROVE  \A k \in Jobs : job'[k].kind = job[k].kind /\ job'[k].of = job[k].of
                           /\ (k # n => job'[k] = job[k])
<1>1. PICK j \in JobStates : JobGoesOn(n, j)
    BY JobStep
<1> QED
    BY <1>1, JobBecomesTyped DEF JobGoesOn

LEMMA JobStepKeepsSent ==
    ASSUME TypeOK, SentInv, NEW n \in Jobs, JobNext(n)
    PROVE  SentInv'
<1>0. UNCHANGED <<wa, change, revoke, echo>>
    BY DEF JobNext, JobReads, JobSaves, JobRejected, JobReadsChat, JobCounts, JobSkipsChat, JobEnds
<1>1. \A m \in Incoming : \/ stage'[m] = stage[m]
                          \/ stage'[m] \in {"published", "silent"} /\ stage[m] # "unsent"
  <2>1. CASE JobEnds(n)
      BY <2>1 DEF JobEnds, SentInv, LiveOnce, TypeOK
  <2>2. CASE ~ JobEnds(n)
      BY <2>2 DEF JobNext, JobReads, JobSaves, JobRejected, JobReadsChat, JobCounts, JobSkipsChat
  <2> QED
      BY <2>1, <2>2
<1>2. \A m \in Messages : row'[m] = row[m] \/ m \in job[n].of
  <2>1. CASE JobSaves(n)
      BY <2>1 DEF JobSaves, TypeOK
  <2>2. CASE ~ JobSaves(n)
      BY <2>2 DEF JobNext, JobReads, JobRejected, JobReadsChat, JobCounts, JobSkipsChat, JobEnds, data
  <2> QED
      BY <2>1, <2>2
<1>3. StageKnown'
    BY <1>0, <1>1 DEF SentInv, StageKnown
<1>4. OnlyOfSent'
    BY <1>0, <1>2, JobsKeep DEF SentInv, OnlyOfSent
<1>5. LiveOnce'
    BY <1>1, JobsKeep DEF SentInv, LiveOnce
<1>6. ChangesKnown'
    BY <1>0 DEF SentInv, ChangesKnown
<1> QED
    BY <1>3, <1>4, <1>5, <1>6 DEF SentInv

\* A job that is chained when its messages have been sent.
LEMMA ChainKeepsJobs ==
    ASSUME TypeOK, NEW kind \in Kinds, NEW of \in SUBSET Messages,
           NEW content \in [Messages -> Contents], Chain(kind, of, content)
    PROVE  \E n \in Jobs :
               /\ job'[n].kind = kind /\ job'[n].of = of /\ job'[n].at = "waiting"
               /\ \A k \in Jobs : k # n => job'[k] = job[k]
<1>1. PICK n \in Jobs : JobBecomes(n, NewJob(kind, of, content, tail))
    BY ChainTyped
<1>2. NewJob(kind, of, content, tail) \in JobStates
    BY NewJobTyped DEF TypeOK
<1>3. job'[n] = NewJob(kind, of, content, tail) /\ \A k \in Jobs \ {n} : job'[k] = job[k]
    BY <1>1, <1>2, JobBecomesTyped
<1> QED
    BY <1>3 DEF NewJob, NoJob

LEMMA ArrivalKeepsSent ==
    ASSUME TypeOK, SentInv, NEW m \in Incoming, Arrives(m) \/ HookStops(m) \/ HookGoesOn(m)
    PROVE  SentInv'
<1>0. UNCHANGED <<row, change, revoke, echo>> /\ m \in Messages
    BY DEF Arrives, HookStops, HookGoesOn, data, Incoming
<1>1. CASE Arrives(m)
  <2>1. wa' = [wa EXCEPT ![m] = "text"] /\ stage' = [stage EXCEPT ![m] = "hook"] /\ job' = job
        /\ wa[m] = "unsent"
      BY <1>1 DEF Arrives, SentInv, StageKnown
  <2>2. StageKnown' /\ OnlyOfSent'
      BY <1>0, <2>1 DEF SentInv, StageKnown, OnlyOfSent, TypeOK
  <2>3. LiveOnce'
      BY <1>0, <2>1 DEF SentInv, OnlyOfSent, LiveOnce, TypeOK
  <2>4. ChangesKnown'
      <3>1. ASSUME m \in Changed
            PROVE  revoke[m] = "none" /\ change[m]["edit"].at = "none"
        <4>1. revoke[m] = "none"
            BY <1>0, <2>1, <3>1 DEF SentInv, ChangesKnown
        <4>2. "edit" \in Changes
            BY DEF Changes
        <4> QED
            BY <2>1, <3>1, <4>1, <4>2 DEF SentInv, OnlyOfSent
      <3> QED
          BY <1>0, <2>1, <3>1 DEF SentInv, ChangesKnown, TypeOK
  <2> QED
      BY <2>2, <2>3, <2>4 DEF SentInv
<1>2. CASE HookStops(m)
  <2>1. stage' = [stage EXCEPT ![m] = "stopped"] /\ UNCHANGED <<wa, job>> /\ stage[m] = "hook"
      BY <1>2 DEF HookStops
  <2> QED
      BY <1>0, <2>1 DEF SentInv, StageKnown, OnlyOfSent, LiveOnce, ChangesKnown, TypeOK
<1>3. CASE HookGoesOn(m)
  <2>1. stage' = [stage EXCEPT ![m] = "queued"] /\ wa' = wa /\ stage[m] = "hook"
      BY <1>3 DEF HookGoesOn
  <2>2. PICK n \in Jobs : /\ job'[n].kind = "live" /\ job'[n].of = {m}
                          /\ \A k \in Jobs : k # n => job'[k] = job[k]
    <3>1. Chain("live", {m}, NoContent) /\ {m} \in SUBSET Messages /\ "live" \in Kinds
        BY <1>0, <1>3 DEF HookGoesOn, Kinds
    <3>2. NoContent \in [Messages -> Contents]
        BY DEF NoContent, Contents
    <3>3. \E n \in Jobs : /\ job'[n].kind = "live" /\ job'[n].of = {m} /\ job'[n].at = "waiting"
                         /\ \A k \in Jobs : k # n => job'[k] = job[k]
        <4> HIDE DEF NoContent
        <4> QED
            BY <3>1, <3>2, ChainKeepsJobs
    <3> QED
        BY <3>3
  <2>3. StageKnown' /\ ChangesKnown'
      BY <1>0, <2>1 DEF SentInv, StageKnown, ChangesKnown, TypeOK
  <2>4. OnlyOfSent'
      BY <1>0, <2>1, <2>2 DEF SentInv, StageKnown, OnlyOfSent
  <2>5. LiveOnce'
      <3>1. \A k \in Jobs : job[k].kind = "live" => m \notin job[k].of
          BY <2>1 DEF SentInv, LiveOnce
      <3>2. stage'[m] = "queued" /\ \A k \in Incoming : k # m => stage'[k] = stage[k]
          BY <2>1 DEF TypeOK
      <3> QED
          BY <2>2, <3>1, <3>2 DEF SentInv, LiveOnce
  <2> QED
      BY <2>3, <2>4, <2>5 DEF SentInv
<1> QED
    BY <1>1, <1>2, <1>3

LEMMA HistoryKeepsSent ==
    ASSUME TypeOK, SentInv, NEW M \in SUBSET Messages, HistoryArrives(M)
    PROVE  SentInv'
<1>1. UNCHANGED <<wa, stage, row, change, revoke, echo>> /\ \A m \in M : wa[m] # "unsent"
    BY DEF HistoryArrives, data
<1>2. PICK n \in Jobs : /\ job'[n].kind = "history" /\ job'[n].of = M
                        /\ \A k \in Jobs : k # n => job'[k] = job[k]
    BY ChainKeepsJobs, HistoryContent DEF HistoryArrives, Kinds
<1> QED
    BY <1>1, <1>2 DEF SentInv, StageKnown, OnlyOfSent, LiveOnce, ChangesKnown

\* A step about one message that has been sent.
LEMMA SentGoesOn ==
    ASSUME TypeOK, SentInv, NEW m \in Messages, wa[m] # "unsent", (wa[m] # "unsent")',
           UNCHANGED <<stage, job, echo>>,
           \A k \in Messages : k # m => wa'[k] = wa[k] /\ row'[k] = row[k],
           \A k \in Changed : k # m => change'[k] = change[k]
    PROVE  StageKnown' /\ OnlyOfSent' /\ LiveOnce'
<1>0. \A k \in Messages : (wa[k] = "unsent") <=> (wa'[k] = "unsent")
    OBVIOUS
<1>1. StageKnown' /\ LiveOnce'
    BY <1>0 DEF SentInv, StageKnown, LiveOnce, Incoming
<1>2. \A n \in Jobs : \A k \in job[n].of : wa'[k] # "unsent"
    BY <1>0, JobFields DEF SentInv, OnlyOfSent, TypeOK
<1>3. \A k \in Messages : row'[k].stored => wa'[k] # "unsent"
    BY <1>0 DEF SentInv, OnlyOfSent
<1>4. \A k \in Changed : \A who \in Changes : change'[k][who].at # "none" => wa'[k] # "unsent"
    BY <1>0, MessagesAssumption DEF SentInv, OnlyOfSent
<1>5. \A k \in Outgoing : echo[k].at # "none" => wa'[k] # "unsent"
    BY <1>0, MessagesAssumption DEF SentInv, OnlyOfSent
<1> QED
    BY <1>1, <1>2, <1>3, <1>4, <1>5 DEF OnlyOfSent

LEMMA ChangeKeepsSent ==
    ASSUME TypeOK, SentInv, NEW m \in Changed, ChangeNext(m)
    PROVE  SentInv'
<1>0. UNCHANGED <<stage, job, echo>> /\ m \in Messages
    BY MessagesAssumption DEF ChangeNext, ChangeArrives, ChangeReads, ChangeSaves, RevokeArrives,
       RevokeUpdates
<1>1. ASSUME NEW who \in Changes, NEW c \in ChangeStates, ChangeBecomes(m, who, c), c.at # "none",
             UNCHANGED revoke, wa[m] # "unsent",
             \/ wa' = wa /\ (who = "edit" => change[m][who].at # "none")
             \/ wa[m] \in {"text", "edited"} /\ wa' = [wa EXCEPT ![m] = "edited"],
             \A k \in Messages : k # m => row'[k] = row[k]
      PROVE  SentInv'
  <2>1. /\ change'[m][who] = c
        /\ \A w \in Changes \ {who} : change'[m][w] = change[m][w]
        /\ \A k \in Changed \ {m} : change'[k] = change[k]
      BY <1>1, ChangeBecomesTyped
  <2>2. wa'[m] # "unsent" /\ \A k \in Messages : k # m => wa'[k] = wa[k]
      BY <1>0, <1>1 DEF TypeOK
  <2>3. StageKnown' /\ OnlyOfSent' /\ LiveOnce'
      BY <1>0, <1>1, <2>1, <2>2, SentGoesOn
  <2>4. ASSUME NEW k \in Messages
        PROVE  (/\ k \in Changed => (wa[k] = "revoked" <=> revoke[k] # "none")
                /\ k \in Changed /\ wa[k] = "text" => change[k]["edit"].at = "none"
                /\ k \notin Changed => wa[k] \in {"unsent", "text"})'
      <3>1. CASE k # m
          BY <1>1, <2>1, <2>2, <3>1 DEF SentInv, ChangesKnown
      <3>2. CASE k = m /\ wa' = wa /\ who # "edit"
          BY <1>1, <2>1, <3>2 DEF SentInv, ChangesKnown, Changes
      <3>3. CASE k = m /\ wa' = wa /\ change[m][who].at # "none" /\ who = "edit"
        <4>1. change[m]["edit"].at # "none"
            BY <3>3
        <4>2. wa[m] # "text" /\ (wa[m] = "revoked" <=> revoke[m] # "none")
            BY <1>0, <4>1 DEF SentInv, ChangesKnown
        <4> QED
            BY <1>1, <3>3, <4>2
      <3>4. CASE k = m /\ wa' = [wa EXCEPT ![m] = "edited"] /\ wa[m] \in {"text", "edited"}
          BY <1>0, <1>1, <3>4 DEF SentInv, ChangesKnown, TypeOK
      <3> QED
          BY <1>1, <3>1, <3>2, <3>3, <3>4
  <2>5. ChangesKnown'
      BY <2>4 DEF ChangesKnown
  <2> QED
      BY <2>3, <2>5 DEF SentInv
<1>2. ASSUME NEW who \in Changes, ChangeArrives(m, who)
      PROVE  SentInv'
  <2>1. [at |-> "asked", copy |-> NoRow] \in ChangeStates
      BY NoRowTyped DEF ChangeStates
  <2> QED
      BY <1>1, <1>2, <2>1 DEF ChangeArrives, Edits, data
<1>3. ASSUME NEW who \in Changes, ChangeReads(m, who)
      PROVE  SentInv'
  <2>1. \A at \in {"holding", "done"} : \A r \in Rows : [at |-> at, copy |-> r] \in ChangeStates
      BY DEF ChangeStates
  <2>2. wa[m] # "unsent" /\ row[m] \in Rows
      BY <1>0, <1>3 DEF ChangeReads, SentInv, OnlyOfSent, TypeOK
  <2>3. CASE row[m].stored
      BY <1>1, <1>3, <2>1, <2>2, <2>3 DEF ChangeReads, data
  <2>4. CASE ~ row[m].stored
      BY <1>1, <1>3, <2>1, <2>2, <2>4, NoRowTyped DEF ChangeReads, data
  <2> QED
      BY <2>3, <2>4
<1>4. ASSUME NEW who \in Changes, ChangeSaves(m, who)
      PROVE  SentInv'
  <2>1. [at |-> "done", copy |-> NoRow] \in ChangeStates
      BY NoRowTyped DEF ChangeStates
  <2>2. wa[m] # "unsent"
      BY <1>4 DEF ChangeSaves, SentInv, OnlyOfSent
  <2>3. \A k \in Messages : k # m => row'[k] = row[k]
      BY <1>4 DEF ChangeSaves, TypeOK
  <2> QED
      BY <1>1, <1>4, <2>1, <2>2, <2>3 DEF ChangeSaves
<1>5. CASE RevokeArrives(m)
  <2>1. wa' = [wa EXCEPT ![m] = "revoked"] /\ revoke' = [revoke EXCEPT ![m] = "asked"]
        /\ wa[m] \in {"text", "edited"} /\ UNCHANGED <<change, row>>
      BY <1>5 DEF RevokeArrives, data
  <2>2. StageKnown' /\ OnlyOfSent' /\ LiveOnce'
      BY <1>0, <2>1, SentGoesOn DEF TypeOK
  <2>3. ChangesKnown'
      BY <1>0, <2>1 DEF SentInv, ChangesKnown, TypeOK
  <2> QED
      BY <2>2, <2>3 DEF SentInv
<1>6. CASE RevokeUpdates(m)
  <2>1. revoke' = [revoke EXCEPT ![m] = "done"] /\ revoke[m] = "asked" /\ UNCHANGED <<wa, change>>
      BY <1>6 DEF RevokeUpdates
  <2>2. wa[m] # "unsent" /\ \A k \in Messages : k # m => row'[k] = row[k]
      BY <1>0, <1>6, <2>1 DEF SentInv, ChangesKnown, RevokeUpdates, TypeOK
  <2>3. StageKnown' /\ OnlyOfSent' /\ LiveOnce'
      BY <1>0, <2>1, <2>2, SentGoesOn
  <2>4. ChangesKnown'
      BY <1>0, <2>1 DEF SentInv, ChangesKnown, TypeOK
  <2> QED
      BY <2>3, <2>4 DEF SentInv
<1> QED
    BY <1>2, <1>3, <1>4, <1>5, <1>6 DEF ChangeNext

LEMMA EchoKeepsSent ==
    ASSUME TypeOK, SentInv, NEW m \in Outgoing, EchoNext(m)
    PROVE  SentInv'
<1>0. UNCHANGED <<stage, job, change, revoke>> /\ m \in Messages
    BY MessagesAssumption DEF EchoNext, EchoArrives, EchoHook, EchoReads, EchoSaves, EchoReadsChat,
       EchoCounts
<1>1. echo' \in [Outgoing -> EchoStates] /\ \A k \in Outgoing \ {m} : echo'[k] = echo[k]
    BY EchoStep, EchoBecomesTyped
<1>2. \A k \in Messages : k # m => row'[k] = row[k]
    BY DEF EchoNext, EchoArrives, EchoHook, EchoReads, EchoSaves, EchoReadsChat, EchoCounts, TypeOK, data
<1>3. CASE wa[m] # "unsent" /\ wa' = wa
  <2>1. \A k \in Messages : row'[k].stored => wa[k] # "unsent"
      BY <1>2, <1>3 DEF SentInv, OnlyOfSent
  <2>2. OnlyOfSent'
      BY <1>0, <1>1, <1>3, <2>1 DEF SentInv, OnlyOfSent
  <2> QED
      BY <1>0, <1>3, <2>2 DEF SentInv, StageKnown, LiveOnce, ChangesKnown
<1>4. CASE wa[m] = "unsent" /\ wa' = [wa EXCEPT ![m] = "text"] /\ row' = row
  <2>1. wa'[m] = "text" /\ \A k \in Messages : k # m => wa'[k] = wa[k]
      BY <1>0, <1>4 DEF TypeOK
  <2>2. m \notin Incoming
      BY DEF Incoming
  <2>3. StageKnown' /\ LiveOnce'
      BY <1>0, <2>1, <2>2 DEF SentInv, StageKnown, LiveOnce, Incoming
  <2>4. \A k \in Messages : wa[k] # "unsent" => wa'[k] # "unsent"
      BY <2>1
  <2>5. OnlyOfSent'
      <3>1. \A n \in Jobs : \A k \in job[n].of : wa'[k] # "unsent"
          BY <2>4, JobFields DEF SentInv, OnlyOfSent, TypeOK
      <3>2. \A k \in Outgoing : echo'[k].at # "none" => wa'[k] # "unsent"
          BY <1>1, <2>1, <2>4, MessagesAssumption DEF SentInv, OnlyOfSent
      <3>3. \A k \in Changed : \A who \in Changes : change[k][who].at # "none" => wa'[k] # "unsent"
          BY <2>4, MessagesAssumption DEF SentInv, OnlyOfSent
      <3> QED
          BY <1>0, <1>4, <2>4, <3>1, <3>2, <3>3 DEF SentInv, OnlyOfSent
  <2>6. ChangesKnown'
      <3>1. ASSUME m \in Changed
            PROVE  revoke[m] = "none" /\ change[m]["edit"].at = "none"
        <4>1. revoke[m] = "none"
            BY <1>0, <1>4, <3>1 DEF SentInv, ChangesKnown
        <4>2. "edit" \in Changes
            BY DEF Changes
        <4> QED
            BY <1>4, <3>1, <4>1, <4>2 DEF SentInv, OnlyOfSent
      <3> QED
          BY <1>0, <2>1, <3>1 DEF SentInv, ChangesKnown
  <2> QED
      BY <2>3, <2>5, <2>6 DEF SentInv
<1>5. \/ wa[m] # "unsent" /\ wa' = wa
      \/ wa[m] = "unsent" /\ wa' = [wa EXCEPT ![m] = "text"] /\ row' = row
  <2>1. CASE EchoArrives(m)
      BY <2>1 DEF EchoArrives, data
  <2>2. CASE ~ EchoArrives(m)
    <3>1. echo[m].at # "none" /\ wa' = wa
        BY <2>2 DEF EchoNext, EchoHook, EchoReads, EchoSaves, EchoReadsChat, EchoCounts
    <3>2. wa[m] # "unsent"
        BY <3>1 DEF SentInv, OnlyOfSent
    <3> QED
        BY <3>1, <3>2
  <2> QED
      BY <2>1, <2>2
<1> QED
    BY <1>3, <1>4, <1>5

LEMMA StepKeepsSent ==
    ASSUME TypeOK, SentInv, [Next]_vars
    PROVE  SentInv'
<1>1. ASSUME UNCHANGED <<wa, stage, job, row, change, revoke, echo>> PROVE SentInv'
    BY <1>1 DEF SentInv, StageKnown, OnlyOfSent, LiveOnce, ChangesKnown
<1>2. CASE UNCHANGED vars
    BY <1>1, <1>2 DEF vars, data
<1>3. CASE ChatNext
    BY <1>1, <1>3 DEF ChatNext, RefreshFetches, RefreshReads, RefreshSaves, SeenAsked, SeenUpdates, data
<1> QED
    BY <1>2, <1>3, JobStepKeepsSent, ArrivalKeepsSent, HistoryKeepsSent, ChangeKeepsSent, EchoKeepsSent
       DEF Next

-----------------------------------------------------------------------------
(* What is stored stays stored *)

\* A change that is applied has found its row.
ChangedIsStored ==
    \A m \in Changed : \A who \in Changes : change[m][who].at = "holding" =>
        change[m][who].copy.stored /\ row[m].stored

\* While a live job saves, nobody else stores its message.
LiveIsFirst ==
    \A n \in Jobs : job[n].kind = "live" /\ job[n].at = "saving" =>
        \A m \in job[n].of : row[m].stored => job[n].rows[m].stored

StoredInv == ChangedIsStored /\ LiveIsFirst /\ LiveNeverClashes

\* A step that stores nothing and touches neither the jobs nor the changes.
LEMMA StoredStays ==
    ASSUME TypeOK, LiveOnce, StoredInv, UNCHANGED <<job, change>>,
           \A m \in Messages : row[m].stored => row'[m].stored,
           \A m \in Incoming : row'[m].stored => row[m].stored
    PROVE  StoredInv'
<1>1. ChangedIsStored'
    BY MessagesAssumption DEF StoredInv, ChangedIsStored
<1>2. LiveIsFirst'
    BY DEF StoredInv, LiveIsFirst, LiveOnce, Incoming
<1> QED
    BY <1>1, <1>2 DEF StoredInv, LiveNeverClashes

LEMMA JobStepKeepsStored ==
    ASSUME TypeOK, OneJobAtATime, StoredInv, NEW n \in Jobs, JobNext(n)
    PROVE  StoredInv'
<1>0. change' = change /\ job[n] \in JobStates
    BY DEF TypeOK, JobNext, JobReads, JobSaves, JobRejected, JobReadsChat, JobCounts, JobSkipsChat,
       JobEnds
<1>1. PICK j \in JobStates : JobGoesOn(n, j)
    BY JobStep
<1>2. /\ job'[n] = j /\ j.kind = job[n].kind /\ j.of = job[n].of
      /\ \A k \in Jobs \ {n} : job'[k] = job[k]
    BY <1>1, JobBecomesTyped DEF JobGoesOn
<1>3. CASE JobSaves(n)
  <2>1. job'[n].at = "stored" /\ job'[n].clashed = job[n].clashed
      BY <1>0, <1>3 DEF JobSaves, JobBecomes, TypeOK, JobStates
  <2>2. \A k \in Jobs : job'[k].at # "saving"
      BY <1>2, <1>3, <2>1 DEF OneJobAtATime, Running, Held, JobSaves
  <2>3. \A m \in Messages : row[m].stored => row'[m].stored
    <3>1. ASSUME NEW m \in Messages
          PROVE  row[m].stored => row'[m].stored
      <4>1. row'[m] = row[m] \/ row'[m] = Merged(job[n].rows[m], job[n].content[m])
          BY <1>3 DEF JobSaves
      <4>2. Merged(job[n].rows[m], job[n].content[m]).stored
          BY <1>0, RowsStayTyped, JobFields
      <4> QED
          BY <4>1, <4>2
    <3> QED
        BY <3>1
  <2>4. ChangedIsStored' /\ LiveIsFirst'
      BY <1>0, <2>2, <2>3, MessagesAssumption DEF StoredInv, ChangedIsStored, LiveIsFirst
  <2>5. LiveNeverClashes'
      BY <1>2, <2>1 DEF StoredInv, LiveNeverClashes
  <2> QED
      BY <2>4, <2>5 DEF StoredInv
<1>4. CASE row' = row /\ (j.at = "saving" => \A m \in j.of : j.rows[m] = row[m])
           /\ (j.kind = "live" => ~ j.clashed)
    BY <1>0, <1>2, <1>4 DEF StoredInv, ChangedIsStored, LiveIsFirst, LiveNeverClashes
<1>5. CASE JobReads(n)
  <2> DEFINE rows == [m \in Messages |-> IF m \in job[n].of THEN row[m] ELSE NoRow]
  <2>1. j.rows = rows /\ j.clashed = job[n].clashed
      BY <1>0, <1>2, <1>5 DEF JobReads, JobBecomes, TypeOK, JobStates
  <2>2. \A m \in j.of : rows[m] = row[m]
      BY <1>0, <1>2, JobFields
  <2> QED
      BY <1>2, <1>4, <1>5, <2>1, <2>2 DEF JobReads, data, StoredInv, LiveNeverClashes
<1>6. CASE JobRejected(n)
  <2>1. j.at = "rejected" /\ j.clashed = JobClashes(n) /\ job[n].at = "saving"
      BY <1>0, <1>2, <1>6 DEF JobRejected, JobBecomes, TypeOK, JobStates
  <2>2. job[n].kind = "live" => ~ JobClashes(n)
      BY <2>1 DEF StoredInv, LiveIsFirst, JobClashes
  <2> QED
      BY <1>2, <1>4, <1>6, <2>1, <2>2 DEF JobRejected, data
<1>7. CASE JobReadsChat(n) \/ JobCounts(n) \/ JobSkipsChat(n) \/ JobEnds(n)
  <2>1. j.at \in {"counting", "fulfilled", "rejected"} /\ j.clashed = job[n].clashed
    <3>1. CASE JobReadsChat(n)
        BY <1>0, <1>2, <3>1 DEF JobReadsChat, JobBecomes, TypeOK, JobStates
    <3>2. CASE JobCounts(n)
        BY <1>0, <1>2, <3>2 DEF JobCounts, JobBecomes, TypeOK, JobStates
    <3>3. CASE JobSkipsChat(n)
        BY <1>0, <1>2, <3>3 DEF JobSkipsChat, JobBecomes, TypeOK, JobStates
    <3>4. CASE JobEnds(n)
        BY <1>0, <1>2, <3>4 DEF JobEnds, JobBecomes, TypeOK, JobStates, Settled
    <3> QED
        BY <1>7, <3>1, <3>2, <3>3, <3>4
  <2> QED
      BY <1>2, <1>4, <1>7, <2>1 DEF JobReadsChat, JobCounts, JobSkipsChat, JobEnds, data, StoredInv,
         LiveNeverClashes
<1> QED
    BY <1>3, <1>5, <1>6, <1>7 DEF JobNext

LEMMA ArrivalKeepsStored ==
    ASSUME TypeOK, StoredInv, UNCHANGED <<row, change>>, NEW kind \in Kinds,
           NEW of \in SUBSET Messages, NEW content \in [Messages -> Contents],
           Chain(kind, of, content)
    PROVE  StoredInv'
<1>1. PICK n \in Jobs : JobBecomes(n, NewJob(kind, of, content, tail))
    BY ChainTyped
<1> DEFINE j == NewJob(kind, of, content, tail)
<1>2. j \in JobStates
    BY NewJobTyped DEF TypeOK
<1>3. j.at = "waiting" /\ j.clashed = FALSE
    BY <1>2 DEF NewJob, NoJob
<1> HIDE DEF j
<1>4. job'[n] = j /\ \A k \in Jobs \ {n} : job'[k] = job[k]
    BY <1>1, <1>2, JobBecomesTyped DEF j
<1> QED
    BY <1>3, <1>4 DEF StoredInv, ChangedIsStored, LiveIsFirst, LiveNeverClashes

LEMMA ChangeKeepsStored ==
    ASSUME TypeOK, LiveOnce, StoredInv, NEW m \in Changed, ChangeNext(m)
    PROVE  StoredInv'
<1>0. job' = job /\ m \in Messages /\ row[m] \in Rows
    BY MessagesAssumption DEF TypeOK, ChangeNext, ChangeArrives, ChangeReads, ChangeSaves,
       RevokeArrives, RevokeUpdates
<1>1. ASSUME NEW who \in Changes, NEW c \in ChangeStates, ChangeBecomes(m, who, c),
             \A k \in Messages : row'[k].stored = row[k].stored,
             c.at = "holding" => c.copy.stored /\ row[m].stored
      PROVE  StoredInv'
  <2>1. /\ change'[m][who] = c
        /\ \A w \in Changes \ {who} : change'[m][w] = change[m][w]
        /\ \A k \in Changed \ {m} : change'[k] = change[k]
      BY <1>1, ChangeBecomesTyped
  <2>2. ChangedIsStored'
      BY <1>1, <2>1, MessagesAssumption DEF StoredInv, ChangedIsStored
  <2>3. LiveIsFirst'
      BY <1>0, <1>1, JobFields DEF StoredInv, LiveIsFirst, TypeOK
  <2> QED
      BY <1>0, <2>2, <2>3 DEF StoredInv, LiveNeverClashes
<1>2. ASSUME NEW who \in Changes, ChangeArrives(m, who)
      PROVE  StoredInv'
  <2>1. [at |-> "asked", copy |-> NoRow] \in ChangeStates
      BY NoRowTyped DEF ChangeStates
  <2> QED
      BY <1>1, <1>2, <2>1 DEF ChangeArrives, data
<1>3. ASSUME NEW who \in Changes, ChangeReads(m, who)
      PROVE  StoredInv'
  <2>1. \A at \in {"holding", "done"} : \A r \in Rows : [at |-> at, copy |-> r] \in ChangeStates
      BY DEF ChangeStates
  <2>2. row' = row
      BY <1>3 DEF ChangeReads, data
  <2>3. CASE row[m].stored
      BY <1>0, <1>1, <1>3, <2>1, <2>2, <2>3 DEF ChangeReads
  <2>4. CASE ~ row[m].stored
      BY <1>1, <1>3, <2>1, <2>2, <2>4, NoRowTyped DEF ChangeReads
  <2> QED
      BY <2>3, <2>4
<1>4. ASSUME NEW who \in Changes, ChangeSaves(m, who)
      PROVE  StoredInv'
  <2>1. [at |-> "done", copy |-> NoRow] \in ChangeStates
      BY NoRowTyped DEF ChangeStates
  <2>2. change[m][who].copy \in Rows /\ change[m][who].copy.stored /\ row[m].stored
      BY <1>4 DEF ChangeSaves, StoredInv, ChangedIsStored, TypeOK, ChangeStates
  <2>3. \A k \in Messages : row'[k] = IF k = m THEN Applied(change[m][who].copy, who) ELSE row[k]
      BY <1>0, <1>4 DEF ChangeSaves, TypeOK
  <2>4. Applied(change[m][who].copy, who).stored
      BY <2>2, RowsStayTyped
  <2>5. \A k \in Messages : row'[k].stored = row[k].stored
      BY <2>2, <2>3, <2>4 DEF TypeOK, Rows
  <2> QED
      BY <1>1, <1>4, <2>1, <2>5 DEF ChangeSaves
<1>5. CASE RevokeArrives(m)
    BY <1>0, <1>5, StoredStays DEF RevokeArrives, data
<1>6. CASE RevokeUpdates(m)
  <2>1. \A k \in Messages : row'[k] = row[k] \/ (k = m /\ row'[k] = Blanked(row[m]))
      BY <1>0, <1>6 DEF RevokeUpdates, TypeOK
  <2>2. \A k \in Messages : row'[k].stored = row[k].stored
      BY <1>0, <2>1, RowsStayTyped
  <2> QED
      BY <1>0, <1>6, <2>2, StoredStays DEF RevokeUpdates, Incoming
<1> QED
    BY <1>2, <1>3, <1>4, <1>5, <1>6 DEF ChangeNext

LEMMA EchoKeepsStored ==
    ASSUME TypeOK, LiveOnce, StoredInv, NEW m \in Outgoing, EchoNext(m)
    PROVE  StoredInv'
<1>0. UNCHANGED <<job, change>> /\ m \in Messages /\ m \notin Incoming
    BY MessagesAssumption DEF Incoming, EchoNext, EchoArrives, EchoHook, EchoReads, EchoSaves,
       EchoReadsChat, EchoCounts
<1>1. \A k \in Messages : row'[k] = row[k] \/ (k = m /\ row'[k] = Merged(echo[m].copy, "text"))
    BY <1>0 DEF EchoNext, EchoArrives, EchoHook, EchoReads, EchoSaves, EchoReadsChat, EchoCounts,
       TypeOK, data
<1>2. Merged(echo[m].copy, "text").stored
    BY RowsStayTyped, EchoFields DEF TypeOK, Contents
<1>3. \A k \in Messages : row[k].stored => row'[k].stored
    BY <1>1, <1>2
<1>4. \A k \in Incoming : row'[k].stored => row[k].stored
    BY <1>0, <1>1 DEF Incoming
<1> QED
    BY <1>0, <1>3, <1>4, StoredStays

LEMMA StepKeepsStored ==
    ASSUME TypeOK, QueueInv, SentInv, StoredInv, [Next]_vars
    PROVE  StoredInv'
<1>0. LiveOnce /\ OneJobAtATime
    BY QueueSerialises DEF SentInv
<1>1. ASSUME UNCHANGED <<job, row, change>> PROVE StoredInv'
    BY <1>0, <1>1, StoredStays
<1>2. CASE UNCHANGED vars
    BY <1>1, <1>2 DEF vars, data
<1>3. CASE ChatNext
    BY <1>1, <1>3 DEF ChatNext, RefreshFetches, RefreshReads, RefreshSaves, SeenAsked, SeenUpdates, data
<1>4. ASSUME NEW m \in Incoming, Arrives(m) \/ HookStops(m)
      PROVE  StoredInv'
    BY <1>1, <1>4 DEF Arrives, HookStops, data
<1>5. ASSUME NEW m \in Incoming, HookGoesOn(m)
      PROVE  StoredInv'
  <2>1. UNCHANGED <<row, change>> /\ Chain("live", {m}, NoContent) /\ {m} \in SUBSET Messages
        /\ "live" \in Kinds
      BY <1>5 DEF HookGoesOn, data, Kinds, Incoming
  <2>2. NoContent \in [Messages -> Contents]
      BY NoRowTyped
  <2> HIDE DEF NoContent
  <2> QED
      BY <2>1, <2>2, ArrivalKeepsStored
<1>6. ASSUME NEW M \in SUBSET Messages, HistoryArrives(M)
      PROVE  StoredInv'
    BY <1>6, ArrivalKeepsStored, HistoryContent DEF HistoryArrives, Kinds, data
<1> QED
    BY <1>0, <1>2, <1>3, <1>4, <1>5, <1>6, JobStepKeepsStored, ChangeKeepsStored, EchoKeepsStored
       DEF Next

-----------------------------------------------------------------------------
(* What a row shows *)

\* A copy somebody holds of row m is the row.
Fresh(m) ==
    /\ \A n \in Jobs : JobHolds(n, m) => job[n].rows[m] = row[m]
    /\ \A who \in Changes : ChangeHolds(m, who) => change[m][who].copy = row[m]
    /\ EchoHolds(m) => echo[m].copy = row[m]

\* An edit or a revocation of m has not got to its row yet.
TextPending(m) ==
    m \in Changed /\ (revoke[m] = "asked" \/ change[m]["edit"].at \in {"asked", "holding"})

\* r has the reactions that were handled, and the text, unless a change is to come.
Shows(r, m) ==
    IF r.stored
      THEN r.reactions = Reacted(m)
           /\ (TextPending(m) \/ (r.body = Body(wa[m]) /\ r.type = Type(wa[m])))
      ELSE r = NoRow /\ Reacted(m) = {}

RowInv == \A m \in Messages \ torn : Fresh(m) /\ Shows(row[m], m)

LEMMA RowInvIsEnough == TypeOK /\ RowInv => RowAgrees
<1> SUFFICES ASSUME TypeOK, RowInv, NEW m \in Messages \ torn, row[m].stored, ~ ChangePending(m)
             PROVE  row[m] = [stored |-> TRUE, body |-> Body(wa[m]), type |-> Type(wa[m]),
                              reactions |-> Reacted(m)]
    BY DEF RowAgrees
<1>1. ~ TextPending(m)
    BY DEF ChangePending, TextPending, Changes
<1>2. row[m].reactions = Reacted(m) /\ row[m].body = Body(wa[m]) /\ row[m].type = Type(wa[m])
    BY <1>1 DEF RowInv, Shows
<1>3. row[m] \in Rows
    BY DEF TypeOK
<1> QED
    BY <1>2, <1>3 DEF Rows

\* A message as it is now, merged into a good row, gives a good row.
LEMMA MergedShows ==
    ASSUME NEW m \in Messages, NEW r \in Rows, wa[m] \in Contents, Shows(r, m)
    PROVE  Shows(Merged(r, wa[m]), m)
<1> DEFINE p == Merged(r, wa[m])
<1>1. p.stored /\ p.reactions = r.reactions /\ p.type = Type(wa[m])
      /\ p.body = IF Body(wa[m]) = "" THEN r.body ELSE Body(wa[m])
    BY DEF Merged, Rows
<1>2. CASE r.stored
    BY <1>1, <1>2 DEF Shows
<1>3. CASE ~ r.stored
  <2>1. r = NoRow /\ Reacted(m) = {} /\ r.body = "" /\ r.reactions = {}
      BY <1>3, NoRowTyped DEF Shows
  <2> QED
      BY <1>1, <2>1 DEF Shows
<1> HIDE DEF p
<1> QED
    BY <1>2, <1>3 DEF p

\* A step that leaves row m alone and takes no copy but a true one.
LEMMA RowStays ==
    ASSUME TypeOK, NEW m \in Messages, Fresh(m), Shows(row[m], m),
           row'[m] = row[m], wa'[m] = wa[m],
           m \in Changed => change'[m] = change[m] /\ revoke'[m] = revoke[m],
           \A n \in Jobs : JobHolds(n, m)' =>
               job'[n].rows[m] = row[m] \/ (JobHolds(n, m) /\ job'[n].rows[m] = job[n].rows[m]),
           EchoHolds(m)' =>
               echo'[m].copy = row[m] \/ (EchoHolds(m) /\ echo'[m].copy = echo[m].copy)
    PROVE  Fresh(m)' /\ Shows(row[m], m)'
<1>1. Fresh(m)'
    BY DEF Fresh, ChangeHolds
<1>2. Reacted(m)' = Reacted(m) /\ (TextPending(m)' <=> TextPending(m))
    BY DEF Reacted, TextPending
<1> QED
    BY <1>1, <1>2 DEF Shows

LEMMA JobStepKeepsRows ==
    ASSUME TypeOK, RowInv, NEW n \in Jobs, JobNext(n)
    PROVE  RowInv'
<1>0. UNCHANGED <<wa, change, revoke, echo>> /\ job[n] \in JobStates /\ torn \subseteq torn'
    BY DEF TypeOK, JobNext, JobReads, JobSaves, JobRejected, JobReadsChat, JobCounts, JobSkipsChat,
       JobEnds, history
<1>1. PICK j \in JobStates : JobGoesOn(n, j)
    BY JobStep
<1>2. /\ job'[n] = j /\ j.of = job[n].of
      /\ \A k \in Jobs \ {n} : job'[k] = job[k]
    BY <1>1, JobBecomesTyped DEF JobGoesOn
<1> SUFFICES ASSUME NEW m \in Messages, m \notin torn'
             PROVE  Fresh(m)' /\ Shows(row[m], m)'
    BY DEF RowInv
<1>3. Fresh(m) /\ Shows(row[m], m)
    BY <1>0 DEF RowInv
<1>4. CASE row'[m] = row[m] /\ (j.at = "saving" => \A k \in j.of : j.rows[k] = row[k])
  <2>1. \A k \in Jobs : JobHolds(k, m)' =>
            job'[k].rows[m] = row[m] \/ (JobHolds(k, m) /\ job'[k].rows[m] = job[k].rows[m])
      BY <1>2, <1>4 DEF JobHolds
  <2> QED
      BY <1>0, <1>3, <1>4, <2>1, RowStays DEF EchoHolds
<1>5. CASE JobReads(n)
  <2> DEFINE rows == [k \in Messages |-> IF k \in job[n].of THEN row[k] ELSE NoRow]
  <2>1. j.rows = rows
      BY <1>0, <1>2, <1>5 DEF JobReads, JobBecomes, TypeOK, JobStates
  <2>2. \A k \in j.of : rows[k] = row[k]
      BY <1>0, <1>2, JobFields
  <2> QED
      BY <1>4, <1>5, <2>1, <2>2 DEF JobReads, data
<1>6. CASE JobSaves(n)
  <2>0. j.at = "stored" /\ job[n].at = "saving"
      BY <1>0, <1>2, <1>6 DEF JobSaves, JobBecomes, TypeOK, JobStates
  <2>1. CASE m \notin job[n].of
    <3>1. row'[m] = row[m]
        BY <1>6, <2>1 DEF JobSaves
    <3> QED
        BY <1>4, <2>0, <3>1
  <2>2. CASE m \in job[n].of
    <3>1. ~ RowHeld(m, <<"job", n>>) /\ job[n].content[m] = wa[m]
        BY <1>6, <2>2 DEF JobSaves
    <3>2. job[n].rows[m] = row[m]
        BY <1>3, <2>0, <2>2 DEF Fresh, JobHolds
    <3>3. row'[m] = Merged(row[m], wa[m])
        BY <1>6, <2>2, <3>1, <3>2 DEF JobSaves
    <3>4. \A k \in Jobs : k # n => ~ JobHolds(k, m)
        <4>1. \A k \in Jobs : k # n => <<"job", n>> # <<"job", k>>
            OBVIOUS
        <4> QED
            BY <3>1, <4>1 DEF RowHeld
    <3>5. \A who \in Changes : ~ ChangeHolds(m, who)
        <4>1. \A who \in Changes : <<"job", n>> # <<"change", who>>
            OBVIOUS
        <4> QED
            BY <3>1, <4>1 DEF RowHeld
    <3>6. ~ EchoHolds(m)
        <4>1. <<"job", n>> # <<"echo">>
            OBVIOUS
        <4> QED
            BY <3>1, <4>1 DEF RowHeld
    <3>7. Fresh(m)'
        BY <1>0, <1>2, <2>0, <3>4, <3>5, <3>6 DEF Fresh, JobHolds, ChangeHolds, EchoHolds
    <3>8. Shows(Merged(row[m], wa[m]), m)
        BY <1>0, <1>3, <3>1, MergedShows, JobFields DEF TypeOK
    <3>9. Reacted(m)' = Reacted(m) /\ (TextPending(m)' <=> TextPending(m))
        BY <1>0 DEF Reacted, TextPending
    <3>10. Shows(row[m], m)'
        BY <1>0, <3>3, <3>8, <3>9 DEF Shows
    <3> QED
        BY <3>7, <3>10
  <2> QED
      BY <2>1, <2>2
<1>7. CASE j.at # "saving" /\ row' = row
    BY <1>4, <1>7
<1>8. CASE JobRejected(n)
    BY <1>0, <1>2, <1>7, <1>8 DEF JobRejected, JobBecomes, TypeOK, JobStates, data
<1>9. CASE JobReadsChat(n)
    BY <1>0, <1>2, <1>7, <1>9 DEF JobReadsChat, JobBecomes, TypeOK, JobStates, data
<1>10. CASE JobCounts(n)
    BY <1>0, <1>2, <1>7, <1>10 DEF JobCounts, JobBecomes, TypeOK, JobStates
<1>11. CASE JobSkipsChat(n)
    BY <1>0, <1>2, <1>7, <1>11 DEF JobSkipsChat, JobBecomes, TypeOK, JobStates, data
<1>12. CASE JobEnds(n)
    BY <1>0, <1>2, <1>7, <1>12 DEF JobEnds, JobBecomes, TypeOK, JobStates, Settled, data
<1> QED
    BY <1>5, <1>6, <1>8, <1>9, <1>10, <1>11, <1>12 DEF JobNext

LEMMA ArrivalKeepsRows ==
    ASSUME TypeOK, SentInv, RowInv, NEW m \in Incoming, Arrives(m) \/ HookStops(m)
    PROVE  RowInv'
<1>0. UNCHANGED <<job, row, change, revoke, echo, torn>> /\ m \in Messages
    BY DEF Arrives, HookStops, data, history, Incoming
<1>1. ASSUME NEW k \in Messages \ torn, wa'[k] = wa[k]
      PROVE  Fresh(k)' /\ Shows(row[k], k)'
    BY <1>0, <1>1, RowStays DEF RowInv, JobHolds, EchoHolds
<1>2. CASE HookStops(m)
    BY <1>0, <1>1, <1>2 DEF HookStops, RowInv
<1>3. CASE Arrives(m)
  <2>1. wa[m] = "unsent" /\ \A k \in Messages : k # m => wa'[k] = wa[k]
      BY <1>0, <1>3 DEF Arrives, SentInv, StageKnown, TypeOK
  <2>2. ~ row[m].stored
      BY <1>0, <2>1 DEF SentInv, OnlyOfSent
  <2>3. ASSUME m \notin torn
        PROVE  Fresh(m)' /\ Shows(row[m], m)'
    <3>1. Fresh(m)'
        BY <1>0, <2>3 DEF RowInv, Fresh, JobHolds, ChangeHolds, EchoHolds
    <3>2. Reacted(m)' = Reacted(m)
        BY <1>0 DEF Reacted
    <3>3. Shows(row[m], m)'
        BY <1>0, <2>2, <2>3, <3>2 DEF RowInv, Shows
    <3> QED
        BY <3>1, <3>3
  <2> QED
      BY <1>0, <1>1, <2>1, <2>3 DEF RowInv
<1> QED
    BY <1>2, <1>3

LEMMA ChainKeepsRows ==
    ASSUME TypeOK, RowInv, UNCHANGED <<wa, row, change, revoke, echo, torn>>, NEW kind \in Kinds,
           NEW of \in SUBSET Messages, NEW content \in [Messages -> Contents],
           Chain(kind, of, content)
    PROVE  RowInv'
<1>1. PICK n \in Jobs : /\ job'[n].at = "waiting"
                        /\ \A k \in Jobs : k # n => job'[k] = job[k]
    BY ChainKeepsJobs
<1>2. ASSUME NEW m \in Messages \ torn
      PROVE  Fresh(m)' /\ Shows(row[m], m)'
  <2>1. \A k \in Jobs : JobHolds(k, m)' => JobHolds(k, m) /\ job'[k].rows[m] = job[k].rows[m]
      BY <1>1 DEF JobHolds
  <2> QED
      BY <2>1, RowStays DEF RowInv, EchoHolds
<1> QED
    BY <1>2 DEF RowInv

LEMMA ChangeKeepsRows ==
    ASSUME TypeOK, SentInv, StoredInv, RowInv, NEW m \in Changed, ChangeNext(m)
    PROVE  RowInv'
<1>0. UNCHANGED <<job, echo>> /\ torn \subseteq torn' /\ m \in Messages /\ row[m] \in Rows
    BY MessagesAssumption DEF TypeOK, ChangeNext, ChangeArrives, ChangeReads, ChangeSaves,
       RevokeArrives, RevokeUpdates, history
<1>1. \A k \in Messages : k # m =>
          row'[k] = row[k] /\ wa'[k] = wa[k] /\ (k \in Changed => revoke'[k] = revoke[k])
    BY <1>0 DEF TypeOK, ChangeNext, ChangeArrives, ChangeReads, ChangeSaves, RevokeArrives,
       RevokeUpdates, data
<1>2. \A k \in Changed : k # m => change'[k] = change[k]
  <2>1. ASSUME NEW who \in Changes, ChangeArrives(m, who) \/ ChangeReads(m, who) \/ ChangeSaves(m, who)
        PROVE  \E c : ChangeBecomes(m, who, c)
    <3>1. CASE ChangeArrives(m, who)
        BY <3>1 DEF ChangeArrives
    <3>2. CASE ChangeReads(m, who)
        BY <3>2 DEF ChangeReads
    <3>3. CASE ChangeSaves(m, who)
        BY <3>3 DEF ChangeSaves
    <3> QED
        BY <2>1, <3>1, <3>2, <3>3
  <2>2. CASE change' = change
      BY <2>2
  <2>3. ASSUME NEW who \in Changes, NEW c, ChangeBecomes(m, who, c)
        PROVE  \A k \in Changed : k # m => change'[k] = change[k]
      BY <2>3 DEF ChangeBecomes, TypeOK
  <2> QED
      BY <2>1, <2>2, <2>3 DEF ChangeNext, RevokeArrives, RevokeUpdates
<1>3. ASSUME NEW k \in Messages, k \notin torn', k # m
      PROVE  Fresh(k)' /\ Shows(row[k], k)'
  <2>1. k \notin torn /\ row'[k] = row[k] /\ wa'[k] = wa[k]
        /\ (k \in Changed => change'[k] = change[k] /\ revoke'[k] = revoke[k])
      BY <1>0, <1>1, <1>2, <1>3
  <2> QED
      BY <1>0, <2>1, RowStays DEF RowInv, JobHolds, EchoHolds
<1> SUFFICES ASSUME m \notin torn'
             PROVE  Fresh(m)' /\ Shows(row[m], m)'
    BY <1>3 DEF RowInv
<1>4. Fresh(m) /\ Shows(row[m], m)
    BY <1>0 DEF RowInv
<1>5. ASSUME NEW self, ~ RowHeld(m, self), \A n \in Jobs : self # <<"job", n>>, self # <<"echo">>
      PROVE  /\ \A n \in Jobs : ~ JobHolds(n, m)
             /\ \A w \in Changes : self # <<"change", w>> => ~ ChangeHolds(m, w)
             /\ ~ EchoHolds(m)
    BY <1>5 DEF RowHeld
<1>6. ASSUME NEW who \in Changes, ChangeArrives(m, who)
      PROVE  Fresh(m)' /\ Shows(row[m], m)'
  <2>1. [at |-> "asked", copy |-> NoRow] \in ChangeStates
      BY NoRowTyped DEF ChangeStates
  <2>2. /\ change'[m][who].at = "asked" /\ change[m][who].at = "none"
        /\ \A w \in Changes \ {who} : change'[m][w] = change[m][w]
        /\ row' = row /\ revoke' = revoke
      BY <1>6, <2>1, ChangeBecomesTyped DEF ChangeArrives, data
  <2>3. Fresh(m)'
      BY <1>0, <1>4, <2>2 DEF Fresh, JobHolds, ChangeHolds, EchoHolds
  <2>4. Reacted(m)' = Reacted(m)
      BY <2>2 DEF Reacted, Changes
  <2>5. CASE who = "edit"
    <3>1. TextPending(m)'
        BY <2>2, <2>5 DEF TextPending
    <3>2. row'[m] = row[m] /\ Shows(row[m], m)
        BY <1>4, <2>2
    <3>3. Shows(row[m], m)'
        BY <2>4, <3>1, <3>2 DEF Shows
    <3> QED
        BY <2>3, <3>3
  <2>6. CASE who # "edit"
    <3>1. wa' = wa /\ (TextPending(m)' <=> TextPending(m))
        BY <1>6, <2>2, <2>6 DEF ChangeArrives, Edits, TextPending, Changes
    <3>2. row'[m] = row[m] /\ Shows(row[m], m)
        BY <1>4, <2>2
    <3>3. Shows(row[m], m)'
        BY <2>4, <3>1, <3>2 DEF Shows
    <3> QED
        BY <2>3, <3>3
  <2> QED
      BY <2>5, <2>6
<1>7. ASSUME NEW who \in Changes, ChangeReads(m, who)
      PROVE  Fresh(m)' /\ Shows(row[m], m)'
  <2>1. row[m].stored
      BY <1>7 DEF ChangeReads
  <2>2. [at |-> "holding", copy |-> row[m]] \in ChangeStates
      BY <1>0 DEF ChangeStates
  <2>3. /\ change'[m][who] = [at |-> "holding", copy |-> row[m]] /\ change[m][who].at = "asked"
        /\ \A w \in Changes \ {who} : change'[m][w] = change[m][w]
        /\ UNCHANGED <<row, revoke, wa>>
      BY <1>7, <2>1, <2>2, ChangeBecomesTyped DEF ChangeReads, data
  <2>4. Fresh(m)'
      BY <1>0, <1>4, <2>3 DEF Fresh, JobHolds, ChangeHolds, EchoHolds
  <2>5. Reacted(m)' = Reacted(m)
    <3>1. change'[m][who].at = "holding"
        BY <2>3
    <3> QED
        BY <2>3, <3>1 DEF Reacted, Changes
  <2>6. TextPending(m)' <=> TextPending(m)
      BY <2>3 DEF TextPending, Changes
  <2> QED
      BY <1>4, <2>3, <2>4, <2>5, <2>6 DEF Shows
<1>8. ASSUME NEW who \in Changes, ChangeSaves(m, who)
      PROVE  Fresh(m)' /\ Shows(row[m], m)'
  <2>1. ~ RowHeld(m, <<"change", who>>) /\ (Edits(who) => wa[m] = "edited")
        /\ change[m][who].at = "holding"
      BY <1>8 DEF ChangeSaves
  <2>2. change[m][who].copy = row[m] /\ row[m].stored
      BY <1>4, <2>1 DEF Fresh, ChangeHolds, StoredInv, ChangedIsStored
  <2>3. [at |-> "done", copy |-> NoRow] \in ChangeStates
      BY NoRowTyped DEF ChangeStates
  <2>4. /\ change'[m][who].at = "done"
        /\ \A w \in Changes \ {who} : change'[m][w] = change[m][w]
        /\ UNCHANGED <<revoke, wa>>
      BY <1>8, <2>3, ChangeBecomesTyped DEF ChangeSaves
  <2>5. row'[m] = Applied(row[m], who)
      BY <1>0, <1>8, <2>2 DEF ChangeSaves, TypeOK
  <2>6. /\ \A n \in Jobs : ~ JobHolds(n, m)
        /\ \A w \in Changes \ {who} : ~ ChangeHolds(m, w)
        /\ ~ EchoHolds(m)
    <3>1. \A n \in Jobs : <<"change", who>> # <<"job", n>>
        OBVIOUS
    <3>2. <<"change", who>> # <<"echo">>
        OBVIOUS
    <3>3. \A w \in Changes \ {who} : <<"change", who>> # <<"change", w>>
        OBVIOUS
    <3> QED
        BY <2>1, <3>1, <3>2, <3>3 DEF RowHeld
  <2>7. Fresh(m)'
      BY <1>0, <2>4, <2>6 DEF Fresh, JobHolds, ChangeHolds, EchoHolds
  <2>8. CASE who = "edit"
    <3>1. row'[m].body = "edited" /\ row'[m].type = "text" /\ row'[m].stored
          /\ row'[m].reactions = row[m].reactions
        BY <1>0, <2>2, <2>5, <2>8 DEF Applied, Edits, Rows
    <3>2. Reacted(m)' = Reacted(m)
        BY <2>4, <2>8, BoundsAssumption DEF Reacted, Changes
    <3>3. wa'[m] = "edited"
        BY <2>1, <2>4, <2>8 DEF Edits
    <3> QED
        BY <1>4, <2>2, <2>7, <3>1, <3>2, <3>3 DEF Shows, Body, Type
  <2>9. CASE who # "edit"
    <3>1. row'[m].body = row[m].body /\ row'[m].type = row[m].type /\ row'[m].stored
          /\ row'[m].reactions = row[m].reactions \cup {who}
        BY <1>0, <2>2, <2>5, <2>9 DEF Applied, Edits, Rows
    <3>2. Reacted(m)' = Reacted(m) \cup {who}
        BY <2>4, <2>9 DEF Reacted, Changes
    <3>3. TextPending(m)' <=> TextPending(m)
        BY <2>4, <2>9 DEF TextPending, Changes
    <3> QED
        BY <1>4, <2>2, <2>4, <2>7, <3>1, <3>2, <3>3 DEF Shows
  <2> QED
      BY <2>8, <2>9
<1>9. CASE RevokeArrives(m)
  <2>1. revoke'[m] = "asked" /\ UNCHANGED <<row, change>>
      BY <1>9 DEF RevokeArrives, data, TypeOK
  <2>2. Fresh(m)'
      BY <1>0, <1>4, <2>1 DEF Fresh, JobHolds, ChangeHolds, EchoHolds
  <2>3. Reacted(m)' = Reacted(m) /\ TextPending(m)'
      BY <2>1 DEF Reacted, TextPending
  <2> QED
      BY <1>4, <2>1, <2>2, <2>3 DEF Shows
<1>10. CASE RevokeUpdates(m)
  <2>1. row[m].stored /\ ~ RowHeld(m, <<"revoke">>) /\ UNCHANGED <<wa, change>>
      BY <1>10 DEF RevokeUpdates
  <2>2. row'[m] = Blanked(row[m]) /\ wa'[m] = "revoked"
      BY <1>0, <1>10, <2>1 DEF RevokeUpdates, TypeOK, SentInv, ChangesKnown
  <2>3. row'[m].stored /\ row'[m].body = "" /\ row'[m].type = "revoked"
        /\ row'[m].reactions = row[m].reactions
      BY <1>0, <2>1, <2>2 DEF Blanked, Rows
  <2>4. /\ \A n \in Jobs : ~ JobHolds(n, m)
        /\ \A w \in Changes : ~ ChangeHolds(m, w)
        /\ ~ EchoHolds(m)
    <3>1. \A n \in Jobs : <<"revoke">> # <<"job", n>>
        OBVIOUS
    <3>2. <<"revoke">> # <<"echo">>
        OBVIOUS
    <3>3. \A w \in Changes : <<"revoke">> # <<"change", w>>
        OBVIOUS
    <3> QED
        BY <2>1, <3>1, <3>2, <3>3 DEF RowHeld
  <2>5. Fresh(m)'
      BY <1>0, <2>1, <2>4 DEF Fresh, JobHolds, ChangeHolds, EchoHolds
  <2>6. Reacted(m)' = Reacted(m)
      BY <2>1 DEF Reacted
  <2> QED
      BY <1>4, <2>1, <2>2, <2>3, <2>5, <2>6 DEF Shows, Body, Type
<1> QED
    BY <1>6, <1>7, <1>8, <1>9, <1>10 DEF ChangeNext

LEMMA EchoKeepsRows ==
    ASSUME TypeOK, SentInv, RowInv, NEW m \in Outgoing, EchoNext(m)
    PROVE  RowInv'
<1>0. UNCHANGED <<job, change, revoke>> /\ torn \subseteq torn' /\ m \in Messages
      /\ echo[m] \in EchoStates
    BY MessagesAssumption DEF TypeOK, EchoNext, EchoArrives, EchoHook, EchoReads, EchoSaves,
       EchoReadsChat, EchoCounts, history
<1>1. PICK e \in EchoStates : EchoBecomes(m, e)
    BY EchoStep
<1>2. echo'[m] = e /\ \A k \in Outgoing \ {m} : echo'[k] = echo[k]
    BY <1>1, EchoBecomesTyped
<1>3. \A k \in Messages : k # m => row'[k] = row[k] /\ wa'[k] = wa[k]
    BY <1>0 DEF TypeOK, EchoNext, EchoArrives, EchoHook, EchoReads, EchoSaves, EchoReadsChat,
       EchoCounts, data
<1>4. ASSUME NEW k \in Messages, k \notin torn', k # m
      PROVE  Fresh(k)' /\ Shows(row[k], k)'
    BY <1>0, <1>2, <1>3, <1>4, RowStays DEF RowInv, JobHolds, EchoHolds
<1> SUFFICES ASSUME m \notin torn'
             PROVE  Fresh(m)' /\ Shows(row[m], m)'
    BY <1>4 DEF RowInv
<1>5. Fresh(m) /\ Shows(row[m], m)
    BY <1>0 DEF RowInv
<1>6. CASE row'[m] = row[m] /\ wa'[m] = wa[m]
           /\ (e.at = "saving" => e.copy = row[m] \/ (echo[m].at = "saving" /\ e.copy = echo[m].copy))
    BY <1>0, <1>2, <1>5, <1>6, RowStays DEF JobHolds, EchoHolds
<1>7. CASE EchoArrives(m)
  <2>1. e.at = "hook" /\ wa[m] = "unsent" /\ row' = row
      BY <1>0, <1>2, <1>7 DEF EchoArrives, EchoBecomes, TypeOK, EchoStates, data
  <2>2. ~ row[m].stored
      BY <1>0, <2>1 DEF SentInv, OnlyOfSent
  <2>3. Fresh(m)'
      BY <1>0, <1>2, <1>5, <2>1 DEF Fresh, JobHolds, ChangeHolds, EchoHolds
  <2>4. Reacted(m)' = Reacted(m)
      BY <1>0 DEF Reacted
  <2> QED
      BY <1>5, <2>1, <2>2, <2>3, <2>4 DEF Shows
<1>8. CASE EchoHook(m)
  <2>1. e.at \in {"done", "reading"}
      BY <1>0, <1>2, <1>8 DEF EchoHook, EchoBecomes, TypeOK, EchoStates
  <2> QED
      BY <1>6, <1>8, <2>1 DEF EchoHook, data
<1>9. CASE EchoReads(m)
  <2>1. e.copy = row[m]
      BY <1>0, <1>2, <1>9 DEF EchoReads, EchoBecomes, TypeOK, EchoStates
  <2> QED
      BY <1>6, <1>9, <2>1 DEF EchoReads, data
<1>10. CASE EchoSaves(m)
  <2>1. e.at # "saving" /\ echo[m].at = "saving" /\ wa' = wa
    <3>1. ASSUME NEW at \in {"stored", "done"}, echo' = [echo EXCEPT ![m] = [echo[m] EXCEPT !.at = at, !.copy = NoRow]]
          PROVE  e.at # "saving"
        BY <1>0, <1>2, <3>1 DEF TypeOK, EchoStates
    <3>2. e.at # "saving"
        BY <1>10, <3>1 DEF EchoSaves, EchoBecomes
    <3> QED
        BY <1>10, <3>2 DEF EchoSaves
  <2>2. CASE row' = row
      BY <1>6, <2>1, <2>2
  <2>3. CASE row' # row
    <3>1. ~ RowHeld(m, <<"echo">>) /\ wa[m] = "text"
          /\ row' = [row EXCEPT ![m] = Merged(echo[m].copy, "text")]
        BY <1>10, <2>3 DEF EchoSaves
    <3>2. echo[m].copy = row[m]
        BY <1>5, <2>1 DEF Fresh, EchoHolds
    <3>3. row'[m] = Merged(row[m], wa[m])
        BY <1>0, <3>1, <3>2 DEF TypeOK
    <3>4. /\ \A n \in Jobs : ~ JobHolds(n, m)
          /\ \A w \in Changes : ~ ChangeHolds(m, w)
      <4>1. \A n \in Jobs : <<"echo">> # <<"job", n>>
          OBVIOUS
      <4>2. \A w \in Changes : <<"echo">> # <<"change", w>>
          OBVIOUS
      <4> QED
          BY <3>1, <4>1, <4>2 DEF RowHeld
    <3>5. Fresh(m)'
        BY <1>0, <1>2, <2>1, <3>4 DEF Fresh, JobHolds, ChangeHolds, EchoHolds
    <3>6. Shows(Merged(row[m], wa[m]), m)
        BY <1>0, <1>5, <3>1, MergedShows DEF TypeOK, Contents
    <3>7. Reacted(m)' = Reacted(m) /\ (TextPending(m)' <=> TextPending(m))
        BY <1>0 DEF Reacted, TextPending
    <3>8. Shows(row[m], m)'
        BY <2>1, <3>3, <3>6, <3>7 DEF Shows
    <3> QED
        BY <3>5, <3>8
  <2> QED
      BY <2>2, <2>3
<1>11. CASE EchoReadsChat(m)
  <2>1. e.at = "counting"
      BY <1>0, <1>2, <1>11 DEF EchoReadsChat, EchoBecomes, TypeOK, EchoStates
  <2> QED
      BY <1>6, <1>11, <2>1 DEF EchoReadsChat, data
<1>12. CASE EchoCounts(m)
  <2>1. e.at = "done"
      BY <1>0, <1>2, <1>12 DEF EchoCounts, EchoBecomes, TypeOK, EchoStates
  <2> QED
      BY <1>6, <1>12, <2>1 DEF EchoCounts
<1> QED
    BY <1>7, <1>8, <1>9, <1>10, <1>11, <1>12 DEF EchoNext

LEMMA StepKeepsRows ==
    ASSUME TypeOK, SentInv, StoredInv, RowInv, [Next]_vars
    PROVE  RowInv'
<1>1. ASSUME UNCHANGED <<wa, job, row, change, revoke, echo, torn>> PROVE RowInv'
  <2>1. ASSUME NEW m \in Messages \ torn
        PROVE  Fresh(m)' /\ Shows(row[m], m)'
      BY <1>1, RowStays DEF RowInv, JobHolds, EchoHolds
  <2> QED
      BY <1>1, <2>1 DEF RowInv
<1>2. CASE UNCHANGED vars
    BY <1>1, <1>2 DEF vars, data, history
<1>3. CASE ChatNext
    BY <1>1, <1>3 DEF ChatNext, RefreshFetches, RefreshReads, RefreshSaves, SeenAsked, SeenUpdates,
       data, history
<1>4. ASSUME NEW m \in Incoming, HookGoesOn(m)
      PROVE  RowInv'
  <2>1. UNCHANGED <<wa, row, change, revoke, echo, torn>> /\ Chain("live", {m}, NoContent)
        /\ {m} \in SUBSET Messages /\ "live" \in Kinds
      BY <1>4 DEF HookGoesOn, data, history, Kinds, Incoming
  <2>2. NoContent \in [Messages -> Contents]
      BY NoRowTyped
  <2> HIDE DEF NoContent
  <2> QED
      BY <2>1, <2>2, ChainKeepsRows
<1>5. ASSUME NEW M \in SUBSET Messages, HistoryArrives(M)
      PROVE  RowInv'
    BY <1>5, ChainKeepsRows, HistoryContent DEF HistoryArrives, Kinds, data, history
<1> QED
    BY <1>2, <1>3, <1>4, <1>5, JobStepKeepsRows, ArrivalKeepsRows, ChangeKeepsRows, EchoKeepsRows
       DEF Next

-----------------------------------------------------------------------------
(* What the snapshot counts *)

\* Whoever adds to the snapshot has read it as it is.
ChatCopies ==
    /\ \A n \in Jobs : job[n].at = "counting" => job[n].chat = chat
    /\ \A m \in Outgoing : echo[m].at = "counting" => echo[m].chat = chat

\* What is counted has been handled, so nobody counts it again.
OwedOnce ==
    /\ owed \subseteq Incoming
    /\ \A m \in owed : stage[m] \notin {"unsent", "hook"}
    /\ \A n \in Jobs : job[n].kind = "live" /\ job[n].of \cap owed # {}
           => job[n].at \in {"none"} \cup Settled

ChatInv ==
    /\ refresh.of \subseteq Unopened
    /\ ~ tornChat => chat.unread = Cardinality(owed) /\ ChatCopies /\ OwedOnce

LEMMA JobStepKeepsChat ==
    ASSUME TypeOK, QueueInv, SentInv, ChatInv, NEW n \in Jobs, JobNext(n)
    PROVE  ChatInv'
<1>0. /\ UNCHANGED <<wa, echo, refresh>>
      /\ job[n] \in JobStates /\ chat \in Chats
    BY DEF TypeOK, JobNext, JobReads, JobSaves, JobRejected, JobReadsChat, JobCounts, JobSkipsChat,
       JobEnds
<1>1. PICK j \in JobStates : JobGoesOn(n, j)
    BY JobStep
<1>2. /\ job'[n] = j /\ j.of = job[n].of /\ j.kind = job[n].kind
      /\ \A k \in Jobs \ {n} : job'[k] = job[k]
      /\ job[n].at \in Settled => j.at = job[n].at
    BY <1>1, JobBecomesTyped DEF JobGoesOn
<1>3. (refresh.of \subseteq Unopened)'
    BY <1>0 DEF ChatInv, Unopened
<1>4. \A m \in Incoming : \/ stage'[m] = stage[m]
                          \/ stage'[m] \in {"published", "silent"}
  <2>1. CASE JobEnds(n)
      BY <2>1 DEF JobEnds
  <2>2. CASE ~ JobEnds(n)
      BY <2>2 DEF JobNext, JobReads, JobSaves, JobRejected, JobReadsChat, JobCounts, JobSkipsChat
  <2> QED
      BY <2>1, <2>2
<1>5. CASE JobCounts(n)
  <2> DEFINE live == IF job[n].kind = "live" THEN job[n].of \ Outgoing ELSE {}
             clash == ~ job[n].chat.stored /\ chat.stored
  <2>1. /\ chat' = IF clash THEN chat ELSE Counted(job[n].chat, Cardinality(live), Latest(job[n].of))
        /\ owed' = owed \cup live /\ job[n].at = "counting"
      BY <1>5 DEF JobCounts
  <2>2. tornChat' = (tornChat \/ clash \/ ChatHeldByEcho({}) \/ refresh.at = "holding")
      BY <1>5 DEF JobCounts
  <2>3. j.at = "fulfilled"
      BY <1>0, <1>2, <1>5 DEF JobCounts, JobBecomes, TypeOK, JobStates
  <2> HIDE DEF clash
  <2> SUFFICES ASSUME ~ tornChat'
               PROVE  (chat.unread = Cardinality(owed) /\ ChatCopies /\ OwedOnce)'
      BY <1>3 DEF ChatInv
  <2>4. ~ tornChat /\ ~ clash /\ ~ ChatHeldByEcho({})
      BY <2>2, Zenon
  <2>5. chat.unread = Cardinality(owed) /\ OwedOnce /\ job[n].chat = chat
      BY <2>1, <2>4 DEF ChatInv, ChatCopies
  <2>6. live \subseteq Incoming /\ live \subseteq Messages /\ owed \subseteq Messages
        /\ live \cap owed = {}
    <3>1. live \subseteq Incoming /\ live \subseteq Messages /\ live \subseteq job[n].of
        BY <1>0, JobFields DEF Incoming
    <3>2. live # {} => job[n].kind = "live"
        OBVIOUS
    <3>3. live \cap owed = {}
        BY <2>1, <2>5, <3>1, <3>2 DEF OwedOnce, Settled
    <3> QED
        BY <2>5, <3>1, <3>3 DEF OwedOnce, Incoming
  <2>7. (chat.unread = Cardinality(owed))'
    <3>1. Cardinality(live) \in Nat /\ IsFiniteSet(live) /\ IsFiniteSet(owed)
        BY <2>6, MessagesAreFinite
    <3>2. Cardinality(owed \cup live) = Cardinality(owed) + Cardinality(live)
      <4>1. owed \cap live = {} /\ Cardinality({}) = 0 /\ Cardinality(owed) \in Nat
          BY <2>6, MessagesAreFinite, FS_EmptySet
      <4>2. Cardinality(owed \cup live)
              = Cardinality(owed) + Cardinality(live) - Cardinality(owed \cap live)
          BY <3>1, FS_Union
      <4> HIDE DEF live
      <4>3. Cardinality(owed \cap live) = 0
          BY <4>1
      <4> QED
          BY <3>1, <4>1, <4>2, <4>3
    <3>3. Latest(job[n].of) \in Messages
      <4>1. job[n].of # {} /\ job[n].of \in SUBSET Messages
          BY <1>0, <2>1, JobFields DEF QueueInv, JobsHaveMessages, Chained
      <4> QED
          BY <4>1, LatestIsOne
    <3>4. chat' = Counted(chat, Cardinality(live), Latest(job[n].of))
        BY <2>1, <2>4, <2>5
    <3>5. chat'.unread = chat.unread + Cardinality(live)
        BY <1>0, <3>1, <3>3, <3>4, CountedTyped
    <3> QED
        BY <2>1, <2>5, <3>2, <3>5
  <2>8. ChatCopies'
    <3>1. \A k \in Jobs : job'[k].at # "counting"
        BY <1>2, <2>1, <2>3, QueueSerialises DEF OneJobAtATime, Running, Held
    <3>2. \A m \in Outgoing : echo'[m].at # "counting"
        BY <1>0, <2>4 DEF ChatHeldByEcho
    <3> QED
        BY <3>1, <3>2 DEF ChatCopies
  <2>9. OwedOnce'
    <3>1. owed' \subseteq Incoming
        BY <2>1, <2>5, <2>6 DEF OwedOnce
    <3>2. \A m \in owed' : stage'[m] \notin {"unsent", "hook"}
      <4>1. \A m \in live : stage[m] \notin {"unsent", "hook"}
          BY DEF SentInv, LiveOnce
      <4> QED
          BY <1>4, <2>1, <2>5, <3>1, <4>1 DEF OwedOnce
    <3>3. ASSUME NEW k \in Jobs, job'[k].kind = "live", job'[k].of \cap owed' # {}
          PROVE  job'[k].at \in {"none"} \cup Settled
      <4>1. CASE k = n
          BY <1>2, <2>3, <4>1 DEF Settled
      <4>2. CASE k # n
        <5>1. job[k].kind = "live" /\ job'[k] = job[k]
            BY <1>2, <3>3, <4>2
        <5>2. live # {} => job[n].kind = "live" /\ live \subseteq job[n].of
            OBVIOUS
        <5>3. job[k].of \cap live = {}
            BY <4>2, <5>1, <5>2 DEF SentInv, LiveOnce
        <5> QED
            BY <2>1, <2>5, <3>3, <5>1, <5>3 DEF OwedOnce
      <4> QED
          BY <4>1, <4>2
    <3> QED
        BY <3>1, <3>2, <3>3 DEF OwedOnce
  <2> QED
      BY <2>7, <2>8, <2>9
<1>6. CASE UNCHANGED <<chat, owed, tornChat>> /\ (j.at = "counting" => j.chat = chat)
           /\ job[n].at # "none"
  <2>1. ChatCopies => ChatCopies'
      BY <1>0, <1>2, <1>6 DEF ChatCopies
  <2>2. OwedOnce => OwedOnce'
      BY <1>2, <1>4, <1>6 DEF OwedOnce
  <2> QED
      BY <1>3, <1>6, <2>1, <2>2, Zenon DEF ChatInv
<1>7. CASE JobReads(n)
  <2>1. j.at = "saving" /\ UNCHANGED <<chat, owed, tornChat>>
      BY <1>0, <1>2, <1>7 DEF JobReads, JobBecomes, TypeOK, JobStates, data, history
  <2> QED
      BY <1>6, <1>7, <2>1 DEF JobReads
<1>8. CASE JobSaves(n)
  <2>1. j.at = "stored" /\ UNCHANGED <<chat, owed, tornChat>>
      BY <1>0, <1>2, <1>8 DEF JobSaves, JobBecomes, TypeOK, JobStates
  <2> QED
      BY <1>6, <1>8, <2>1 DEF JobSaves
<1>9. CASE JobRejected(n)
  <2>1. j.at = "rejected" /\ UNCHANGED <<chat, owed, tornChat>>
      BY <1>0, <1>2, <1>9 DEF JobRejected, JobBecomes, TypeOK, JobStates, data, history
  <2> QED
      BY <1>6, <1>9, <2>1 DEF JobRejected
<1>10. CASE JobReadsChat(n)
  <2>1. j.chat = chat /\ UNCHANGED <<chat, owed, tornChat>>
      BY <1>0, <1>2, <1>10 DEF JobReadsChat, JobBecomes, TypeOK, JobStates, data, history
  <2> QED
      BY <1>6, <1>10, <2>1 DEF JobReadsChat
<1>11. CASE JobSkipsChat(n)
  <2>1. j.at = "fulfilled" /\ UNCHANGED <<chat, owed, tornChat>>
      BY <1>0, <1>2, <1>11 DEF JobSkipsChat, JobBecomes, TypeOK, JobStates, data, history
  <2> QED
      BY <1>6, <1>11, <2>1 DEF JobSkipsChat
<1>12. CASE JobEnds(n)
  <2>1. j.at # "counting" /\ job[n].at # "none" /\ UNCHANGED <<chat, owed, tornChat>>
      BY <1>0, <1>2, <1>12 DEF JobEnds, JobBecomes, TypeOK, JobStates, data, history, Settled
  <2> QED
      BY <1>6, <2>1
<1> QED
    BY <1>5, <1>7, <1>8, <1>9, <1>10, <1>11, <1>12 DEF JobNext

LEMMA ArrivalKeepsChat ==
    ASSUME TypeOK, SentInv, ChatInv, NEW m \in Incoming, Arrives(m) \/ HookStops(m)
    PROVE  ChatInv'
<1>1. /\ UNCHANGED <<job, chat, echo, refresh, owed, tornChat>>
      /\ \A k \in Messages : wa[k] # "unsent" => wa'[k] # "unsent"
      /\ stage[m] \in {"unsent", "hook"} /\ \A k \in Incoming : k # m => stage'[k] = stage[k]
    BY DEF Arrives, HookStops, data, history, TypeOK
<1>2. (refresh.of \subseteq Unopened)'
    BY <1>1 DEF ChatInv, Unopened, Incoming
<1>3. ChatCopies => ChatCopies'
    BY <1>1 DEF ChatCopies
<1>4. OwedOnce => OwedOnce'
    BY <1>1 DEF OwedOnce
<1> QED
    BY <1>1, <1>2, <1>3, <1>4, Zenon DEF ChatInv

\* A job is chained, with messages that have not been counted when it is a live one.
LEMMA ChainKeepsChat ==
    ASSUME TypeOK, ChatInv, UNCHANGED <<wa, chat, echo, refresh, owed, tornChat>>,
           NEW kind \in Kinds, NEW of \in SUBSET Messages, NEW content \in [Messages -> Contents],
           Chain(kind, of, content),
           OwedOnce /\ kind = "live" => of \cap owed = {},
           OwedOnce => \A m \in owed : stage'[m] = stage[m]
    PROVE  ChatInv'
<1>1. PICK n \in Jobs : /\ job'[n].kind = kind /\ job'[n].of = of /\ job'[n].at = "waiting"
                        /\ \A k \in Jobs : k # n => job'[k] = job[k]
    BY ChainKeepsJobs
<1>2. (refresh.of \subseteq Unopened)'
    BY DEF ChatInv, Unopened
<1>3. ChatCopies => ChatCopies'
    BY <1>1 DEF ChatCopies
<1>4. OwedOnce => OwedOnce'
    BY <1>1 DEF OwedOnce
<1> QED
    BY <1>2, <1>3, <1>4, Zenon DEF ChatInv

LEMMA EchoKeepsChat ==
    ASSUME TypeOK, SentInv, ChatInv, NEW m \in Outgoing, EchoNext(m)
    PROVE  ChatInv'
<1>0. UNCHANGED <<job, stage, refresh, owed>> /\ m \in Messages /\ echo[m] \in EchoStates
      /\ chat \in Chats
    BY MessagesAssumption DEF TypeOK, EchoNext, EchoArrives, EchoHook, EchoReads, EchoSaves,
       EchoReadsChat, EchoCounts, history
<1>1. PICK e \in EchoStates : EchoBecomes(m, e)
    BY EchoStep
<1>2. echo'[m] = e /\ \A k \in Outgoing \ {m} : echo'[k] = echo[k]
    BY <1>1, EchoBecomesTyped
<1>3. \A k \in Messages : wa[k] # "unsent" => wa'[k] # "unsent"
    BY <1>0 DEF TypeOK, EchoNext, EchoArrives, EchoHook, EchoReads, EchoSaves, EchoReadsChat,
       EchoCounts
<1>4. (refresh.of \subseteq Unopened)'
    BY <1>0, <1>3 DEF ChatInv, Unopened, Incoming
<1>5. OwedOnce => OwedOnce'
    BY <1>0 DEF OwedOnce
<1>6. CASE UNCHANGED <<chat, tornChat>> /\ (e.at = "counting" => e.chat = chat)
  <2>1. ChatCopies => ChatCopies'
      BY <1>0, <1>2, <1>6 DEF ChatCopies
  <2> QED
      BY <1>0, <1>4, <1>5, <1>6, <2>1, Zenon DEF ChatInv
<1>7. CASE EchoArrives(m)
  <2>1. e.at = "hook" /\ UNCHANGED <<chat, tornChat>>
      BY <1>0, <1>2, <1>7 DEF EchoArrives, EchoBecomes, TypeOK, EchoStates, data, history
  <2> QED
      BY <1>6, <2>1
<1>8. CASE EchoHook(m)
  <2>1. e.at \in {"done", "reading"} /\ UNCHANGED <<chat, tornChat>>
      BY <1>0, <1>2, <1>8 DEF EchoHook, EchoBecomes, TypeOK, EchoStates, data, history
  <2> QED
      BY <1>6, <2>1
<1>9. CASE EchoReads(m)
  <2>1. e.at = "saving" /\ UNCHANGED <<chat, tornChat>>
      BY <1>0, <1>2, <1>9 DEF EchoReads, EchoBecomes, TypeOK, EchoStates, data, history
  <2> QED
      BY <1>6, <2>1
<1>10. CASE EchoSaves(m)
  <2>1. e.at # "counting"
    <3>1. ASSUME NEW at \in {"stored", "done"},
                 echo' = [echo EXCEPT ![m] = [echo[m] EXCEPT !.at = at, !.copy = NoRow]]
          PROVE  e.at # "counting"
        BY <1>0, <1>2, <3>1 DEF TypeOK, EchoStates
    <3> QED
        BY <1>10, <3>1 DEF EchoSaves, EchoBecomes
  <2> QED
      BY <1>6, <1>10, <2>1 DEF EchoSaves
<1>11. CASE EchoReadsChat(m)
  <2>1. e.chat = chat /\ UNCHANGED <<chat, tornChat>>
      BY <1>0, <1>2, <1>11 DEF EchoReadsChat, EchoBecomes, TypeOK, EchoStates, data, history
  <2> QED
      BY <1>6, <2>1
<1>12. CASE EchoCounts(m)
  <2> DEFINE clash == ~ echo[m].chat.stored /\ chat.stored
  <2>1. chat' = (IF clash THEN chat ELSE Counted(echo[m].chat, 0, m)) /\ echo[m].at = "counting"
      BY <1>12 DEF EchoCounts
  <2>2. tornChat' = (tornChat \/ clash \/ ChatHeldByJob \/ ChatHeldByEcho({m}) \/ refresh.at = "holding")
      BY <1>12 DEF EchoCounts
  <2>3. e.at = "done"
      BY <1>0, <1>2, <1>12 DEF EchoCounts, EchoBecomes, TypeOK, EchoStates
  <2> HIDE DEF clash
  <2> SUFFICES ASSUME ~ tornChat'
               PROVE  (chat.unread = Cardinality(owed) /\ ChatCopies /\ OwedOnce)'
      BY <1>4 DEF ChatInv
  <2>4. ~ tornChat /\ ~ clash /\ ~ ChatHeldByJob /\ ~ ChatHeldByEcho({m})
      BY <2>2, Zenon
  <2>5. chat.unread = Cardinality(owed) /\ OwedOnce /\ echo[m].chat = chat
      BY <2>1, <2>4 DEF ChatInv, ChatCopies
  <2>6. chat'.unread = chat.unread
    <3>1. chat' = Counted(chat, 0, m)
        BY <2>1, <2>4, <2>5
    <3>2. Counted(chat, 0, m).unread = chat.unread + 0 /\ chat.unread \in Nat
        BY <1>0, CountedTyped DEF Chats
    <3> QED
        BY <3>1, <3>2
  <2>7. ChatCopies'
      BY <1>0, <1>2, <2>3, <2>4 DEF ChatCopies, ChatHeldByJob, ChatHeldByEcho
  <2> QED
      BY <1>0, <1>5, <2>5, <2>6, <2>7
<1> QED
    BY <1>7, <1>8, <1>9, <1>10, <1>11, <1>12 DEF EchoNext

LEMMA ListKeepsChat ==
    ASSUME TypeOK, SentInv, ChatInv, ChatNext
    PROVE  ChatInv'
<1>0. UNCHANGED <<wa, stage, job, echo>> /\ chat \in Chats /\ refresh \in RefreshStates
    BY DEF TypeOK, ChatNext, RefreshFetches, RefreshReads, RefreshSaves, SeenAsked, SeenUpdates
<1>1. Unopened' = Unopened
    BY <1>0 DEF Unopened
<1>2. CASE UNCHANGED <<chat, owed, tornChat>> /\ (refresh.of \subseteq Unopened)'
  <2>1. (ChatCopies => ChatCopies') /\ (OwedOnce => OwedOnce')
      BY <1>0, <1>2 DEF ChatCopies, OwedOnce
  <2> QED
      BY <1>2, <2>1, Zenon DEF ChatInv
<1>3. CASE RefreshFetches
  <2>1. refresh'.of = Unopened
      BY <1>0, <1>3 DEF RefreshFetches, RefreshStates
  <2> QED
      BY <1>1, <1>2, <1>3, <2>1 DEF RefreshFetches, data, history
<1>4. CASE RefreshReads
  <2>1. refresh'.of = refresh.of
      BY <1>0, <1>4 DEF RefreshReads, RefreshStates
  <2> QED
      BY <1>1, <1>2, <1>4, <2>1 DEF RefreshReads, data, history, ChatInv
<1>5. CASE SeenAsked
    BY <1>1, <1>2, <1>5 DEF SeenAsked, data, history, ChatInv
<1>6. ASSUME ~ ChatHeldByJob, ~ ChatHeldByEcho({})
      PROVE  ChatCopies'
    BY <1>0, <1>6 DEF ChatHeldByJob, ChatHeldByEcho, ChatCopies
<1>7. CASE SeenUpdates
  <2>1. ~ tornChat' => ~ ChatHeldByJob /\ ~ ChatHeldByEcho({})
      BY <1>7, Zenon DEF SeenUpdates
  <2>2. owed' = {} /\ chat'.unread = 0
      BY <1>0, <1>7 DEF SeenUpdates, Chats
  <2>3. OwedOnce'
      BY <2>2 DEF OwedOnce
  <2>4. (chat.unread = Cardinality(owed))' /\ (refresh.of \subseteq Unopened)'
      BY <1>1, <1>7, <2>2, FS_EmptySet DEF SeenUpdates, ChatInv
  <2> QED
      BY <1>6, <2>1, <2>3, <2>4, Zenon DEF ChatInv
<1>8. CASE RefreshSaves
  <2> DEFINE clash == ~ refresh.copy.stored /\ chat.stored
  <2>1. tornChat' = (tornChat \/ clash \/ ChatHeldByJob \/ ChatHeldByEcho({})
                               \/ \E m \in refresh.of : OnItsWay(m))
      BY <1>8 DEF RefreshSaves
  <2>2. chat' = (IF clash THEN chat
                 ELSE [stored |-> TRUE, unread |-> Cardinality(refresh.of),
                       last |-> Larger(refresh.copy.last, refresh.last)])
      BY <1>8 DEF RefreshSaves
  <2>3. owed' = refresh.of /\ refresh'.of = {}
      BY <1>8 DEF RefreshSaves
  <2> HIDE DEF clash
  <2>4. ~ tornChat' => ~ clash /\ ~ ChatHeldByJob /\ ~ ChatHeldByEcho({})
                       /\ \A m \in refresh.of : ~ OnItsWay(m)
      BY <2>1, Zenon
  <2>5. ~ clash => (chat.unread = Cardinality(owed))'
      BY <2>2, <2>3
  <2>6. ASSUME \A m \in refresh.of : ~ OnItsWay(m)
        PROVE  OwedOnce'
    <3>1. refresh.of \subseteq Incoming /\ \A m \in refresh.of : stage[m] \notin {"unsent", "hook"}
        BY <2>6 DEF ChatInv, Unopened, OnItsWay, SentInv, StageKnown
    <3>2. \A n \in Jobs : job[n].kind = "live" /\ job[n].of \cap refresh.of # {}
              => job[n].at \in {"none"} \cup Settled
        BY <2>6 DEF OnItsWay
    <3> QED
        BY <1>0, <2>3, <3>1, <3>2 DEF OwedOnce
  <2> QED
      BY <1>6, <2>3, <2>4, <2>5, <2>6, Zenon DEF ChatInv
<1> QED
    BY <1>3, <1>4, <1>5, <1>7, <1>8 DEF ChatNext

LEMMA StepKeepsChat ==
    ASSUME TypeOK, QueueInv, SentInv, ChatInv, [Next]_vars
    PROVE  ChatInv'
<1>1. CASE UNCHANGED vars
    BY <1>1, Zenon DEF vars, data, history, ChatInv, ChatCopies, OwedOnce, Unopened
<1>2. ASSUME NEW m \in Incoming, HookGoesOn(m)
      PROVE  ChatInv'
  <2>1. UNCHANGED <<wa, chat, echo, refresh, owed, tornChat>> /\ Chain("live", {m}, NoContent)
        /\ {m} \in SUBSET Messages /\ "live" \in Kinds
      BY <1>2 DEF HookGoesOn, data, history, Kinds, Incoming
  <2>2. NoContent \in [Messages -> Contents]
      BY NoRowTyped
  <2>3. OwedOnce => {m} \cap owed = {} /\ \A k \in owed : stage'[k] = stage[k]
      BY <1>2 DEF HookGoesOn, OwedOnce, TypeOK
  <2> HIDE DEF NoContent
  <2> QED
      BY <2>1, <2>2, <2>3, ChainKeepsChat
<1>3. ASSUME NEW M \in SUBSET Messages, HistoryArrives(M)
      PROVE  ChatInv'
    BY <1>3, ChainKeepsChat, HistoryContent DEF HistoryArrives, Kinds, data, history
<1>4. ASSUME NEW m \in Changed, ChangeNext(m)
      PROVE  ChatInv'
  <2>1. UNCHANGED <<stage, job, chat, echo, refresh, owed, tornChat>> /\ m \in Messages
      BY <1>4, MessagesAssumption DEF ChangeNext, ChangeArrives, ChangeReads, ChangeSaves,
         RevokeArrives, RevokeUpdates, data, history
  <2>2. \A k \in Messages : wa[k] # "unsent" => wa'[k] # "unsent"
      BY <1>4, <2>1 DEF ChangeNext, ChangeArrives, ChangeReads, ChangeSaves, RevokeArrives,
         RevokeUpdates, TypeOK
  <2>3. (refresh.of \subseteq Unopened)'
      BY <2>1, <2>2 DEF ChatInv, Unopened, Incoming
  <2>4. (ChatCopies => ChatCopies') /\ (OwedOnce => OwedOnce')
      BY <2>1 DEF ChatCopies, OwedOnce
  <2> QED
      BY <2>1, <2>3, <2>4, Zenon DEF ChatInv
<1> QED
    BY <1>1, <1>2, <1>3, <1>4, JobStepKeepsChat, ArrivalKeepsChat, EchoKeepsChat, ListKeepsChat
       DEF Next

-----------------------------------------------------------------------------
(* The invariant *)

IInv == TypeOK /\ QueueInv /\ SentInv /\ StoredInv /\ RowInv /\ ChatInv

LEMMA InitTyped == Init => TypeOK
<1> SUFFICES ASSUME Init PROVE TypeOK
    OBVIOUS
<1>1. NoJob \in JobStates
  <2>1. 0 \in 0..MaxJobs /\ {} \in SUBSET Messages /\ "live" \in Kinds
        /\ "none" \in {"none"} \cup Waiting \cup Held \cup Settled
      BY BoundsAssumption DEF Kinds
  <2>2. NoRows \in [Messages -> Rows] /\ NoContent \in [Messages -> Contents] /\ NoChat \in Chats
      BY NoRowTyped, NoChatTyped
  <2> HIDE DEF NoRows, NoContent, NoChat
  <2> QED
      BY <2>1, <2>2 DEF NoJob, JobStates
<1>2. job \in [Jobs -> JobStates]
  <2> HIDE DEF NoJob
  <2> QED
      BY <1>1 DEF Init
<1>3. change \in [Changed -> [Changes -> ChangeStates]]
    BY NoRowTyped DEF Init, ChangeStates
<1>4. echo \in [Outgoing -> EchoStates] /\ refresh \in RefreshStates
  <2>1. [at |-> "none", copy |-> NoRow, chat |-> NoChat] \in EchoStates
      BY NoRowTyped, NoChatTyped DEF EchoStates
  <2>2. [at |-> "none", of |-> {}, last |-> 0, copy |-> NoChat] \in RefreshStates
      BY NoChatTyped, MessagesAssumption DEF RefreshStates
  <2> QED
      BY <2>1, <2>2 DEF Init
<1>5. row \in [Messages -> Rows] /\ chat \in Chats
    BY NoRowTyped, NoChatTyped DEF Init
<1>6. /\ wa \in [Messages -> {"unsent"} \cup Contents]
      /\ stage \in [Incoming -> {"unsent", "hook", "stopped", "queued", "published", "silent"}]
      /\ revoke \in [Changed -> {"none", "asked", "done"}]
      /\ tail \in 0..MaxJobs /\ seen \in {"none", "asked", "done"}
      /\ owed \subseteq Messages /\ torn \subseteq Messages
    BY BoundsAssumption DEF Init
<1>7. tornChat \in BOOLEAN
    BY Zenon DEF Init
<1> QED
    BY <1>2, <1>3, <1>4, <1>5, <1>6, <1>7 DEF TypeOK

LEMMA InitInv == Init => IInv
<1> SUFFICES ASSUME Init PROVE IInv
    OBVIOUS
<1>1. TypeOK
    BY InitTyped
<1>2. \A n \in Jobs : job[n].at = "none" /\ job[n].of = {} /\ ~ job[n].clashed
                      /\ job[n].kind = "live"
    BY DEF Init, NoJob
<1>3. QueueInv
    BY <1>2 DEF Init, QueueInv, JobsHaveMessages, Chained
<1>4. /\ \A m \in Messages : wa[m] = "unsent" /\ row[m] = NoRow /\ ~ row[m].stored
      /\ \A m \in Changed : revoke[m] = "none" /\ \A who \in Changes : change[m][who].at = "none"
      /\ \A m \in Outgoing : echo[m].at = "none"
      /\ \A m \in Incoming : stage[m] = "unsent"
    BY NoRowTyped DEF Init, NoRows
<1>5. SentInv
  <2>1. StageKnown /\ OnlyOfSent
      BY <1>2, <1>4 DEF StageKnown, OnlyOfSent, Incoming
  <2>2. LiveOnce
      BY <1>2 DEF LiveOnce
  <2>3. ChangesKnown
      BY <1>4, MessagesAssumption DEF ChangesKnown, Changes
  <2> QED
      BY <2>1, <2>2, <2>3 DEF SentInv
<1>6. StoredInv
    BY <1>2, <1>4 DEF StoredInv, ChangedIsStored, LiveIsFirst, LiveNeverClashes
<1>7. RowInv
  <2>1. ASSUME NEW m \in Messages
        PROVE  Fresh(m) /\ Shows(row[m], m)
    <3>1. Fresh(m)
        BY <1>2, <1>4 DEF Fresh, JobHolds, ChangeHolds, EchoHolds
    <3>2. Reacted(m) = {}
        BY <1>4 DEF Reacted, Changes
    <3> QED
        BY <1>4, <3>1, <3>2 DEF Shows
  <2> QED
      BY <2>1 DEF RowInv
<1>8. ChatInv
  <2>1. refresh.of = {} /\ chat.unread = 0 /\ owed = {}
      BY DEF Init, NoChat
  <2>2. ChatCopies
      BY <1>2, <1>4 DEF ChatCopies
  <2>3. OwedOnce
      BY <1>2, <2>1 DEF OwedOnce
  <2> QED
      BY <2>1, <2>2, <2>3, FS_EmptySet DEF ChatInv
<1> QED
    BY <1>1, <1>3, <1>5, <1>6, <1>7, <1>8 DEF IInv

LEMMA NextInv == IInv /\ [Next]_vars => IInv'
<1> SUFFICES ASSUME IInv, [Next]_vars PROVE IInv'
    OBVIOUS
<1>1. TypeOK /\ JobsHaveMessages /\ QueueInv /\ SentInv /\ StoredInv /\ RowInv /\ ChatInv
    BY DEF IInv, QueueInv
<1>2. TypeOK' /\ QueueInv' /\ SentInv'
    BY <1>1, StepTyped, StepKeepsQueue, StepKeepsSent
<1>3. StoredInv' /\ RowInv' /\ ChatInv'
    BY <1>1, StepKeepsStored, StepKeepsRows, StepKeepsChat
<1> QED
    BY <1>2, <1>3 DEF IInv

LEMMA Invariance == Spec => []IInv
<1>1. Init => IInv
    BY InitInv
<1>2. IInv /\ [Next]_vars => IInv'
    BY NextInv
<1> QED
    BY <1>1, <1>2, PTL DEF Spec

-----------------------------------------------------------------------------
(* The theorems *)

\* Every row, snapshot, queue entry and held copy of session.service.ts keeps its
\* type, whatever the handlers interleave.
THEOREM TypeCorrect == Spec => []TypeOK
<1>1. IInv => TypeOK
    BY DEF IInv
<1> QED
    BY <1>1, Invariance, PTL

\* persistMessages: a promise chained behind the one before it, even when that one
\* fails and even though finally() clears the map, lets only one job work at a time.
THEOREM QueueIsSerial == Spec => []OneJobAtATime
<1>1. IInv => OneJobAtATime
    BY QueueSerialises DEF IInv
<1> QED
    BY <1>1, Invariance, PTL

\* persistMessagesNow: no row of an incoming message appears between a live job's
\* read and its save, so the unique index never makes onMessage lose a message.
THEOREM LiveIsNeverLost == Spec => []LiveNeverClashes
<1>1. IInv => LiveNeverClashes
    BY DEF IInv, StoredInv
<1> QED
    BY <1>1, Invariance, PTL

\* onMessageEdited, onMessageReaction, onMessageRevoked, the echo and the queue: a
\* row no overlapping or late copy was saved over shows what WhatsApp has.
THEOREM RowsAgree == Spec => []RowAgrees
<1>1. IInv => RowAgrees
    BY RowInvIsEnough DEF IInv
<1> QED
    BY <1>1, Invariance, PTL

\* persistMessageChatSnapshots: the unread count is that of the live messages since
\* the chat was seen, as long as no writer beside the queue overlaps another.
THEOREM UnreadIsExact == Spec => []UnreadExact
<1>1. IInv => UnreadExact
    BY DEF IInv, ChatInv, UnreadExact
<1> QED
    BY <1>1, Invariance, PTL
====
