----------------------------- MODULE ServicesProofs -----------------------------
(***************************************************************************)
(* Services' invariants, for all values of its constants: those of the     *)
(* services in the gateway here, those of the pages in PagesProofs.  Each  *)
(* service has an inductive invariant of its own, which the steps of the   *)
(* others leave alone.                                                     *)
(***************************************************************************)
EXTENDS Services, FiniteSetTheorems, SequenceTheorems, Arrays, TLAPS

-----------------------------------------------------------------------------
(* Arrays: a finite set of naturals counts its members by how many come before *)

Before(S, n) == {m \in S : m < n}

LEMMA BeforeGrows ==
    ASSUME NEW S \in SUBSET Nat, IsFiniteSet(S), NEW a \in S, NEW b \in S, a < b
    PROVE  /\ Cardinality(Before(S, a)) \in Nat /\ Cardinality(Before(S, b)) \in Nat
           /\ Cardinality(Before(S, a)) < Cardinality(Before(S, b))
<1>1. Before(S, a) \subseteq Before(S, b) /\ Before(S, a) # Before(S, b)
  <2>1. a \in Before(S, b) /\ a \notin Before(S, a)
      BY DEF Before
  <2>2. \A m \in Before(S, a) : m \in Before(S, b)
      BY DEF Before
  <2> QED
      BY <2>1, <2>2
<1>2. IsFiniteSet(Before(S, b)) /\ IsFiniteSet(Before(S, a))
    BY FS_Subset DEF Before
<1>3. /\ Cardinality(Before(S, a)) <= Cardinality(Before(S, b))
      /\ Cardinality(Before(S, a)) # Cardinality(Before(S, b))
    BY <1>1, <1>2, FS_Subset
<1>4. Cardinality(Before(S, a)) \in Nat /\ Cardinality(Before(S, b)) \in Nat
    BY <1>2, FS_CardinalityType
<1> QED
    BY <1>3, <1>4

\* Each number below the cardinality is that of the members before one member.
LEMMA OneIsTheKth ==
    ASSUME NEW S \in SUBSET Nat, IsFiniteSet(S), NEW k \in 1..Cardinality(S)
    PROVE  \E n \in S : Cardinality(Before(S, n)) = k - 1
<1> DEFINE Ranks == 0..(Cardinality(S) - 1)
           f == [n \in S |-> Cardinality(Before(S, n))]
<1>1. Cardinality(S) \in Nat
    BY FS_CardinalityType
<1>2. ASSUME NEW n \in S PROVE Cardinality(Before(S, n)) \in Ranks
  <2>1. /\ IsFiniteSet(S \ {n}) /\ Cardinality(S \ {n}) = Cardinality(S) - 1
      BY FS_RemoveElement
  <2>2. Before(S, n) \subseteq S \ {n}
      BY DEF Before
  <2>3. IsFiniteSet(Before(S, n)) /\ Cardinality(Before(S, n)) <= Cardinality(S \ {n})
      BY <2>1, <2>2, FS_Subset
  <2> QED
      BY <1>1, <2>1, <2>3, FS_CardinalityType
<1>3. f \in Injection(S, Ranks)
  <2>1. f \in [S -> Ranks]
      BY <1>2
  <2>2. ASSUME NEW a \in S, NEW b \in S, a # b PROVE f[a] # f[b]
    <3>1. a < b \/ b < a
        BY <2>2
    <3> QED
        BY <3>1, BeforeGrows
  <2> QED
      BY <2>1, <2>2 DEF Injection, IsInjective
<1>4. IsFiniteSet(Ranks) /\ Cardinality(Ranks) = Cardinality(S)
  <2> DEFINE c == Cardinality(S) - 1
  <2>1. c \in Int /\ 0 \in Int /\ (0 > c <=> Cardinality(S) = 0)
      BY <1>1
  <2>2. IsFiniteSet(0..c) /\ Cardinality(0..c) = IF 0 > c THEN 0 ELSE c - 0 + 1
      BY <2>1, FS_Interval
  <2> QED
      BY <1>1, <2>1, <2>2
<1>5. f \in Surjection(S, Ranks)
    BY <1>3, <1>4, FS_Injection
<1>6. \E n \in S : f[n] = k - 1
  <2>1. k - 1 \in Ranks
      BY <1>1
  <2> HIDE DEF f, Ranks
  <2> QED
      BY <1>5, <2>1 DEF Surjection
<1> QED
    BY <1>6

\* Ascending enumerates the set, in order.
LEMMA AscendingKth ==
    ASSUME NEW S \in SUBSET Nat, IsFiniteSet(S), NEW k \in 1..Cardinality(S)
    PROVE  /\ Ascending(S)[k] \in S
           /\ Cardinality(Before(S, Ascending(S)[k])) = k - 1
<1>1. Ascending(S)[k] = CHOOSE n \in S : Cardinality(Before(S, n)) = k - 1
    BY DEF Ascending, Before
<1> QED
    BY <1>1, OneIsTheKth

LEMMA AscendingIncreases ==
    ASSUME NEW S \in SUBSET Nat, IsFiniteSet(S),
           NEW j \in 1..Cardinality(S), NEW k \in 1..Cardinality(S), j < k
    PROVE  Ascending(S)[j] < Ascending(S)[k]
<1> DEFINE a == Ascending(S)[j]
           b == Ascending(S)[k]
<1>1. /\ a \in S /\ Cardinality(Before(S, a)) = j - 1
      /\ b \in S /\ Cardinality(Before(S, b)) = k - 1
    BY AscendingKth
<1> HIDE DEF a, b
<1>2. a # b
    BY <1>1
<1>3. ~ b < a
    BY <1>1, BeforeGrows
<1>4. a < b
    BY <1>1, <1>2, <1>3
<1> QED
    BY <1>4 DEF a, b

LEMMA AscendingReaches ==
    ASSUME NEW S \in SUBSET Nat, IsFiniteSet(S), NEW n \in S
    PROVE  \E k \in 1..Cardinality(S) : Ascending(S)[k] = n
<1> DEFINE k == Cardinality(Before(S, n)) + 1
<1>1. IsFiniteSet(S \ {n}) /\ Cardinality(S \ {n}) = Cardinality(S) - 1 /\ Cardinality(S) \in Nat
    BY FS_RemoveElement, FS_CardinalityType
<1>2. Before(S, n) \subseteq S \ {n}
    BY DEF Before
<1>3. /\ Cardinality(Before(S, n)) <= Cardinality(S \ {n})
      /\ Cardinality(Before(S, n)) \in Nat
    BY <1>1, <1>2, FS_Subset, FS_CardinalityType
<1>4. k \in 1..Cardinality(S)
    BY <1>1, <1>3
<1> DEFINE a == Ascending(S)[k]
<1>5. a \in S /\ Cardinality(Before(S, a)) = Cardinality(Before(S, n))
    BY <1>3, <1>4, AscendingKth
<1> HIDE DEF a
<1>6. ~ a < n /\ ~ n < a
    BY <1>5, BeforeGrows
<1>7. a = n
    BY <1>5, <1>6
<1> QED
    BY <1>4, <1>7 DEF a

\* What filter returns: the entries it keeps, each once.
LEMMA EntriesKept ==
    ASSUME NEW T, NEW s \in Seq(T), NEW K \in SUBSET DOMAIN s
    PROVE  /\ IsFiniteSet(K) /\ Cardinality(K) \in Nat /\ Cardinality(K) <= Len(s)
           /\ Entries(s, K) \in Seq(T) /\ Len(Entries(s, K)) = Cardinality(K)
           /\ \A k \in 1..Cardinality(K) : /\ Ascending(K)[k] \in K
                                           /\ Entries(s, K)[k] = s[Ascending(K)[k]]
           /\ \A j, k \in 1..Cardinality(K) : j # k => Ascending(K)[j] # Ascending(K)[k]
           /\ \A i \in K : \E k \in 1..Cardinality(K) : Ascending(K)[k] = i
<1>1. DOMAIN s = 1..Len(s) /\ Len(s) \in Nat /\ s \in [1..Len(s) -> T]
    BY LenProperties
<1>2. IsFiniteSet(1..Len(s)) /\ Cardinality(1..Len(s)) = Len(s)
  <2>1. 1 \in Int /\ Len(s) \in Int
      BY <1>1
  <2>2. IsFiniteSet(1..Len(s)) /\ Cardinality(1..Len(s)) = IF 1 > Len(s) THEN 0 ELSE Len(s) - 1 + 1
      BY <2>1, FS_Interval
  <2> QED
      BY <1>1, <2>2
<1>3. IsFiniteSet(K) /\ Cardinality(K) <= Len(s) /\ K \in SUBSET Nat
    BY <1>1, <1>2, FS_Subset
<1>4. Cardinality(K) \in Nat
    BY <1>3, FS_CardinalityType
<1>5. \A k \in 1..Cardinality(K) : Ascending(K)[k] \in K
    BY <1>3, AscendingKth
<1>6. \A k \in 1..Cardinality(K) : Entries(s, K)[k] = s[Ascending(K)[k]] /\ Entries(s, K)[k] \in T
    BY <1>1, <1>5 DEF Entries
<1>7. Entries(s, K) \in [1..Cardinality(K) -> T]
    BY <1>6 DEF Entries
<1>8. Entries(s, K) \in Seq(T) /\ Len(Entries(s, K)) = Cardinality(K)
  <2> DEFINE e == Entries(s, K)
             n == Cardinality(K)
  <2>1. n \in Nat /\ e \in [1..n -> T]
      BY <1>4, <1>7
  <2> HIDE DEF e, n
  <2>2. e \in Seq(T) /\ Len(e) = n
      BY <2>1
  <2> QED
      BY <2>2 DEF e, n
<1>9. ASSUME NEW j \in 1..Cardinality(K), NEW k \in 1..Cardinality(K), j # k
      PROVE  Ascending(K)[j] # Ascending(K)[k]
  <2>1. (j < k \/ k < j) /\ Ascending(K)[j] \in Nat /\ Ascending(K)[k] \in Nat
      BY <1>3, <1>4, <1>5, <1>9
  <2> QED
      BY <1>3, <2>1, AscendingIncreases
<1>10. \A i \in K : \E k \in 1..Cardinality(K) : Ascending(K)[k] = i
    BY <1>3, AscendingReaches
<1> QED
    BY <1>3, <1>4, <1>5, <1>6, <1>8, <1>9, <1>10

-----------------------------------------------------------------------------
(* A step of Services is one of each service or leaves that service alone *)

LEMMA EachServiceSteps ==
    ASSUME [Next]_vars
    PROVE  /\ [Hooks!Next]_Hooks!vars
           /\ [Scan!Next]_Scan!vars
           /\ [Assignment!Next]_Assignment!vars
           /\ [Conversation!Next]_Conversation!vars
           /\ [Group!Next]_Group!vars
           /\ [Keys!Next]_Keys!vars
           /\ [Page!Next]_Page!vars
           /\ [Rooms!Next]_Rooms!vars
           /\ [Inbox!Next]_Inbox!vars
<1> USE DEF Next, vars, hookVars, scanVars, sessionVars, chatVars, groupVars, keyVars, roomVars,
            socketVars, inboxVars
<1>1. [Hooks!Next]_Hooks!vars /\ [Scan!Next]_Scan!vars
    BY DEF Hooks!vars, Scan!vars
<1>2. [Assignment!Next]_Assignment!vars /\ [Conversation!Next]_Conversation!vars
    BY DEF Assignment!vars, Conversation!vars
<1>3. [Group!Next]_Group!vars /\ [Keys!Next]_Keys!vars
    BY DEF Group!vars, Keys!vars
<1>4. [Page!Next]_Page!vars
    BY DEF Page!vars, Page!page, Page!requests, Page!send, Page!gateway
<1>5. [Rooms!Next]_Rooms!vars /\ [Inbox!Next]_Inbox!vars
    BY DEF Rooms!vars, Rooms!page, Inbox!vars, Inbox!messages
<1> QED
    BY <1>1, <1>2, <1>3, <1>4, <1>5

-----------------------------------------------------------------------------
(* The account limit of OmegaSessions.  A save can add a session to a client in two ways: it  *)
(* is an assignment, which has counted the client's sessions before, or it puts back a copy   *)
(* that has become stale, which excuses the client.                                           *)

\* The instance counts as this module does.
LEMMA SessionsCount ==
    /\ \A S : Assignment!Cardinality(S) = Cardinality(S)
    /\ \A S : Assignment!IsFiniteSet(S) <=> IsFiniteSet(S)
<1>1. \A S : Assignment!Cardinality(S) = Cardinality(S)
    BY DEF Assignment!Cardinality, Cardinality
<1>2. \A S : Assignment!IsFiniteSet(S) <=> IsFiniteSet(S)
    BY DEF Assignment!IsFiniteSet, IsFiniteSet
<1> QED
    BY <1>1, <1>2

USE SessionsCount

\* What an assignment that has counted knows: its client has this session already,
\* or room for one more.
CountedFits ==
    \A q \in AdminRequests, a \in Accounts :
        /\ sessionReq[q].at = "counted"
        /\ a \in sessionReq[q].todo
        /\ sessionReq[q].client \notin excused
        => sessionReq[q].copy[a].client = sessionReq[q].client \/ sessionReq[q].count < Limit

\* Only an assignment has a client.
SessionClientKnown ==
    \A q \in AdminRequests : sessionReq[q].at \in {"assign", "counted"} => sessionReq[q].client \in Clients

\* A request for one session has that one to save.
OneSession ==
    \A q \in AdminRequests :
        sessionReq[q].at \in {"assign", "counted"} => \A a, b \in sessionReq[q].todo : a = b

SessionsInv == Assignment!TypeOK /\ SessionClientKnown /\ OneSession /\ CountedFits /\ Assignment!LimitHeld

-----------------------------------------------------------------------------
(* Sets of sessions *)

LEMMA OfIsFinite ==
    ASSUME Assignment!SessionsAssumption, NEW client
    PROVE  IsFiniteSet(Assignment!Of(client)) /\ Cardinality(Assignment!Of(client)) \in Nat
                                   /\ Cardinality(Assignment!Of(client)) <= Cardinality(Accounts)
                                   /\ Cardinality(Accounts) \in Nat
<1>1. Assignment!Of(client) \subseteq Accounts
    BY DEF Assignment!Of
<1>2. IsFiniteSet(Assignment!Of(client)) /\ Cardinality(Assignment!Of(client)) <= Cardinality(Accounts)
    BY <1>1, FS_Subset DEF Assignment!SessionsAssumption
<1> QED
    BY <1>2, FS_CardinalityType DEF Assignment!SessionsAssumption

\* No session more: the limit holds as before.
LEMMA FewerSessions ==
    ASSUME Assignment!SessionsAssumption, NEW client, Assignment!Of(client)' \subseteq Assignment!Of(client)
    PROVE  Cardinality(Assignment!Of(client)') <= Cardinality(Assignment!Of(client)) /\ Cardinality(Assignment!Of(client)') \in Nat
<1>1. IsFiniteSet(Assignment!Of(client)') /\ Cardinality(Assignment!Of(client)') <= Cardinality(Assignment!Of(client))
    BY OfIsFinite, FS_Subset
<1> QED
    BY <1>1, FS_CardinalityType

LEMMA OneSessionMore ==
    ASSUME Assignment!SessionsAssumption, NEW client, NEW a, Assignment!Of(client)' \subseteq Assignment!Of(client) \cup {a}
    PROVE  Cardinality(Assignment!Of(client)') <= Cardinality(Assignment!Of(client)) + 1 /\ Cardinality(Assignment!Of(client)') \in Nat
<1>1. IsFiniteSet(Assignment!Of(client)) /\ Cardinality(Assignment!Of(client)) \in Nat
    BY OfIsFinite
<1>2. IsFiniteSet(Assignment!Of(client) \cup {a}) /\ Cardinality(Assignment!Of(client) \cup {a}) <= Cardinality(Assignment!Of(client)) + 1
  <2> DEFINE S == Assignment!Of(client)
  <2>1. /\ IsFiniteSet(S \cup {a})
        /\ Cardinality(S \cup {a}) = IF a \in S THEN Cardinality(S) ELSE Cardinality(S) + 1
      BY <1>1, FS_AddElement, Zenon
  <2>2. Cardinality(S) \in Nat
      BY <1>1
  <2> HIDE DEF S
  <2>3. IsFiniteSet(S \cup {a}) /\ Cardinality(S \cup {a}) <= Cardinality(S) + 1
      BY <2>1, <2>2
  <2> QED
      BY <2>3 DEF S
<1>3. IsFiniteSet(Assignment!Of(client)') /\ Cardinality(Assignment!Of(client)') <= Cardinality(Assignment!Of(client) \cup {a})
    BY <1>2, FS_Subset
<1>4. Cardinality(Assignment!Of(client)') \in Nat /\ Cardinality(Assignment!Of(client) \cup {a}) \in Nat
    BY <1>2, <1>3, FS_CardinalityType
<1> QED
    BY <1>1, <1>2, <1>3, <1>4

-----------------------------------------------------------------------------
(* What a step does to the requests *)

\* A request that ends, or goes on with another label, keeps the rest in type.
LEMMA OneRequest ==
    ASSUME Assignment!TypeOK, NEW q \in AdminRequests, NEW r, sessionReq' = [sessionReq EXCEPT ![q] = r]
    PROVE  sessionReq'[q] = r /\ \A p \in AdminRequests \ {q} : sessionReq'[p] = sessionReq[p]
BY DEF Assignment!TypeOK

LEMMA RowsAreTyped ==
    /\ \A client \in Clients \cup {Assignment!Nobody} : Assignment!Row(client) \in Assignment!Rows /\ Assignment!Row(client).client = client
    /\ Assignment!NoRow \in Assignment!Rows /\ Assignment!NoRow.client = "none"
    /\ \A r \in Assignment!Rows : r.client \in Clients \cup {Assignment!Nobody, "none"}
BY DEF Assignment!Rows, Assignment!Row, Assignment!NoRow

LEMMA SessionIdleTyped ==
    ASSUME Assignment!SessionsAssumption
    PROVE  Assignment!Idle \in Assignment!ReqStates /\ Assignment!Idle.at = "idle"
<1>1. 0 \in 0..Cardinality(Accounts)
    BY FS_CardinalityType DEF Assignment!SessionsAssumption
<1> QED
    BY <1>1, RowsAreTyped DEF Assignment!Idle, Assignment!ReqStates

\* A step that gives one request a state in type, and leaves or types the others'.
LEMMA RequestTyped ==
    ASSUME Assignment!TypeOK, NEW q \in AdminRequests, NEW r \in Assignment!ReqStates, sessionReq' = [sessionReq EXCEPT ![q] = r]
    PROVE  sessionReq' \in [AdminRequests -> Assignment!ReqStates]
BY DEF Assignment!TypeOK

-----------------------------------------------------------------------------
(* The two halves of the argument *)

\* A save by a request that has not counted: whatever row a becomes, either it is
\* what it was, or it is nobody's, or the client that gets it is excused.
LEMMA SaveKeepsLimit ==
    ASSUME Assignment!SessionsAssumption, Assignment!TypeOK, Assignment!LimitHeld,
           NEW q \in AdminRequests, NEW a \in Accounts, NEW new \in Assignment!Rows, Assignment!Save(q, a, new),
           new \in {sessionReq[q].copy[a], Assignment!Row(Assignment!Nobody)}
    PROVE  Assignment!LimitHeld' /\ sessionRow' \in [Accounts -> Assignment!Rows] /\ excused' \subseteq Clients
<1>1. sessionRow' = [sessionRow EXCEPT ![a] = new] /\ sessionRow' \in [Accounts -> Assignment!Rows]
    BY DEF Assignment!Save, Assignment!TypeOK
<1>2. excused' \subseteq Clients /\ excused \subseteq excused'
    BY DEF Assignment!Save, Assignment!TypeOK
<1>3. ASSUME NEW client \in Clients \ excused'
      PROVE  Cardinality(Assignment!Of(client)') <= Limit
  <2>1. client \notin excused /\ Cardinality(Assignment!Of(client)) <= Limit
      BY <1>2, <1>3 DEF Assignment!LimitHeld
  <2>2. new.client = client => sessionRow[a].client = client
      <3>1. CASE sessionRow[a] = sessionReq[q].copy[a]
          BY <1>3, <3>1, RowsAreTyped DEF Assignment!SessionsAssumption
      <3>2. CASE sessionRow[a] # sessionReq[q].copy[a]
          BY <1>3, <3>2 DEF Assignment!Save
      <3> QED
          BY <3>1, <3>2
  <2>3. Assignment!Of(client)' \subseteq Assignment!Of(client)
      BY <1>1, <2>2 DEF Assignment!Of, Assignment!TypeOK
  <2> QED
      BY <2>1, <2>3, FewerSessions, OfIsFinite DEF Assignment!SessionsAssumption
<1> QED
    BY <1>1, <1>2, <1>3 DEF Assignment!LimitHeld

\* An assignment: the client was counted, and has been no other's business since.
LEMMA AssignKeepsLimit ==
    ASSUME Assignment!SessionsAssumption, SessionsInv, NEW q \in AdminRequests, NEW a \in Accounts, Assignment!AssignSaves(q, a)
    PROVE  Assignment!LimitHeld' /\ sessionRow' \in [Accounts -> Assignment!Rows] /\ excused' \subseteq Clients /\ excused \subseteq excused'
<1> DEFINE c == sessionReq[q].client
<1>0. c \in Clients /\ Assignment!Row(c) \in Assignment!Rows /\ Assignment!Row(c).client = c
    BY RowsAreTyped DEF SessionsInv, SessionClientKnown, Assignment!AssignSaves
<1>1. sessionRow' = [sessionRow EXCEPT ![a] = Assignment!Row(c)] /\ sessionRow' \in [Accounts -> Assignment!Rows]
    BY <1>0 DEF Assignment!AssignSaves, SessionsInv, Assignment!TypeOK
<1>2. excused' \subseteq Clients /\ excused \subseteq excused'
    BY <1>0 DEF Assignment!AssignSaves, SessionsInv, Assignment!TypeOK
<1>3. ASSUME NEW client \in Clients \ excused'
      PROVE  Cardinality(Assignment!Of(client)') <= Limit
  <2>1. client \notin excused /\ Cardinality(Assignment!Of(client)) <= Limit
      BY <1>2, <1>3 DEF Assignment!LimitHeld, SessionsInv
  <2>2. CASE client # c
    <3>1. Assignment!Of(client)' \subseteq Assignment!Of(client)
        BY <1>0, <1>1, <2>2 DEF Assignment!Of, SessionsInv, Assignment!TypeOK
    <3> QED
        BY <2>1, <3>1, FewerSessions, OfIsFinite DEF Assignment!SessionsAssumption
  <2>3. CASE client = c
    <3>1. sessionRow[a] = sessionReq[q].copy[a] /\ Cardinality(Assignment!Of(c)) = sessionReq[q].count
        BY <1>3, <2>3 DEF Assignment!AssignSaves
    <3>2. sessionReq[q].copy[a].client = c \/ sessionReq[q].count < Limit
        BY <2>1, <2>3 DEF SessionsInv, CountedFits, Assignment!AssignSaves
    <3>3. CASE sessionReq[q].copy[a].client = c
      <4>1. Assignment!Of(client)' \subseteq Assignment!Of(client)
          BY <1>0, <1>1, <2>3, <3>1, <3>3 DEF Assignment!Of, SessionsInv, Assignment!TypeOK
      <4> QED
          BY <2>1, <4>1, FewerSessions, OfIsFinite DEF Assignment!SessionsAssumption
    <3>4. CASE sessionReq[q].count < Limit
      <4>1. Assignment!Of(client)' \subseteq Assignment!Of(client) \cup {a}
          BY <1>0, <1>1 DEF Assignment!Of, SessionsInv, Assignment!TypeOK
      <4>2. Cardinality(Assignment!Of(client)') <= Cardinality(Assignment!Of(client)) + 1 /\ Cardinality(Assignment!Of(client)') \in Nat
          BY <4>1, OneSessionMore
      <4> QED
          BY <2>3, <3>1, <3>4, <4>2, OfIsFinite DEF Assignment!SessionsAssumption
    <3> QED
        BY <3>2, <3>3, <3>4
  <2> QED
      BY <2>2, <2>3
<1> QED
    BY <1>1, <1>2, <1>3 DEF Assignment!LimitHeld

\* Nothing but the requests: the limit is untouched.
LEMMA RowsUntouched ==
    ASSUME Assignment!LimitHeld, UNCHANGED sessionRow, excused \subseteq excused'
    PROVE  Assignment!LimitHeld'
BY DEF Assignment!LimitHeld, Assignment!Of

\* A request that does not end up "counted" brings CountedFits nothing, and the
\* others only lose obligations.
LEMMA NotCounted ==
    ASSUME SessionsInv, NEW q \in AdminRequests, NEW r \in Assignment!ReqStates, sessionReq' = [sessionReq EXCEPT ![q] = r],
           excused \subseteq excused', r.at # "counted", r.at = "assign" => r.client \in Clients /\ \A a, b \in r.todo : a = b
    PROVE  SessionClientKnown' /\ OneSession' /\ CountedFits'
<1>1. sessionReq'[q] = r /\ \A p \in AdminRequests \ {q} : sessionReq'[p] = sessionReq[p]
    BY OneRequest DEF SessionsInv
<1>2. SessionClientKnown'
    BY <1>1 DEF SessionsInv, SessionClientKnown
<1>3. CountedFits'
    BY <1>1 DEF SessionsInv, CountedFits
<1>4. OneSession'
    BY <1>1 DEF SessionsInv, OneSession
<1> QED
    BY <1>2, <1>3, <1>4

-----------------------------------------------------------------------------
(* The invariant *)

LEMMA SessionsInit ==
    ASSUME Assignment!SessionsAssumption, Assignment!Init
    PROVE  SessionsInv
<1>1. Assignment!TypeOK
    BY SessionIdleTyped, RowsAreTyped DEF Assignment!Init, Assignment!TypeOK
<1>2. SessionClientKnown /\ OneSession /\ CountedFits
    BY SessionIdleTyped DEF Assignment!Init, SessionClientKnown, OneSession, CountedFits
<1>3. ASSUME NEW client \in Clients PROVE Cardinality(Assignment!Of(client)) <= Limit
  <2>1. Assignment!Of(client) = {}
      BY <1>3, RowsAreTyped DEF Assignment!Init, Assignment!Of, Assignment!SessionsAssumption
  <2> QED
      BY <2>1, FS_EmptySet DEF Assignment!SessionsAssumption
<1> QED
    BY <1>1, <1>2, <1>3 DEF SessionsInv, Assignment!LimitHeld

\* The steps that read, refuse or end.
LEMMA QuietStep ==
    ASSUME SessionsInv, NEW q \in AdminRequests, NEW r \in Assignment!ReqStates, Assignment!Becomes(q, r),
           UNCHANGED <<listed, sessionRow>>, excused \subseteq excused', excused' \subseteq Clients,
           r.at # "counted", r.at = "assign" => r.client \in Clients /\ \A a, b \in r.todo : a = b
    PROVE  SessionsInv'
<1>1. SessionClientKnown' /\ OneSession' /\ CountedFits'
    BY NotCounted DEF Assignment!Becomes
<1>2. Assignment!TypeOK'
    BY RequestTyped DEF SessionsInv, Assignment!TypeOK, Assignment!Becomes
<1>3. Assignment!LimitHeld'
    BY RowsUntouched DEF SessionsInv
<1> QED
    BY <1>1, <1>2, <1>3 DEF SessionsInv

\* The steps that count.
LEMMA CountingStep ==
    ASSUME Assignment!SessionsAssumption, SessionsInv, NEW q \in AdminRequests, NEW a \in Accounts,
           Assignment!AssignCounts(q, a) \/ Assignment!AssignOverrides(q, a)
    PROVE  SessionsInv'
<1> DEFINE r == [sessionReq[q] EXCEPT !.at = "counted", !.count = Cardinality(Assignment!Of(sessionReq[q].client))]
<1>1. sessionReq[q].client \in Clients /\ sessionReq[q] \in Assignment!ReqStates
    BY DEF Assignment!AssignCounts, Assignment!AssignOverrides, SessionsInv, Assignment!TypeOK, SessionClientKnown
<1>2. Cardinality(Assignment!Of(sessionReq[q].client)) \in 0..Cardinality(Accounts)
    BY OfIsFinite
<1>3. r \in Assignment!ReqStates /\ sessionReq' = [sessionReq EXCEPT ![q] = r]
    BY <1>1, <1>2 DEF Assignment!ReqStates, Assignment!AssignCounts, Assignment!AssignOverrides, Assignment!Becomes
<1>4. r.client = sessionReq[q].client /\ r.todo = sessionReq[q].todo /\ r.copy = sessionReq[q].copy
       /\ r.count = Cardinality(Assignment!Of(sessionReq[q].client))
    BY <1>1 DEF Assignment!ReqStates
<1> HIDE DEF r
<1>5. sessionReq'[q] = r /\ \A p \in AdminRequests \ {q} : sessionReq'[p] = sessionReq[p]
    BY <1>3, OneRequest DEF SessionsInv
<1>6. excused \subseteq excused' /\ excused' \subseteq Clients /\ UNCHANGED <<listed, sessionRow>>
    BY <1>1 DEF Assignment!AssignCounts, Assignment!AssignOverrides, SessionsInv, Assignment!TypeOK
<1>7. Assignment!TypeOK'
  <2>1. sessionReq' \in [AdminRequests -> Assignment!ReqStates]
      BY <1>3, RequestTyped DEF SessionsInv
  <2> QED
      BY <1>6, <2>1 DEF SessionsInv, Assignment!TypeOK
<1>8. SessionClientKnown'
    BY <1>1, <1>5, <1>4 DEF SessionsInv, SessionClientKnown
<1>9. OneSession'
  <2>1. sessionReq[q].at = "assign"
      BY DEF Assignment!AssignCounts, Assignment!AssignOverrides
  <2> QED
      BY <1>5, <1>4, <2>1 DEF SessionsInv, OneSession
<1>10. Assignment!LimitHeld'
    BY <1>6, RowsUntouched DEF SessionsInv
<1>11. CountedFits'
  <2> SUFFICES ASSUME NEW p \in AdminRequests, NEW b \in Accounts,
                      sessionReq'[p].at = "counted", b \in sessionReq'[p].todo, sessionReq'[p].client \notin excused'
               PROVE  sessionReq'[p].copy[b].client = sessionReq'[p].client \/ sessionReq'[p].count < Limit
      BY DEF CountedFits
  <2>1. CASE p # q
      BY <1>5, <1>6, <2>1 DEF SessionsInv, CountedFits
  <2>2. CASE p = q
    <3>1. /\ sessionReq'[p].client = sessionReq[q].client /\ sessionReq'[p].todo = sessionReq[q].todo
          /\ sessionReq'[p].copy = sessionReq[q].copy /\ sessionReq'[p].count = Cardinality(Assignment!Of(sessionReq[q].client))
        BY <1>5, <1>4, <2>2
    <3>2. b = a
        BY <3>1 DEF Assignment!AssignCounts, Assignment!AssignOverrides, OneSession, SessionsInv
    <3>3. CASE Assignment!AssignCounts(q, a)
      <4>1. ~(Assignment!LimitReached(q) /\ Assignment!IsNewAssignment(q, a))
          BY <3>3 DEF Assignment!AssignCounts
      <4> QED
          BY <3>1, <3>2, <4>1, OfIsFinite DEF Assignment!LimitReached, Assignment!IsNewAssignment, Assignment!SessionsAssumption
    <3>4. CASE Assignment!AssignOverrides(q, a)
        BY <3>1, <3>4 DEF Assignment!AssignOverrides
    <3> QED
        BY <3>3, <3>4
  <2> QED
      BY <2>1, <2>2
<1> QED
    BY <1>7, <1>8, <1>10, <1>11, <1>9 DEF SessionsInv

\* The steps that save.
LEMMA SavingStep ==
    ASSUME Assignment!SessionsAssumption, SessionsInv, NEW q \in AdminRequests, NEW a \in Accounts, NEW new \in Assignment!Rows,
           Assignment!Save(q, a, new), new \in {sessionReq[q].copy[a], Assignment!Row(Assignment!Nobody)},
           NEW r \in Assignment!ReqStates, Assignment!Becomes(q, r), r.at \in {"idle", "sync"}
    PROVE  SessionsInv'
<1>1. Assignment!LimitHeld' /\ sessionRow' \in [Accounts -> Assignment!Rows] /\ excused' \subseteq Clients
    BY SaveKeepsLimit DEF SessionsInv
<1>2. excused \subseteq excused' /\ UNCHANGED listed
    BY DEF Assignment!Save
<1>3. SessionClientKnown' /\ OneSession' /\ CountedFits'
    BY <1>2, NotCounted DEF Assignment!Becomes
<1>4. Assignment!TypeOK'
    BY <1>1, <1>2, RequestTyped DEF SessionsInv, Assignment!TypeOK, Assignment!Becomes
<1> QED
    BY <1>1, <1>3, <1>4 DEF SessionsInv

LEMMA AssigningStep ==
    ASSUME Assignment!SessionsAssumption, SessionsInv, NEW q \in AdminRequests, NEW a \in Accounts, Assignment!AssignSaves(q, a)
    PROVE  SessionsInv'
<1>1. Assignment!LimitHeld' /\ sessionRow' \in [Accounts -> Assignment!Rows] /\ excused' \subseteq Clients /\ excused \subseteq excused'
    BY AssignKeepsLimit
<1>2. Assignment!Idle \in Assignment!ReqStates /\ Assignment!Idle.at = "idle" /\ sessionReq' = [sessionReq EXCEPT ![q] = Assignment!Idle] /\ UNCHANGED listed
    BY SessionIdleTyped DEF Assignment!AssignSaves, Assignment!Becomes
<1>3. SessionClientKnown' /\ OneSession' /\ CountedFits'
    BY <1>1, <1>2, NotCounted
<1>4. Assignment!TypeOK'
    BY <1>1, <1>2, RequestTyped DEF SessionsInv, Assignment!TypeOK
<1> QED
    BY <1>1, <1>3, <1>4 DEF SessionsInv

-----------------------------------------------------------------------------
LEMMA SessionsNext ==
    ASSUME Assignment!SessionsAssumption, SessionsInv, [Assignment!Next]_Assignment!vars
    PROVE  SessionsInv'
<1> USE SessionIdleTyped, RowsAreTyped
<1>0. Assignment!TypeOK
    BY DEF SessionsInv
<1>1. ASSUME NEW a \in Accounts, Assignment!GatewayChanges(a) PROVE SessionsInv'
  <2>1. Assignment!TypeOK'
      BY <1>0, <1>1 DEF Assignment!GatewayChanges, Assignment!TypeOK
  <2>2. SessionClientKnown' /\ OneSession' /\ CountedFits' /\ Assignment!LimitHeld'
      BY <1>1 DEF Assignment!GatewayChanges, SessionsInv, SessionClientKnown, OneSession, CountedFits, Assignment!LimitHeld, Assignment!Of
  <2> QED
      BY <2>1, <2>2 DEF SessionsInv
<1>2. ASSUME NEW q \in AdminRequests, NEW a \in Accounts, NEW client \in Clients \cup {Assignment!Nobody},
             NEW kind \in {"assign", "unassign", "flag"}, Assignment!Reads(q, a, kind, client)
      PROVE  SessionsInv'
  <2> DEFINE r == [sessionReq[q] EXCEPT !.at = kind, !.client = client, !.todo = {a}, !.copy[a] = sessionRow[a]]
  <2>0. sessionReq[q] \in Assignment!ReqStates /\ sessionRow[a] \in Assignment!Rows
      BY <1>0 DEF Assignment!TypeOK
  <2>3. [sessionReq[q].copy EXCEPT ![a] = sessionRow[a]] \in [Accounts -> Assignment!Rows]
      BY <2>0 DEF Assignment!ReqStates
  <2>1. r \in Assignment!ReqStates /\ r.at = kind /\ r.client = client /\ r.todo = {a}
      BY <2>0, <2>3 DEF Assignment!ReqStates
  <2>2. Assignment!Becomes(q, r) /\ UNCHANGED <<listed, sessionRow, excused>> /\ (kind = "assign" <=> client # Assignment!Nobody)
      BY <1>2 DEF Assignment!Reads
  <2> HIDE DEF r
  <2> QED
      BY <1>0, <2>1, <2>2, QuietStep DEF Assignment!TypeOK
<1>3. ASSUME NEW q \in AdminRequests, NEW a \in Accounts, Assignment!AssignCounts(q, a) \/ Assignment!AssignOverrides(q, a)
      PROVE  SessionsInv'
    BY <1>3, CountingStep
<1>4. ASSUME NEW q \in AdminRequests, NEW a \in Accounts, Assignment!AssignRefused(q, a) \/ Assignment!SyncClashes(q, a)
      PROVE  SessionsInv'
    BY <1>0, <1>4, QuietStep DEF Assignment!AssignRefused, Assignment!SyncClashes, Assignment!TypeOK
<1>5. ASSUME NEW q \in AdminRequests, NEW a \in Accounts, Assignment!AssignSaves(q, a) PROVE SessionsInv'
    BY <1>5, AssigningStep
<1>6. ASSUME NEW q \in AdminRequests, NEW a \in Accounts, Assignment!UnassignSaves(q, a) \/ Assignment!FlagSaves(q, a) PROVE SessionsInv'
  <2>1. sessionReq[q].copy[a] \in Assignment!Rows /\ Assignment!Row(Assignment!Nobody) \in Assignment!Rows
      BY <1>0 DEF Assignment!TypeOK, Assignment!ReqStates
  <2> QED
      BY <1>6, <2>1, SavingStep DEF Assignment!UnassignSaves, Assignment!FlagSaves
<1>7. ASSUME NEW q \in AdminRequests, NEW a \in Accounts, Assignment!SyncSaves(q, a) PROVE SessionsInv'
  <2> DEFINE r == IF sessionReq[q].todo = {a} THEN Assignment!Idle ELSE [sessionReq[q] EXCEPT !.todo = @ \ {a}, !.copy[a] = Assignment!NoRow]
  <2>1. Assignment!Synced(q, a) \in Assignment!Rows /\ Assignment!Synced(q, a) \in {sessionReq[q].copy[a], Assignment!Row(Assignment!Nobody)}
      BY <1>0 DEF Assignment!TypeOK, Assignment!ReqStates, Assignment!Synced
  <2>2. r \in Assignment!ReqStates /\ r.at \in {"idle", "sync"}
      BY <1>0, <1>7 DEF Assignment!TypeOK, Assignment!ReqStates, Assignment!SyncSaves, Assignment!Turn
  <2>3. Assignment!Save(q, a, Assignment!Synced(q, a)) /\ Assignment!Becomes(q, r)
      BY <1>7 DEF Assignment!SyncSaves
  <2> HIDE DEF r
  <2> QED
      BY <2>1, <2>2, <2>3, SavingStep
<1>8. ASSUME NEW q \in AdminRequests, Assignment!SyncLists(q) PROVE SessionsInv'
  <2> DEFINE r == [sessionReq[q] EXCEPT !.at = "listed", !.seen = listed]
  <2>1. r \in Assignment!ReqStates /\ r.at = "listed"
      BY <1>0 DEF Assignment!TypeOK, Assignment!ReqStates
  <2>2. Assignment!Becomes(q, r) /\ UNCHANGED <<listed, sessionRow, excused>>
      BY <1>8 DEF Assignment!SyncLists
  <2> HIDE DEF r
  <2> QED
      BY <1>0, <2>1, <2>2, QuietStep DEF Assignment!TypeOK
<1>9. ASSUME NEW q \in AdminRequests, Assignment!SyncReads(q) PROVE SessionsInv'
  <2> DEFINE r == [sessionReq[q] EXCEPT !.at = "sync", !.copy = sessionRow,
                                 !.todo = sessionReq[q].seen \cup {a \in Accounts : sessionRow[a] # Assignment!NoRow}]
  <2>0. /\ sessionReq[q] \in Assignment!ReqStates /\ sessionReq[q].seen \in SUBSET Accounts
        /\ sessionRow \in [Accounts -> Assignment!Rows]
      BY <1>0 DEF Assignment!TypeOK, Assignment!ReqStates
  <2>1. r \in Assignment!ReqStates /\ r.at = "sync"
    <3>1. sessionReq[q].seen \cup {a \in Accounts : sessionRow[a] # Assignment!NoRow} \in SUBSET Accounts
        BY <2>0
    <3> QED
        BY <2>0, <3>1 DEF Assignment!ReqStates
  <2>2. Assignment!Becomes(q, r) /\ UNCHANGED <<listed, sessionRow, excused>>
      BY <1>9 DEF Assignment!SyncReads
  <2> HIDE DEF r
  <2> QED
      BY <1>0, <2>1, <2>2, QuietStep DEF Assignment!TypeOK
<1>10. ASSUME NEW q \in AdminRequests, Assignment!SyncEmpty(q) PROVE SessionsInv'
    BY <1>0, <1>10, QuietStep DEF Assignment!SyncEmpty, Assignment!TypeOK
<1>11. CASE UNCHANGED Assignment!vars
  <2>1. Assignment!TypeOK'
      BY <1>0, <1>11 DEF Assignment!vars, Assignment!TypeOK
  <2>2. SessionClientKnown' /\ OneSession' /\ CountedFits' /\ Assignment!LimitHeld'
      BY <1>11 DEF Assignment!vars, SessionsInv, SessionClientKnown, OneSession, CountedFits, Assignment!LimitHeld, Assignment!Of
  <2> QED
      BY <2>1, <2>2 DEF SessionsInv
<1> QED
    BY <1>1, <1>2, <1>3, <1>4, <1>5, <1>6, <1>7, <1>8, <1>9, <1>10, <1>11 DEF Assignment!Next

HIDE SessionsCount

LEMMA SessionsInvariant == Spec => []SessionsInv
<1>0. Assignment!SessionsAssumption
    BY ServicesAssumption DEF ServicesAssumption
<1>1. Init => SessionsInv
    BY <1>0, SessionsInit DEF Init
<1>2. SessionsInv /\ [Next]_vars => SessionsInv'
  <2> SUFFICES ASSUME SessionsInv, [Next]_vars PROVE SessionsInv'
      OBVIOUS
  <2>1. [Assignment!Next]_Assignment!vars
      BY EachServiceSteps
  <2> QED
      BY <1>0, <2>1, SessionsNext
<1> QED
    BY <1>1, <1>2, PTL DEF Spec

\* The account limit holds for every client whose requests have not overlapped and
\* whom no super admin has excused (OmegaAdminService.assignSession).
THEOREM LimitAlwaysHeld == Spec => []LimitHeld
<1>1. SessionsInv => LimitHeld
    BY DEF SessionsInv, LimitHeld
<1> QED
    BY <1>1, SessionsInvariant, PTL

-----------------------------------------------------------------------------
(* The settings of GroupTranslation.  A handler's copy may differ from the state it has      *)
(* loaded (its base) by what has been learned, never by a setting; and a save over another   *)
(* state than the base is a torn one.                                                        *)

Person == {x \in Group!Participant : Group!WellFormed(x)}
Documents == [announced : BOOLEAN, active : BOOLEAN, people : [Participants -> Person]]

HandlerStates == [at : {"idle", "announcing", "loaded", "command", "detecting", "saving"},
                  base : Documents, copy : Documents,
                  who : Participants \cup {Group!None}, heard : Languages \cup {Group!None}]

GroupTyped == group \in Documents /\ ordered \in Documents /\ handler \in [Handlers -> HandlerStates]

\* Document a has the settings of document b.
SameSettings(a, b) ==
    /\ a.active = b.active
    /\ \A p \in Participants :
           /\ a.people[p].enabled = b.people[p].enabled
           /\ a.people[p].pinned = b.people[p].pinned
           /\ b.people[p].pinned => a.people[p].lang = b.people[p].lang

CopiesKeep ==
    \A h \in Handlers :
        /\ SameSettings(handler[h].copy, handler[h].base)
        /\ handler[h].at = "detecting" => handler[h].who \in Participants

GroupInv == GroupTyped /\ CopiesKeep /\ Group!SettingsStand

LEMMA NoneIsNone == Group!None \notin Languages /\ Group!None \notin Participants
BY ServicesAssumption DEF ServicesAssumption, Group!None

-----------------------------------------------------------------------------
(* Documents *)

LEMMA NewStateTyped == Group!NewState \in Documents
BY DEF Group!NewState, Documents, Person, Group!Participant, Group!WellFormed, Group!None, Group!NewParticipant

LEMMA SameIsTransitive ==
    ASSUME NEW a, NEW b, NEW c, SameSettings(a, b), SameSettings(b, c)
    PROVE  SameSettings(a, c)
BY DEF SameSettings

LEMMA StandMeansSame == Group!SettingsStand <=> (~ groupTorn => SameSettings(group, ordered))
BY DEF Group!SettingsStand, SameSettings

\* A greeting sets nothing.
LEMMA GreetedSame ==
    ASSUME NEW s \in Documents
    PROVE  /\ [s EXCEPT !.announced = TRUE] \in Documents
           /\ SameSettings([s EXCEPT !.announced = TRUE], s)
BY DEF Documents, SameSettings

\* What is learned of a participant leaves a pinned one alone.
LEMMA LearnedKeeps ==
    ASSUME NEW person \in Person, NEW heard \in Languages
    PROVE  /\ Group!Learned(person, heard) \in Person
           /\ Group!Learned(person, heard).enabled = person.enabled
           /\ Group!Learned(person, heard).pinned = person.pinned
           /\ person.pinned => Group!Learned(person, heard) = person
BY NoneIsNone DEF Group!Learned, Person, Group!Participant, Group!WellFormed, Group!None

LEMMA LearnedSame ==
    ASSUME NEW s \in Documents, NEW p \in Participants, NEW heard \in Languages
    PROVE  /\ [s EXCEPT !.people[p] = Group!Learned(@, heard)] \in Documents
           /\ SameSettings([s EXCEPT !.people[p] = Group!Learned(@, heard)], s)
<1> DEFINE person == s.people[p]
           new == Group!Learned(person, heard)
           people == [s.people EXCEPT ![p] = new]
           t == [s EXCEPT !.people = people]
<1>1. s.people \in [Participants -> Person] /\ person \in Person
    BY DEF Documents
<1>2. new \in Person /\ new.enabled = person.enabled /\ new.pinned = person.pinned
      /\ (person.pinned => new = person)
    BY <1>1, LearnedKeeps
<1> HIDE DEF new
<1>3. people \in [Participants -> Person] /\ people[p] = new
      /\ \A q \in Participants \ {p} : people[q] = s.people[q]
    BY <1>1, <1>2
<1> HIDE DEF people
<1>4. t \in Documents /\ t.people = people /\ t.active = s.active
    BY <1>3 DEF Documents
<1>5. SameSettings(t, s)
  <2> HIDE DEF t
  <2> QED
      BY <1>2, <1>3, <1>4 DEF SameSettings
<1>6. t = [s EXCEPT !.people[p] = Group!Learned(@, heard)]
    BY DEF people, new
<1> QED
    BY <1>4, <1>5, <1>6

\* Two participants with the same settings.
Alike(x, y) ==
    x.enabled = y.enabled /\ x.pinned = y.pinned /\ (y.pinned => x.lang = y.lang)

LEMMA PersonReplaced ==
    ASSUME NEW s \in Documents, NEW p \in Participants, NEW x \in Person
    PROVE  /\ [s EXCEPT !.people[p] = x] \in Documents
           /\ [s EXCEPT !.people[p] = x].active = s.active
           /\ [s EXCEPT !.people[p] = x].people[p] = x
           /\ \A q \in Participants \ {p} : [s EXCEPT !.people[p] = x].people[q] = s.people[q]
BY DEF Documents

LEMMA AlikeReplaced ==
    ASSUME NEW a \in Documents, NEW b \in Documents, NEW p \in Participants,
           NEW x \in Person, NEW y \in Person,
           SameSettings(a, b), Alike(a.people[p], b.people[p]) => Alike(x, y)
    PROVE  SameSettings([a EXCEPT !.people[p] = x], [b EXCEPT !.people[p] = y])
<1> DEFINE c == [a EXCEPT !.people[p] = x]
           d == [b EXCEPT !.people[p] = y]
<1>1. /\ c.active = a.active /\ c.people[p] = x
      /\ \A q \in Participants \ {p} : c.people[q] = a.people[q]
    BY DEF Documents
<1>2. /\ d.active = b.active /\ d.people[p] = y
      /\ \A q \in Participants \ {p} : d.people[q] = b.people[q]
    BY DEF Documents
<1> HIDE DEF c, d
<1>3. Alike(x, y)
    BY DEF SameSettings, Alike
<1>4. SameSettings(c, d)
    BY <1>1, <1>2, <1>3 DEF SameSettings, Alike
<1> QED
    BY <1>4 DEF c, d

\* A command sets the same in both.
LEMMA CommandedSame ==
    ASSUME NEW a \in Documents, NEW b \in Documents, NEW command \in Group!Commands, NEW p \in Participants,
           NEW lang \in Languages
    PROVE  /\ Group!Commanded(a, command, p, lang) \in Documents
           /\ SameSettings(a, b) =>
                  SameSettings(Group!Commanded(a, command, p, lang), Group!Commanded(b, command, p, lang))
<1> DEFINE x == a.people[p]
           y == b.people[p]
<1>0. x \in Person /\ y \in Person
    BY DEF Documents
<1>1. CASE command \in {"on", "off"}
  <2>1. \A s \in Documents : /\ Group!Commanded(s, command, p, lang) \in Documents
                          /\ Group!Commanded(s, command, p, lang).active = (command = "on")
                          /\ Group!Commanded(s, command, p, lang).people = s.people
      BY <1>1 DEF Group!Commanded, Documents
  <2> QED
      BY <2>1 DEF SameSettings
<1>2. CASE command \in {"ignore", "unignore"}
  <2> DEFINE u == [x EXCEPT !.enabled = (command = "unignore")]
             v == [y EXCEPT !.enabled = (command = "unignore")]
  <2>1. /\ Group!Commanded(a, command, p, lang) = [a EXCEPT !.people[p] = u]
        /\ Group!Commanded(b, command, p, lang) = [b EXCEPT !.people[p] = v]
      BY <1>2 DEF Group!Commanded
  <2>2. u \in Person /\ v \in Person /\ (Alike(x, y) => Alike(u, v))
      BY <1>0, NoneIsNone DEF Person, Group!Participant, Group!WellFormed, Group!None, Alike
  <2> HIDE DEF u, v
  <2> QED
      BY <2>1, <2>2, PersonReplaced, AlikeReplaced
<1>3. CASE command = "setlang"
  <2> DEFINE u == [x EXCEPT !.lang = lang, !.pinned = TRUE, !.pending = Group!None]
             v == [y EXCEPT !.lang = lang, !.pinned = TRUE, !.pending = Group!None]
  <2>1. /\ Group!Commanded(a, command, p, lang) = [a EXCEPT !.people[p] = u]
        /\ Group!Commanded(b, command, p, lang) = [b EXCEPT !.people[p] = v]
      BY <1>3 DEF Group!Commanded
  <2>2. u \in Person /\ v \in Person /\ (Alike(x, y) => Alike(u, v))
      BY <1>0, NoneIsNone DEF Person, Group!Participant, Group!WellFormed, Group!None, Alike
  <2> HIDE DEF u, v
  <2> QED
      BY <2>1, <2>2, PersonReplaced, AlikeReplaced
<1>4. CASE command = "auto"
  <2> DEFINE u == [x EXCEPT !.pinned = FALSE, !.pending = Group!None]
             v == [y EXCEPT !.pinned = FALSE, !.pending = Group!None]
  <2>1. /\ Group!Commanded(a, command, p, lang) = [a EXCEPT !.people[p] = u]
        /\ Group!Commanded(b, command, p, lang) = [b EXCEPT !.people[p] = v]
      BY <1>4 DEF Group!Commanded
  <2>2. u \in Person /\ v \in Person /\ (Alike(x, y) => Alike(u, v))
      BY <1>0, NoneIsNone DEF Person, Group!Participant, Group!WellFormed, Group!None, Alike
  <2> HIDE DEF u, v
  <2> QED
      BY <2>1, <2>2, PersonReplaced, AlikeReplaced
<1> QED
    BY <1>1, <1>2, <1>3, <1>4 DEF Group!Commands

-----------------------------------------------------------------------------
(* Every step keeps the invariant *)

HandlerBecomes(h, r) == handler' = [handler EXCEPT ![h] = r]

\* A handler goes on with a copy that has the settings of its base.
LEMMA HandlerKeeps ==
    ASSUME GroupTyped, CopiesKeep, NEW h \in Handlers, NEW r \in HandlerStates, HandlerBecomes(h, r),
           SameSettings(r.copy, r.base), r.at = "detecting" => r.who \in Participants
    PROVE  handler' \in [Handlers -> HandlerStates] /\ CopiesKeep'
<1>1. /\ handler' \in [Handlers -> HandlerStates] /\ handler'[h] = r
      /\ \A g \in Handlers \ {h} : handler'[g] = handler[g]
    BY DEF GroupTyped, HandlerBecomes
<1> QED
    BY <1>1 DEF CopiesKeep

LEMMA IdleKeeps == Group!Idle \in HandlerStates /\ SameSettings(Group!Idle.copy, Group!Idle.base) /\ Group!Idle.at = "idle"
BY NewStateTyped DEF Group!Idle, HandlerStates, SameSettings

LEMMA GroupNext == GroupInv /\ [Group!Next]_Group!vars => GroupInv'
<1> SUFFICES ASSUME GroupInv, [Group!Next]_Group!vars PROVE GroupInv'
    OBVIOUS
<1>0. GroupTyped /\ CopiesKeep /\ (~ groupTorn => SameSettings(group, ordered))
    BY StandMeansSame DEF GroupInv
<1>1. ASSUME (~ groupTorn => SameSettings(group, ordered))', GroupTyped', CopiesKeep' PROVE GroupInv'
    BY <1>1 DEF GroupInv, Group!SettingsStand, SameSettings
<1>2. CASE UNCHANGED Group!vars
    BY <1>2 DEF Group!vars, GroupInv, GroupTyped, CopiesKeep, Group!SettingsStand
<1>3. ASSUME NEW h \in Handlers
      PROVE  /\ handler[h] \in HandlerStates
             /\ handler[h].copy \in Documents /\ handler[h].base \in Documents
             /\ SameSettings(handler[h].copy, handler[h].base)
    BY <1>0, <1>3 DEF GroupTyped, HandlerStates, CopiesKeep
<1>4. ASSUME NEW h \in Handlers, Group!MessageBegins(h)
      PROVE  GroupInv'
  <2> DEFINE r == [Group!Idle EXCEPT !.at = IF group.announced THEN "loaded" ELSE "announcing",
                               !.base = group, !.copy = group]
  <2>1. r.at \in {"loaded", "announcing"} /\ r.base = group /\ r.copy = group /\ r \in HandlerStates
      BY <1>0 DEF GroupTyped, Group!Idle, HandlerStates
  <2>2. HandlerBecomes(h, r) /\ UNCHANGED <<group, ordered, groupTorn>>
      BY <1>4 DEF Group!MessageBegins, HandlerBecomes
  <2>3. SameSettings(r.copy, r.base)
    <3> HIDE DEF r
    <3> QED
        BY <2>1 DEF SameSettings
  <2> HIDE DEF r
  <2>4. handler' \in [Handlers -> HandlerStates] /\ CopiesKeep'
      BY <1>0, <2>1, <2>2, <2>3, HandlerKeeps
  <2> QED
      BY <1>0, <1>1, <2>2, <2>4 DEF GroupTyped
<1>5. ASSUME NEW h \in Handlers, NEW new \in Documents, group' = new,
             groupTorn' = (groupTorn \/ group # handler[h].base), UNCHANGED ordered,
             SameSettings(new, handler[h].copy)
      PROVE  (~ groupTorn => SameSettings(group, ordered))'
  <2>1. ASSUME ~ groupTorn'
        PROVE  SameSettings(new, ordered)
    <3>1. ~ groupTorn /\ group = handler[h].base
        BY <1>5, <2>1, Zenon
    <3>2. SameSettings(handler[h].copy, group) /\ SameSettings(group, ordered)
        BY <1>0, <1>3, <3>1
    <3> QED
        BY <1>5, <3>2, SameIsTransitive
  <2> QED
      BY <1>5, <2>1
<1>6. ASSUME NEW h \in Handlers, Group!Announces(h)
      PROVE  GroupInv'
  <2> DEFINE greeted == [handler[h].copy EXCEPT !.announced = TRUE]
             r == [handler[h] EXCEPT !.at = "loaded", !.copy = greeted, !.base = greeted]
  <2>1. greeted \in Documents /\ SameSettings(greeted, handler[h].copy)
      BY <1>3, GreetedSame
  <2>2. group' = greeted /\ groupTorn' = (groupTorn \/ group # handler[h].base) /\ UNCHANGED ordered
      BY <1>6 DEF Group!Announces
  <2>3. handler' = [handler EXCEPT ![h].at = "loaded", ![h].copy = greeted, ![h].base = greeted]
      BY <1>6 DEF Group!Announces
  <2> HIDE DEF greeted
  <2>4. r \in HandlerStates /\ r.at = "loaded" /\ r.copy = greeted /\ r.base = greeted
      BY <1>3, <2>1 DEF HandlerStates
  <2>5. HandlerBecomes(h, r)
      BY <2>3 DEF HandlerBecomes
  <2>6. SameSettings(greeted, greeted)
      BY DEF SameSettings
  <2> HIDE DEF r
  <2>7. handler' \in [Handlers -> HandlerStates] /\ CopiesKeep'
      BY <1>0, <2>4, <2>5, <2>6, HandlerKeeps
  <2>8. (~ groupTorn => SameSettings(group, ordered))'
      BY <1>5, <2>1, <2>2
  <2> QED
      BY <1>0, <1>1, <2>1, <2>2, <2>7, <2>8 DEF GroupTyped
<1>7. ASSUME NEW h \in Handlers, Group!MessageDropped(h)
      PROVE  GroupInv'
  <2>1. HandlerBecomes(h, Group!Idle) /\ UNCHANGED <<group, ordered, groupTorn>>
      BY <1>7 DEF Group!MessageDropped, HandlerBecomes
  <2>2. handler' \in [Handlers -> HandlerStates] /\ CopiesKeep'
      BY <1>0, <2>1, HandlerKeeps, IdleKeeps
  <2> QED
      BY <1>0, <1>1, <2>1, <2>2 DEF GroupTyped
<1>8. ASSUME NEW h \in Handlers, Group!TranslationSaves(h)
      PROVE  GroupInv'
  <2>1. HandlerBecomes(h, Group!Idle) /\ group' = handler[h].copy /\ UNCHANGED ordered
        /\ groupTorn' = (groupTorn \/ group # handler[h].base)
      BY <1>8 DEF Group!TranslationSaves, Group!Save, HandlerBecomes
  <2>2. handler' \in [Handlers -> HandlerStates] /\ CopiesKeep'
      BY <1>0, <2>1, HandlerKeeps, IdleKeeps
  <2>3. SameSettings(handler[h].copy, handler[h].copy)
      BY DEF SameSettings
  <2>4. (~ groupTorn => SameSettings(group, ordered))'
      BY <1>3, <1>5, <2>1, <2>3
  <2> QED
      BY <1>0, <1>1, <1>3, <2>1, <2>2, <2>4 DEF GroupTyped
<1>9. ASSUME NEW h \in Handlers, NEW command \in Group!Commands, NEW p \in Participants,
             NEW lang \in Languages, Group!CommandSaves(h, command, p, lang)
      PROVE  GroupInv'
  <2> DEFINE c == handler[h].copy
  <2>1. /\ HandlerBecomes(h, Group!Idle)
        /\ group' = Group!Commanded(c, command, p, lang)
        /\ ordered' = Group!Commanded(ordered, command, p, lang)
        /\ groupTorn' = (groupTorn \/ group # handler[h].base)
      BY <1>9 DEF Group!CommandSaves, HandlerBecomes
  <2>2. handler' \in [Handlers -> HandlerStates] /\ CopiesKeep'
      BY <1>0, <2>1, HandlerKeeps, IdleKeeps
  <2>3. c \in Documents /\ ordered \in Documents
      BY <1>0, <1>3 DEF GroupTyped
  <2>4. group' \in Documents /\ ordered' \in Documents
      BY <2>1, <2>3, CommandedSame
  <2>5. ASSUME ~ groupTorn'
        PROVE  SameSettings(group', ordered')
    <3>1. ~ groupTorn /\ group = handler[h].base
        BY <2>1, <2>5, Zenon
    <3>2. SameSettings(c, group) /\ SameSettings(group, ordered)
        BY <1>0, <1>3, <3>1
    <3>3. SameSettings(c, ordered)
        BY <3>2, SameIsTransitive
    <3> QED
        BY <2>1, <2>3, <3>3, CommandedSame
  <2> QED
      BY <1>1, <2>2, <2>4, <2>5 DEF GroupTyped
<1>10. ASSUME NEW h \in Handlers, NEW p \in Participants, Group!TranslationBegins(h, p)
       PROVE  GroupInv'
  <2> DEFINE r == [handler[h] EXCEPT !.at = "detecting", !.who = p]
  <2>1. r \in HandlerStates /\ r.copy = handler[h].copy /\ r.base = handler[h].base /\ r.who = p
      BY <1>3 DEF HandlerStates
  <2>2. HandlerBecomes(h, r) /\ UNCHANGED <<group, ordered, groupTorn>>
      BY <1>10 DEF Group!TranslationBegins, HandlerBecomes
  <2> HIDE DEF r
  <2>3. handler' \in [Handlers -> HandlerStates] /\ CopiesKeep'
      BY <1>0, <1>3, <2>1, <2>2, HandlerKeeps
  <2> QED
      BY <1>0, <1>1, <2>2, <2>3 DEF GroupTyped
<1>11. ASSUME NEW h \in Handlers, NEW lang \in Languages, Group!Detects(h, lang)
       PROVE  GroupInv'
  <2> DEFINE who == handler[h].who
             learned == [handler[h].copy EXCEPT !.people[who] = Group!Learned(@, lang)]
             r == [handler[h] EXCEPT !.at = "saving", !.heard = lang, !.copy = learned]
  <2>1. who \in Participants
      BY <1>0, <1>11 DEF CopiesKeep, Group!Detects
  <2>2. learned \in Documents /\ SameSettings(learned, handler[h].copy)
      BY <1>3, <2>1, LearnedSame
  <2>3. SameSettings(learned, handler[h].base)
      BY <1>3, <2>2, SameIsTransitive
  <2>4. HandlerBecomes(h, r) /\ UNCHANGED <<group, ordered, groupTorn>>
      BY <1>11 DEF Group!Detects, HandlerBecomes
  <2> HIDE DEF learned
  <2>5. r \in HandlerStates /\ r.copy = learned /\ r.base = handler[h].base /\ r.at = "saving"
      BY <1>3, <2>2 DEF HandlerStates
  <2> HIDE DEF r
  <2>6. handler' \in [Handlers -> HandlerStates] /\ CopiesKeep'
      BY <1>0, <2>3, <2>4, <2>5, HandlerKeeps
  <2> QED
      BY <1>0, <1>1, <2>4, <2>6 DEF GroupTyped
<1> QED
    BY <1>2, <1>4, <1>6, <1>7, <1>8, <1>9, <1>10, <1>11 DEF Group!Next

-----------------------------------------------------------------------------
LEMMA GroupInit == Group!Init => GroupInv
<1> SUFFICES ASSUME Group!Init PROVE GroupInv
    OBVIOUS
<1>1. GroupTyped
    BY NewStateTyped, IdleKeeps DEF Group!Init, GroupTyped
<1>2. CopiesKeep
    BY IdleKeeps DEF Group!Init, CopiesKeep
<1>3. SameSettings(group, ordered)
    BY DEF Group!Init, SameSettings
<1> QED
    BY <1>1, <1>2, <1>3, StandMeansSame DEF GroupInv

LEMMA GroupInvariant == Spec => []GroupInv
<1>1. Init => GroupInv
    BY GroupInit DEF Init
<1>2. GroupInv /\ [Next]_vars => GroupInv'
  <2> SUFFICES ASSUME GroupInv, [Next]_vars PROVE GroupInv'
      OBVIOUS
  <2>1. [Group!Next]_Group!vars
      BY EachServiceSteps
  <2> QED
      BY <2>1, GroupNext
<1> QED
    BY <1>1, <1>2, PTL DEF Spec

\* TranslationCoordinator: whatever is learned while replies are awaited, a pinned
\* language, an ignored participant and the group's switch stay as commanded, unless
\* two messages handled at once have saved over each other.
THEOREM SettingsAlwaysStand == Spec => []SettingsStand
<1>1. GroupInv => SettingsStand
    BY DEF GroupInv, SettingsStand
<1> QED
    BY <1>1, GroupInvariant, PTL

LEMMA GroupTornStep ==
    ASSUME groupTorn \in BOOLEAN, [Group!Next]_Group!vars
    PROVE  groupTorn' \in BOOLEAN
<1>1. ASSUME NEW h \in Handlers, groupTorn' = (groupTorn \/ group # handler[h].base)
      PROVE  groupTorn' \in BOOLEAN
    BY <1>1, Zenon
<1>2. ASSUME NEW h \in Handlers, Group!Announces(h) PROVE groupTorn' \in BOOLEAN
    BY <1>1, <1>2, Zenon DEF Group!Announces
<1>3. ASSUME NEW h \in Handlers, Group!TranslationSaves(h) PROVE groupTorn' \in BOOLEAN
    BY <1>1, <1>3, Zenon DEF Group!TranslationSaves, Group!Save
<1>4. ASSUME NEW h \in Handlers, NEW command, NEW p, NEW lang, Group!CommandSaves(h, command, p, lang)
      PROVE groupTorn' \in BOOLEAN
    BY <1>1, <1>4, Zenon DEF Group!CommandSaves
<1>5. CASE UNCHANGED groupTorn
    BY <1>5
<1>6. ASSUME NEW h \in Handlers, Group!MessageBegins(h) \/ Group!MessageDropped(h)
      PROVE  UNCHANGED groupTorn
    BY <1>6 DEF Group!MessageBegins, Group!MessageDropped
<1>7. ASSUME NEW h \in Handlers, NEW p, NEW lang, Group!TranslationBegins(h, p) \/ Group!Detects(h, lang)
      PROVE  UNCHANGED groupTorn
    BY <1>7 DEF Group!TranslationBegins, Group!Detects
<1>8. CASE UNCHANGED Group!vars
    BY <1>5, <1>8 DEF Group!vars
<1> QED
    BY <1>2, <1>3, <1>4, <1>5, <1>6, <1>7, <1>8 DEF Group!Next

LEMMA GroupTypes == GroupInv /\ groupTorn \in BOOLEAN => Group!TypeOK
<1> SUFFICES ASSUME GroupInv, groupTorn \in BOOLEAN PROVE Group!TypeOK
    OBVIOUS
<1>1. Documents \subseteq Group!States
    BY DEF Documents, Group!States, Person
<1>2. group \in Group!States /\ \A p \in Participants : Group!WellFormed(group.people[p])
    BY <1>1 DEF GroupInv, GroupTyped, Documents, Person
<1>3. \A h \in Handlers : handler[h] \in [at : {"idle", "announcing", "loaded", "command", "detecting", "saving"},
                                 base : Group!States, copy : Group!States,
                                 who : Participants \cup {Group!None}, heard : Languages \cup {Group!None}]
    BY <1>1 DEF GroupInv, GroupTyped, HandlerStates
<1> QED
    BY <1>2, <1>3 DEF GroupInv, GroupTyped, Group!TypeOK

-----------------------------------------------------------------------------
(* The uses of an API key (ApiKeyUsage).  Only a flush brings uses, to a row it has found;   *)
(* what the accumulator and the flushes hold are never more than the uses there have been.   *)

KeyReqs == [at : {"idle", "validate", "flush", "edit", "revoke", "revoking", "delete", "deleting"},
            read : Keys!Row, adds : 0..MaxUses]

KeysTyped ==
    /\ keyRow \in Keys!Row
    /\ keyPending \in 0..MaxUses
    /\ keyReq \in [KeyRequests -> KeyReqs]
    /\ keyUses \in 0..MaxUses

FlushesBring ==
    \A q \in KeyRequests :
        /\ keyReq[q].adds > 0 => keyReq[q].at = "flush"
        /\ keyReq[q].at = "flush" => keyReq[q].read.exists

\* What each request brings, and the uses it thereby stands for.
Brought == [q \in KeyRequests |-> keyReq[q].adds]
Each(f) == {u \in KeyRequests \X (1..MaxUses) : u[2] <= f[u[1]]}
EachBut(f, q) == {u \in Each(f) : u[1] # q}

Carried == Cardinality(Each(Brought))

UsesCover == keyPending + Carried <= keyUses

RowExact == ~ keyTorn /\ keyRow.exists => keyRow.count + keyPending + Carried = keyUses

KeysInv == KeysTyped /\ FlushesBring /\ UsesCover /\ RowExact

LEMMA KeysBound == IsFiniteSet(KeyRequests) /\ MaxUses \in Nat
BY ServicesAssumption DEF ServicesAssumption

LEMMA EachIsFinite ==
    ASSUME NEW f \in [KeyRequests -> 0..MaxUses]
    PROVE  /\ IsFiniteSet(Each(f)) /\ Cardinality(Each(f)) \in Nat
           /\ \A q \in KeyRequests : /\ IsFiniteSet(EachBut(f, q))
                                     /\ Cardinality(EachBut(f, q)) \in Nat
                                     /\ Cardinality(Each(f)) = Cardinality(EachBut(f, q)) + f[q]
<1>1. IsFiniteSet(1..MaxUses)
    BY KeysBound, FS_Interval
<1>2. IsFiniteSet(KeyRequests \X (1..MaxUses))
    BY <1>1, KeysBound, FS_Product
<1>3. IsFiniteSet(Each(f)) /\ Cardinality(Each(f)) \in Nat
  <2>1. Each(f) \subseteq KeyRequests \X (1..MaxUses)
      BY DEF Each
  <2> QED
      BY <1>2, <2>1, FS_Subset, FS_CardinalityType
<1>4. ASSUME NEW q \in KeyRequests
      PROVE  /\ IsFiniteSet(EachBut(f, q)) /\ Cardinality(EachBut(f, q)) \in Nat
             /\ Cardinality(Each(f)) = Cardinality(EachBut(f, q)) + f[q]
  <2> DEFINE n == f[q]
             own == {q} \X (1..n)
  <2>1. n \in Nat /\ n <= MaxUses
      BY KeysBound
  <2>2. IsFiniteSet(EachBut(f, q)) /\ Cardinality(EachBut(f, q)) \in Nat
    <3>1. EachBut(f, q) \subseteq Each(f)
        BY DEF EachBut
    <3> QED
        BY <1>3, <3>1, FS_Subset, FS_CardinalityType
  <2>3. IsFiniteSet(own) /\ Cardinality(own) = n
    <3>1. IsFiniteSet(1..n) /\ Cardinality(1..n) = n
      <4> HIDE DEF n
      <4>1. 1 \in Int /\ n \in Int
          BY <2>1
      <4>2. IsFiniteSet(1..n) /\ Cardinality(1..n) = IF 1 > n THEN 0 ELSE n - 1 + 1
          BY <4>1, FS_Interval
      <4> QED
          BY <2>1, <4>2
    <3>2. IsFiniteSet({q}) /\ Cardinality({q}) = 1
        BY FS_Singleton
    <3>3. IsFiniteSet(own) /\ Cardinality(own) = Cardinality({q}) * Cardinality(1..n)
        BY <3>1, <3>2, FS_Product
    <3> HIDE DEF n, own
    <3> QED
        BY <2>1, <3>1, <3>2, <3>3
  <2>4. Each(f) = EachBut(f, q) \cup own
    <3>1. \A u \in own : u \in Each(f)
        BY <2>1, KeysBound DEF Each
    <3>2. \A u \in Each(f) : u \notin EachBut(f, q) => u \in own
        BY <2>1, KeysBound DEF Each, EachBut
    <3> QED
        BY <3>1, <3>2 DEF EachBut
  <2>5. EachBut(f, q) \cap own = {}
      BY DEF EachBut
  <2>6. Cardinality(EachBut(f, q) \cup own)
            = Cardinality(EachBut(f, q)) + Cardinality(own) - Cardinality(EachBut(f, q) \cap own)
    <3> HIDE DEF own
    <3> QED
        BY <2>2, <2>3, FS_Union
  <2> HIDE DEF n, own
  <2>7. Cardinality(EachBut(f, q) \cap own) = 0
      BY <2>5, FS_EmptySet
  <2>8. Cardinality(Each(f)) = Cardinality(EachBut(f, q)) + n
      BY <2>1, <2>2, <2>3, <2>4, <2>6, <2>7
  <2> QED
      BY <2>2, <2>8 DEF n
<1> QED
    BY <1>3, <1>4

LEMMA BroughtTyped ==
    ASSUME KeysTyped
    PROVE  Brought \in [KeyRequests -> 0..MaxUses] /\ Carried \in Nat
<1>1. Brought \in [KeyRequests -> 0..MaxUses]
    BY DEF KeysTyped, KeyReqs, Brought
<1> QED
    BY <1>1, EachIsFinite DEF Carried

\* One request becomes r: what is carried changes by what r brings.
LEMMA OneKeyRequest ==
    ASSUME KeysTyped, FlushesBring, NEW q \in KeyRequests, NEW r \in KeyReqs,
           keyReq' = [keyReq EXCEPT ![q] = r],
           r.adds > 0 => r.at = "flush", r.at = "flush" => r.read.exists
    PROVE  /\ keyReq' \in [KeyRequests -> KeyReqs] /\ FlushesBring'
           /\ Carried' \in Nat /\ Carried \in Nat
           /\ Carried' = Carried - keyReq[q].adds + r.adds
<1>1. /\ keyReq' \in [KeyRequests -> KeyReqs] /\ keyReq'[q] = r
      /\ \A p \in KeyRequests \ {q} : keyReq'[p] = keyReq[p]
    BY DEF KeysTyped
<1>2. FlushesBring'
    BY <1>1 DEF FlushesBring
<1> DEFINE f == Brought
           g == Brought'
<1>3. f \in [KeyRequests -> 0..MaxUses] /\ g \in [KeyRequests -> 0..MaxUses]
      /\ f[q] = keyReq[q].adds /\ g[q] = r.adds
      /\ \A p \in KeyRequests \ {q} : f[p] = g[p]
    BY <1>1 DEF Brought, KeyReqs, KeysTyped
<1> HIDE DEF f, g
<1>4. EachBut(f, q) = EachBut(g, q)
    BY <1>3 DEF Each, EachBut
<1>5. /\ Cardinality(Each(f)) \in Nat /\ Cardinality(Each(g)) \in Nat
      /\ Cardinality(EachBut(f, q)) \in Nat
      /\ Cardinality(Each(f)) = Cardinality(EachBut(f, q)) + f[q]
      /\ Cardinality(Each(g)) = Cardinality(EachBut(g, q)) + g[q]
    BY <1>3, EachIsFinite
<1>6. Carried = Cardinality(Each(f)) /\ Carried' = Cardinality(Each(g))
    BY DEF Carried, f, g
<1>7. Carried' = Carried - f[q] + g[q] /\ f[q] \in Nat /\ g[q] \in Nat
    BY <1>3, <1>4, <1>5, <1>6, KeysBound
<1> QED
    BY <1>1, <1>2, <1>3, <1>5, <1>6, <1>7

\* Nothing is carried where no request brings any use.
LEMMA NothingCarried ==
    ASSUME NEW f \in [KeyRequests -> {0}]
    PROVE  Cardinality(Each(f)) = 0
<1>1. Each(f) = {}
    BY KeysBound DEF Each
<1> QED
    BY <1>1, FS_EmptySet

LEMMA KeyRecords ==
    /\ \A x \in Keys!Row : x.count \in 0..MaxUses /\ x.count \in Nat /\ x.count <= MaxUses
    /\ \A x \in KeyReqs : x.adds \in 0..MaxUses /\ x.adds \in Nat /\ x.read \in Keys!Row
<1>1. \A n \in 0..MaxUses : n \in Nat /\ n <= MaxUses
    BY KeysBound
<1>2. \A x \in Keys!Row : x.count \in 0..MaxUses
    BY DEF Keys!Row
<1>3. \A x \in KeyReqs : x.adds \in 0..MaxUses /\ x.read \in Keys!Row
    BY DEF KeyReqs
<1> QED
    BY <1>1, <1>2, <1>3

\* Who does not flush brings nothing.
LEMMA OthersBringNone ==
    ASSUME KeysTyped, FlushesBring, NEW q \in KeyRequests, keyReq[q].at # "flush"
    PROVE  keyReq[q].adds = 0
<1>1. keyReq[q] \in KeyReqs
    BY DEF KeysTyped
<1>2. keyReq[q].adds \in Nat
    BY <1>1, KeyRecords
<1>3. keyReq[q].adds > 0 => keyReq[q].at = "flush"
    BY DEF FlushesBring
<1> QED
    BY <1>2, <1>3

\* One request ends, or goes on without bringing anything.
LEMMA OneKeyRequestEmpty ==
    ASSUME KeysTyped, FlushesBring, NEW q \in KeyRequests, NEW r \in KeyReqs,
           keyReq' = [keyReq EXCEPT ![q] = r], r.adds = 0, r.at # "flush"
    PROVE  /\ keyReq' \in [KeyRequests -> KeyReqs] /\ FlushesBring'
           /\ Carried' \in Nat /\ Carried \in Nat
           /\ Carried' = Carried - keyReq[q].adds
<1>1. ~ r.adds > 0
    OBVIOUS
<1>2. /\ keyReq' \in [KeyRequests -> KeyReqs] /\ FlushesBring'
      /\ Carried' \in Nat /\ Carried \in Nat
      /\ Carried' = Carried - keyReq[q].adds + r.adds
    BY <1>1, OneKeyRequest
<1>3. keyReq[q].adds \in Nat
    BY KeyRecords DEF KeysTyped
<1> QED
    BY <1>2, <1>3

LEMMA KeyIdle ==
    /\ Keys!NoRow \in Keys!Row /\ Keys!NewRow \in Keys!Row
    /\ Keys!NewRow.count = 0
    /\ Keys!Idle \in KeyReqs /\ Keys!Idle.adds = 0 /\ Keys!Idle.at = "idle"
<1>1. 0 \in 0..MaxUses
    BY KeysBound
<1>2. Keys!NewRow \in Keys!Row /\ Keys!NewRow.count = 0
    BY <1>1 DEF Keys!NewRow, Keys!Row
<1>3. Keys!NoRow \in Keys!Row
    BY <1>2 DEF Keys!NoRow, Keys!Row
<1> QED
    BY <1>1, <1>2, <1>3 DEF Keys!Idle, KeyReqs

\* A request reads, ends, or goes on, and the row stands.
LEMMA KeysReading ==
    ASSUME KeysInv, NEW q \in KeyRequests,
           \/ \E kind \in {"validate", "edit", "revoke", "delete"} : Keys!Reads(q, kind)
           \/ Keys!Rejects(q) \/ Keys!NotFound(q)
    PROVE  KeysInv'
<1>0. KeysTyped /\ FlushesBring /\ keyReq[q] \in KeyReqs
    BY DEF KeysInv, KeysTyped
<1> PICK r \in KeyReqs : /\ keyReq' = [keyReq EXCEPT ![q] = r] /\ r.adds = 0 /\ r.at # "flush"
  <2>1. ASSUME NEW kind \in {"validate", "edit", "revoke", "delete"}, Keys!Reads(q, kind)
        PROVE  \E r \in KeyReqs : /\ keyReq' = [keyReq EXCEPT ![q] = r] /\ r.adds = 0 /\ r.at # "flush"
    <3> DEFINE r == [at |-> kind, read |-> keyRow, adds |-> 0]
    <3>1. r \in KeyReqs /\ r.adds = 0 /\ r.at # "flush"
        BY <1>0, KeysBound DEF KeysTyped, KeyReqs
    <3>2. keyReq' = [keyReq EXCEPT ![q] = r]
        BY <2>1 DEF Keys!Reads
    <3> QED
        BY <3>1, <3>2
  <2>2. CASE Keys!Rejects(q) \/ Keys!NotFound(q)
      BY <2>2, KeyIdle DEF Keys!Rejects, Keys!NotFound
  <2> QED
      BY <2>1, <2>2
<1>1. UNCHANGED <<keyRow, keyPending, keyUses, keyTorn>> /\ keyReq[q].at # "flush"
    BY DEF Keys!Reads, Keys!Rejects, Keys!NotFound
<1>2. keyReq[q].adds = 0
    BY <1>0, <1>1, OthersBringNone
<1>3. /\ keyReq' \in [KeyRequests -> KeyReqs] /\ FlushesBring' /\ Carried' \in Nat /\ Carried \in Nat
      /\ Carried' = Carried - keyReq[q].adds
    BY <1>0, OneKeyRequestEmpty
<1>4. Carried' = Carried
    BY <1>2, <1>3
<1> QED
    BY <1>1, <1>3, <1>4 DEF KeysInv, KeysTyped, UsesCover, RowExact

LEMMA KeysCounting ==
    ASSUME KeysInv, NEW q \in KeyRequests, Keys!Counts(q)
    PROVE  KeysInv'
<1>0. KeysTyped /\ FlushesBring /\ keyReq[q] \in KeyReqs
    BY DEF KeysInv, KeysTyped
<1>1. /\ keyReq[q].at = "validate" /\ keyReq[q].read.exists /\ keyUses < MaxUses
      /\ keyUses' = keyUses + 1 /\ UNCHANGED <<keyRow, keyTorn>>
    BY DEF Keys!Counts
<1>2. keyReq[q].adds = 0 /\ Carried \in Nat
    BY <1>0, <1>1, BroughtTyped, OthersBringNone
<1>3. keyPending \in Nat /\ keyUses \in Nat /\ keyPending + Carried <= keyUses /\ keyUses' \in 0..MaxUses
      /\ keyRow \in Keys!Row /\ keyRow.count \in Nat
    BY <1>0, <1>1, KeysBound, KeyRecords DEF KeysInv, KeysTyped, UsesCover
<1>4. CASE keyReq[q].read.used = "long ago"
  <2> DEFINE r == [keyReq[q] EXCEPT !.at = "flush", !.adds = keyPending + 1]
  <2>1. keyPending + 1 \in 0..MaxUses
      BY <1>1, <1>2, <1>3, KeysBound
  <2>2. /\ r \in KeyReqs /\ r.adds = keyPending + 1 /\ r.at = "flush" /\ r.read.exists
      BY <1>0, <1>1, <2>1 DEF KeyReqs
  <2>3. keyReq' = [keyReq EXCEPT ![q] = r] /\ keyPending' = 0
      BY <1>4 DEF Keys!Counts, Keys!Flushed
  <2> HIDE DEF r
  <2>4. /\ keyReq' \in [KeyRequests -> KeyReqs] /\ FlushesBring' /\ Carried' \in Nat
        /\ Carried' = Carried - keyReq[q].adds + r.adds
      BY <1>0, <2>2, <2>3, OneKeyRequest
  <2>5. Carried' = Carried + keyPending + 1
      BY <1>2, <1>3, <2>2, <2>4
  <2>6. UsesCover' /\ RowExact'
      BY <1>1, <1>2, <1>3, <2>3, <2>5 DEF KeysInv, UsesCover, RowExact
  <2> QED
      BY <1>0, <1>1, <1>3, <2>3, <2>4, <2>6, KeysBound DEF KeysInv, KeysTyped
<1>5. CASE keyReq[q].read.used # "long ago"
  <2>1. keyReq' = [keyReq EXCEPT ![q] = Keys!Idle] /\ keyPending' = keyPending + 1
      BY <1>5 DEF Keys!Counts
  <2>2. /\ keyReq' \in [KeyRequests -> KeyReqs] /\ FlushesBring' /\ Carried' \in Nat
        /\ Carried' = Carried - keyReq[q].adds
      BY <1>0, <2>1, KeyIdle, OneKeyRequestEmpty
  <2>3. Carried' = Carried
      BY <1>2, <2>2, KeyIdle
  <2>4. keyPending' \in 0..MaxUses
      BY <1>1, <1>2, <1>3, <2>1, KeysBound
  <2>5. UsesCover' /\ RowExact'
      BY <1>1, <1>2, <1>3, <2>1, <2>3 DEF KeysInv, UsesCover, RowExact
  <2> QED
      BY <1>0, <1>1, <1>3, <2>2, <2>4, <2>5 DEF KeysInv, KeysTyped
<1> QED
    BY <1>4, <1>5

\* A save that is not torn replaces the row that its request has read.
LEMMA KeysSaving ==
    ASSUME KeysInv, NEW q \in KeyRequests, NEW new \in Keys!Row,
           keyRow' = new, keyTorn' = (keyTorn \/ keyRow # keyReq[q].read),
           keyReq' = [keyReq EXCEPT ![q] = Keys!Idle], UNCHANGED <<keyPending, keyUses>>,
           new.exists => keyReq[q].read.exists /\ new.count = keyReq[q].read.count + keyReq[q].adds
    PROVE  KeysInv'
<1>0. KeysTyped /\ FlushesBring /\ keyReq[q] \in KeyReqs
    BY DEF KeysInv, KeysTyped
<1>1. /\ keyReq' \in [KeyRequests -> KeyReqs] /\ FlushesBring' /\ Carried' \in Nat /\ Carried \in Nat
      /\ Carried' = Carried - keyReq[q].adds
    BY <1>0, KeyIdle, OneKeyRequestEmpty
<1>2. keyReq[q].adds \in Nat /\ keyPending \in Nat /\ keyUses \in Nat /\ keyRow.count \in Nat
    BY <1>0, KeysBound, KeyRecords DEF KeysTyped
<1>3. Carried' = Carried - keyReq[q].adds
    BY <1>1
<1>4. KeysTyped' /\ UsesCover'
    BY <1>0, <1>1, <1>2, <1>3 DEF KeysInv, KeysTyped, UsesCover
<1>5. ASSUME ~ keyTorn', new.exists PROVE new.count + keyPending + Carried' = keyUses
  <2>1. ~ keyTorn /\ keyRow = keyReq[q].read
      BY <1>5, Zenon
  <2>2. keyRow.exists /\ new.count = keyRow.count + keyReq[q].adds
      BY <1>5, <2>1
  <2>3. keyRow.count + keyPending + Carried = keyUses
      BY <2>1, <2>2 DEF KeysInv, RowExact
  <2> QED
      BY <1>1, <1>2, <1>3, <2>2, <2>3
<1>6. RowExact'
    BY <1>5 DEF RowExact
<1> QED
    BY <1>1, <1>4, <1>6 DEF KeysInv

LEMMA KeysSaves ==
    ASSUME KeysInv, NEW q \in KeyRequests,
           \/ Keys!FlushSaves(q) \/ Keys!EditSaves(q) \/ Keys!RevokeSaves(q) \/ Keys!DeleteRemoves(q)
    PROVE  KeysInv'
<1>0. keyReq[q] \in KeyReqs /\ keyReq[q].read \in Keys!Row /\ keyReq[q].read.count \in Nat
      /\ keyReq[q].adds \in Nat /\ (keyReq[q].at # "flush" => keyReq[q].adds = 0)
      /\ (keyReq[q].at = "flush" => keyReq[q].read.exists)
  <2>1. KeysTyped /\ FlushesBring /\ keyReq[q] \in KeyReqs
      BY DEF KeysInv, KeysTyped
  <2> QED
      BY <2>1, KeyRecords, OthersBringNone DEF FlushesBring
<1>1. CASE Keys!FlushSaves(q)
  <2> DEFINE new == [keyReq[q].read EXCEPT !.count = @ + keyReq[q].adds, !.used = "lately"]
  <2>1. /\ keyReq[q].at = "flush" /\ keyReq[q].read.count + keyReq[q].adds <= MaxUses
        /\ keyRow' = new /\ keyTorn' = (keyTorn \/ keyRow # keyReq[q].read)
        /\ keyReq' = [keyReq EXCEPT ![q] = Keys!Idle] /\ UNCHANGED <<keyPending, keyUses>>
      BY <1>1 DEF Keys!FlushSaves, Keys!Save
  <2>2. keyReq[q].read.count + keyReq[q].adds \in 0..MaxUses
      BY <1>0, <2>1, KeysBound
  <2>3. new \in Keys!Row /\ new.count = keyReq[q].read.count + keyReq[q].adds
      BY <1>0, <2>2 DEF Keys!Row
  <2> HIDE DEF new
  <2> QED
      BY <1>0, <2>1, <2>3, KeysSaving
<1>2. CASE Keys!EditSaves(q)
  <2> DEFINE new == keyReq[q].read
  <2>1. /\ keyReq[q].at = "edit" /\ new \in Keys!Row
        /\ keyRow' = new /\ keyTorn' = (keyTorn \/ keyRow # keyReq[q].read)
        /\ keyReq' = [keyReq EXCEPT ![q] = Keys!Idle] /\ UNCHANGED <<keyPending, keyUses>>
      BY <1>0, <1>2 DEF Keys!EditSaves, Keys!Save
  <2>2. new.exists => keyReq[q].read.exists /\ new.count = keyReq[q].read.count + keyReq[q].adds
      BY <1>0, <2>1
  <2> HIDE DEF new
  <2> QED
      BY <2>1, <2>2, KeysSaving
<1>3. CASE Keys!RevokeSaves(q)
  <2> DEFINE new == [keyReq[q].read EXCEPT !.active = FALSE]
  <2>1. /\ keyReq[q].at = "revoking"
        /\ keyRow' = new /\ keyTorn' = (keyTorn \/ keyRow # keyReq[q].read)
        /\ keyReq' = [keyReq EXCEPT ![q] = Keys!Idle] /\ UNCHANGED <<keyPending, keyUses>>
      BY <1>3 DEF Keys!RevokeSaves, Keys!Save
  <2>2. new \in Keys!Row /\ new.count = keyReq[q].read.count /\ new.exists = keyReq[q].read.exists
      BY <1>0 DEF Keys!Row
  <2> HIDE DEF new
  <2>3. new.exists => keyReq[q].read.exists /\ new.count = keyReq[q].read.count + keyReq[q].adds
      BY <1>0, <2>1, <2>2
  <2> QED
      BY <2>1, <2>2, <2>3, KeysSaving
<1>4. CASE Keys!DeleteRemoves(q)
  <2>1. Keys!NoRow \in Keys!Row /\ ~ Keys!NoRow.exists
      BY KeyIdle DEF Keys!NoRow, Keys!NewRow
  <2>2. /\ keyRow' = Keys!NoRow /\ keyTorn' = (keyTorn \/ keyRow # keyReq[q].read)
        /\ keyReq' = [keyReq EXCEPT ![q] = Keys!Idle] /\ UNCHANGED <<keyPending, keyUses>>
      BY <1>4 DEF Keys!DeleteRemoves
  <2> QED
      BY <2>1, <2>2, KeysSaving
<1> QED
    BY <1>1, <1>2, <1>3, <1>4

LEMMA KeysDropping ==
    ASSUME KeysInv, NEW q \in KeyRequests,
           \/ Keys!Drops(q, "revoke", "revoking")
           \/ Keys!Drops(q, "delete", "deleting")
    PROVE  KeysInv'
<1>0. KeysTyped /\ FlushesBring /\ keyReq[q] \in KeyReqs
    BY DEF KeysInv, KeysTyped
<1> PICK next \in {"revoking", "deleting"} : keyReq' = [keyReq EXCEPT ![q].at = next]
    BY DEF Keys!Drops
<1>1. /\ keyReq[q].at \in {"revoke", "delete"} /\ keyPending' = 0 /\ keyUses' = keyUses - keyPending
      /\ UNCHANGED <<keyRow, keyTorn>>
    BY DEF Keys!Drops
<1> DEFINE r == [keyReq[q] EXCEPT !.at = next]
<1>2. keyReq[q].adds = 0 /\ Carried \in Nat
    BY <1>0, <1>1, BroughtTyped, OthersBringNone
<1>3. r \in KeyReqs /\ r.adds = 0 /\ r.at # "flush" /\ keyReq' = [keyReq EXCEPT ![q] = r]
    BY <1>0, <1>2 DEF KeyReqs
<1> HIDE DEF r
<1>4. /\ keyReq' \in [KeyRequests -> KeyReqs] /\ FlushesBring' /\ Carried' \in Nat
      /\ Carried' = Carried - keyReq[q].adds
    BY <1>0, <1>3, OneKeyRequestEmpty
<1>5. Carried' = Carried
    BY <1>2, <1>3, <1>4
<1>6. keyPending \in Nat /\ keyUses \in Nat /\ keyPending + Carried <= keyUses /\ keyUses <= MaxUses
      /\ keyRow.count \in Nat
    BY <1>0, KeysBound, KeyRecords DEF KeysInv, KeysTyped, UsesCover
<1>7. UsesCover' /\ RowExact'
    BY <1>1, <1>2, <1>5, <1>6 DEF KeysInv, UsesCover, RowExact
<1>8. keyPending' \in 0..MaxUses /\ keyUses' \in 0..MaxUses
    BY <1>1, <1>2, <1>6, KeysBound
<1> QED
    BY <1>0, <1>1, <1>4, <1>7, <1>8 DEF KeysInv, KeysTyped

\* Time passes, or the process ends.
LEMMA KeysOutside ==
    ASSUME KeysInv, Keys!WindowPasses \/ Keys!Restart
    PROVE  KeysInv'
<1>0. KeysTyped /\ FlushesBring
    BY DEF KeysInv
<1>1. CASE Keys!WindowPasses
  <2>1. /\ keyRow' = [keyRow EXCEPT !.used = "long ago"]
        /\ keyReq' = [q \in KeyRequests |-> [keyReq[q] EXCEPT !.read.used = "long ago"]]
        /\ UNCHANGED <<keyPending, keyUses, keyTorn>>
      BY <1>1 DEF Keys!WindowPasses
  <2>2. ASSUME NEW q \in KeyRequests
        PROVE  /\ keyReq'[q] \in KeyReqs /\ keyReq'[q].adds = keyReq[q].adds
               /\ keyReq'[q].at = keyReq[q].at /\ keyReq'[q].read.exists = keyReq[q].read.exists
    <3> DEFINE x == keyReq[q]
               y == [x.read EXCEPT !.used = "long ago"]
               z == [x EXCEPT !.read = y]
    <3>1. x \in KeyReqs /\ x.read \in Keys!Row
        BY <1>0 DEF KeysTyped, KeyReqs
    <3>2. y \in Keys!Row /\ y.exists = x.read.exists
        BY <3>1 DEF Keys!Row
    <3>3. keyReq'[q] = z
        BY <2>1
    <3> HIDE DEF x, y
    <3>4. z \in KeyReqs /\ z.adds = x.adds /\ z.at = x.at /\ z.read = y
        BY <3>1, <3>2 DEF KeyReqs
    <3> QED
        BY <3>2, <3>3, <3>4 DEF x
  <2>3. keyReq' \in [KeyRequests -> KeyReqs]
      BY <2>1, <2>2
  <2>4. FlushesBring'
      BY <1>0, <2>2 DEF FlushesBring
  <2>5. Brought' = Brought
      BY <2>2 DEF Brought
  <2>6. Carried' = Carried
      BY <2>5 DEF Carried
  <2>7. keyRow' \in Keys!Row /\ keyRow'.count = keyRow.count /\ keyRow'.exists = keyRow.exists
      BY <1>0, <2>1 DEF KeysTyped, Keys!Row
  <2> QED
      BY <1>0, <2>1, <2>3, <2>4, <2>6, <2>7 DEF KeysInv, KeysTyped, UsesCover, RowExact
<1>2. CASE Keys!Restart
  <2>1. /\ keyPending' = 0 /\ keyReq' = [q \in KeyRequests |-> Keys!Idle]
        /\ keyUses' = keyRow.count /\ UNCHANGED <<keyRow, keyTorn>>
      BY <1>2 DEF Keys!Restart
  <2>2. keyReq' \in [KeyRequests -> KeyReqs] /\ \A q \in KeyRequests : keyReq'[q] = Keys!Idle
      BY <2>1, KeyIdle
  <2>3. FlushesBring' /\ Brought' \in [KeyRequests -> {0}]
      BY <2>2, KeyIdle DEF FlushesBring, Brought
  <2>4. Carried' = 0
      BY <2>3, NothingCarried DEF Carried
  <2>5. keyRow.count \in 0..MaxUses /\ keyRow.count \in Nat
      BY <1>0, KeyRecords DEF KeysTyped
  <2> QED
      BY <1>0, <2>1, <2>2, <2>3, <2>4, <2>5, KeysBound DEF KeysInv, KeysTyped, UsesCover, RowExact
<1> QED
    BY <1>1, <1>2

LEMMA KeysNext ==
    ASSUME KeysInv, [Keys!Next]_Keys!vars
    PROVE  KeysInv'
<1>1. CASE UNCHANGED Keys!vars
    BY <1>1 DEF Keys!vars, KeysInv, KeysTyped, FlushesBring, UsesCover, RowExact, Carried, Brought
<1> QED
    BY <1>1, KeysReading, KeysCounting, KeysSaves, KeysDropping, KeysOutside DEF Keys!Next

LEMMA KeysInit == Keys!Init => KeysInv
<1> SUFFICES ASSUME Keys!Init PROVE KeysInv
    OBVIOUS
<1>1. /\ keyRow = Keys!NewRow /\ keyPending = 0 /\ keyUses = 0
      /\ keyReq = [q \in KeyRequests |-> Keys!Idle]
    BY DEF Keys!Init
<1>2. KeysTyped /\ FlushesBring /\ Brought \in [KeyRequests -> {0}]
    BY <1>1, KeyIdle, KeysBound DEF KeysTyped, FlushesBring, Brought
<1>3. Carried = 0
    BY <1>2, NothingCarried DEF Carried
<1> QED
    BY <1>1, <1>2, <1>3, KeyIdle DEF KeysInv, UsesCover, RowExact

LEMMA KeysInvariant == Spec => []KeysInv
<1>1. Init => KeysInv
    BY KeysInit DEF Init
<1>2. KeysInv /\ [Next]_vars => KeysInv'
  <2> SUFFICES ASSUME KeysInv, [Next]_vars PROVE KeysInv'
      OBVIOUS
  <2>1. [Keys!Next]_Keys!vars
      BY EachServiceSteps
  <2> QED
      BY <2>1, KeysNext
<1> QED
    BY <1>1, <1>2, PTL DEF Spec

\* AuthService: whatever is counted, flushed, edited, revoked and dropped in between, the row,
\* the accumulator and the flushes on their way hold every use, unless saves have overlapped.
THEOREM UsageAlwaysExact == Spec => []UsageExact
<1>1. KeysInv => UsageExact
  <2> SUFFICES ASSUME KeysInv PROVE UsageExact
      OBVIOUS
  <2>1. \A S : Keys!Cardinality(S) = Cardinality(S)
      BY DEF Keys!Cardinality, Cardinality
  <2>2. Keys!Flushing = Each(Brought)
      BY DEF Keys!Flushing, Each, Brought
  <2>3. Keys!Cardinality(Keys!Flushing) = Carried
      BY <2>1, <2>2 DEF Carried
  <2> QED
      BY <2>3 DEF KeysInv, RowExact, UsageExact, Keys!UsageExact
<1> QED
    BY <1>1, KeysInvariant, PTL

-----------------------------------------------------------------------------
(* The turns of OmegaConversation.  A counted turn is one that has been answered, unless the  *)
(* send that has counted it is still to store its answer; and what a send has read shows it   *)
(* every answer to a turn that is counted.                                                    *)

Directions == {"in", "out"}

ChatRows == [exists : BOOLEAN, agent : Agents \cup {"nobody"}, firstIn : Conversation!Time,
             firstResp : Conversation!Time, lastIn : Conversation!Time, lastOut : Conversation!Time]

ChatReqs == [at : {"idle", "find", "found", "timeline", "read", "assign", "respond", "book", "close", "send"},
             kind : {"list", "history", "send"}, agent : Agents \cup {"nobody"},
             copy : ChatRows, read : Seq(Directions)]

ChatTyped ==
    /\ chat \in Seq(Directions) /\ Len(chat) <= MaxMessages
    /\ chatRow \in ChatRows
    /\ chatReq \in [Conversation!Requests -> ChatReqs]
    /\ chatEvents \in [1..MaxMessages -> Nat]

\* The messages v go on from the messages m.
Continues(m, v) == Len(m) <= Len(v) /\ \A i \in 1..Len(m) : v[i] = m[i]

Received(t, m) == t = 0 \/ (t \in 1..Len(m) /\ m[t] = "in")
Dated(c, m) == Received(c.firstIn, m) /\ Received(c.lastIn, m)
IsAnswered(t, m) == \E u \in 1..Len(m) : u > t /\ m[u] = "out"

\* Of every request r of the name q: only the sends go on; it has read what was stored, and
\* its copy of the row tells times of messages received.
ReqHolds(q, r, m) ==
    /\ r.kind = "send" => q = Conversation!Send
    /\ r.at \in {"timeline", "read"} => r.kind \in {"history", "send"}
    /\ r.at \in {"assign", "respond", "book", "close", "send"} => r.kind = "send"
    /\ Continues(r.read, m)
    /\ Dated(r.copy, m)
    /\ r.at = "read" => Dated(r.copy, r.read)

Uncounted(t, ev) == t \in 1..MaxMessages /\ ev[t] = 0

\* Of the send r.
SendHolds(r, m, ev) ==
    /\ \A t \in 1..MaxMessages :
           ev[t] # 0 => IsAnswered(t, m) \/ (r.at \in {"close", "send"} /\ r.copy.lastIn = t)
    /\ r.at = "read" => \A t \in 1..MaxMessages : ev[t] # 0 => IsAnswered(t, r.read)
    /\ r.at \in {"assign", "respond"} /\ (Conversation!TracksFirst(r.copy) \/ Conversation!IsReply(r.copy))
           => Uncounted(r.copy.lastIn, ev)
    /\ r.at = "book" => Uncounted(r.copy.lastIn, ev)

ChatInv ==
    /\ ChatTyped
    /\ Dated(chatRow, chat)
    /\ \A q \in Conversation!Requests : ReqHolds(q, chatReq[q], chat)
    /\ SendHolds(chatReq[Conversation!Send], chat, chatEvents)
    /\ Conversation!TurnCountedOnce

LEMMA ChatBound == MaxMessages \in Nat /\ Conversation!Send \in Conversation!Requests
BY ServicesAssumption DEF ServicesAssumption, Conversation!Requests

\* The first and the last of some times.
LEMMA FirstAndLast ==
    ASSUME NEW T \in SUBSET Nat, IsFiniteSet(T), T # {}
    PROVE  /\ Conversation!First(T) \in T /\ \A u \in T : Conversation!First(T) <= u
           /\ Conversation!Last(T) \in T /\ \A u \in T : u <= Conversation!Last(T)
<1> DEFINE n == Cardinality(T)
           lo == Ascending(T)[1]
           hi == Ascending(T)[n]
<1>1. n \in Nat /\ n # 0
    BY FS_CardinalityType, FS_EmptySet
<1>2. 1 \in 1..n /\ n \in 1..n
    BY <1>1
<1>3. lo \in T /\ hi \in T
    BY <1>2, AscendingKth
<1>4. ASSUME NEW u \in T PROVE lo <= u /\ u <= hi
  <2> PICK k \in 1..n : Ascending(T)[k] = u
      BY AscendingReaches
  <2>1. lo \in Nat /\ hi \in Nat /\ u \in Nat
      BY <1>3
  <2>2. 1 < k => lo < u
      BY <1>2, AscendingIncreases
  <2>3. k < n => u < hi
      BY <1>2, AscendingIncreases
  <2>4. k = 1 => lo = u
      OBVIOUS
  <2>5. k = n => hi = u
      OBVIOUS
  <2>6. (k = 1 \/ 1 < k) /\ (k = n \/ k < n)
      BY <1>1
  <2> HIDE DEF lo, hi, n
  <2> QED
      BY <2>1, <2>2, <2>3, <2>4, <2>5, <2>6
<1> HIDE DEF lo, hi
<1>5. \E t \in T : \A u \in T : t <= u
    BY <1>3, <1>4
<1>6. \E t \in T : \A u \in T : u <= t
    BY <1>3, <1>4
<1>7. Conversation!First(T) = CHOOSE t \in T : \A u \in T : t <= u
    BY DEF Conversation!First
<1>8. Conversation!Last(T) = CHOOSE t \in T : \A u \in T : u <= t
    BY DEF Conversation!Last
<1> QED
    BY <1>5, <1>6, <1>7, <1>8

LEMMA TimesOf ==
    ASSUME NEW m \in Seq(Directions), Len(m) <= MaxMessages, NEW T \in SUBSET (DOMAIN m)
    PROVE  /\ T \in SUBSET Nat /\ IsFiniteSet(T) /\ \A t \in T : t # 0 /\ t \in 1..Len(m)
           /\ T # {} => Conversation!First(T) \in T /\ Conversation!Last(T) \in T
                        /\ \A u \in T : Conversation!First(T) <= u /\ u <= Conversation!Last(T)
           /\ T = {} => Conversation!First(T) = 0 /\ Conversation!Last(T) = 0
           /\ Conversation!First(T) \in Conversation!Time /\ Conversation!Last(T) \in Conversation!Time
<1>1. DOMAIN m = 1..Len(m) /\ Len(m) \in Nat
    OBVIOUS
<1>2. IsFiniteSet(1..Len(m))
    BY <1>1, FS_Interval
<1>3. T \in SUBSET Nat /\ IsFiniteSet(T) /\ \A t \in T : t # 0 /\ t \in 1..Len(m)
    BY <1>1, <1>2, FS_Subset
<1>4. T # {} => Conversation!First(T) \in T /\ Conversation!Last(T) \in T
                /\ \A u \in T : Conversation!First(T) <= u /\ u <= Conversation!Last(T)
    BY <1>3, FirstAndLast
<1>5. T = {} => Conversation!First(T) = 0 /\ Conversation!Last(T) = 0
    BY DEF Conversation!First, Conversation!Last
<1>6. Conversation!First(T) \in Conversation!Time /\ Conversation!Last(T) \in Conversation!Time
  <2>1. \A t \in T : t \in 0..MaxMessages
      BY <1>1, <1>3, ChatBound
  <2> QED
      BY <1>4, <1>5, <2>1, ChatBound DEF Conversation!Time
<1> QED
    BY <1>3, <1>4, <1>5, <1>6

\* The row's times, made to agree with the messages m.
LEMMA TimedAgrees ==
    ASSUME NEW m \in Seq(Directions), Len(m) <= MaxMessages, NEW c \in ChatRows
    PROVE  LET ins == Conversation!Times(m, "in")
               outs == Conversation!Times(m, "out")
               d == Conversation!Timed(c, m)
           IN  /\ d \in ChatRows
               /\ ins # {} => /\ d.firstIn \in ins /\ d.lastIn \in ins
                              /\ \A i \in ins : d.firstIn <= i /\ i <= d.lastIn
               /\ ins = {} => d.firstIn = c.firstIn /\ d.lastIn = c.lastIn
               /\ \A u \in outs : d.lastOut # 0 /\ u <= d.lastOut
               /\ \A u \in outs : ins # {} /\ u >= d.firstIn => d.firstResp # 0
<1> DEFINE ins == Conversation!Times(m, "in")
           outs == Conversation!Times(m, "out")
           late == {t \in outs : ins # {} /\ t >= Conversation!First(ins)}
           d == Conversation!Timed(c, m)
           firstIn == Conversation!Or(Conversation!First(ins), c.firstIn)
           firstResp == Conversation!Or(c.firstResp, Conversation!First(late))
           lastIn == Conversation!Or(Conversation!Last(ins), c.lastIn)
           lastOut == Conversation!Or(Conversation!Last(outs), c.lastOut)
<1>1. d = [c EXCEPT !.firstIn = firstIn, !.firstResp = firstResp, !.lastIn = lastIn, !.lastOut = lastOut]
    BY DEF Conversation!Timed
<1>2. ins \in SUBSET (DOMAIN m) /\ outs \in SUBSET (DOMAIN m) /\ late \in SUBSET outs
    BY DEF Conversation!Times
<1>3. late \in SUBSET (DOMAIN m)
    BY <1>2
<1>4. late = {t \in outs : ins # {} /\ t >= Conversation!First(ins)}
    OBVIOUS
<1> HIDE DEF ins, outs, late, d
<1>5. /\ firstIn \in Conversation!Time /\ firstResp \in Conversation!Time
      /\ lastIn \in Conversation!Time /\ lastOut \in Conversation!Time
    BY <1>2, <1>3, TimesOf DEF Conversation!Or, ChatRows
<1>6. ins # {} => /\ firstIn \in ins /\ lastIn \in ins /\ firstIn = Conversation!First(ins)
                  /\ \A i \in ins : firstIn <= i /\ i <= lastIn
    BY <1>2, TimesOf DEF Conversation!Or
<1>7. ins = {} => firstIn = c.firstIn /\ lastIn = c.lastIn
    BY <1>2, TimesOf DEF Conversation!Or
<1>8. \A u \in outs : lastOut # 0 /\ u <= lastOut
    BY <1>2, TimesOf DEF Conversation!Or
<1>9. \A u \in late : firstResp # 0
    BY <1>3, TimesOf DEF Conversation!Or
<1>10. \A u \in outs : ins # {} /\ u >= firstIn => firstResp # 0
    BY <1>4, <1>6, <1>9
<1> HIDE DEF firstIn, firstResp, lastIn, lastOut
<1>11. /\ d \in ChatRows /\ d.firstIn = firstIn /\ d.firstResp = firstResp
       /\ d.lastIn = lastIn /\ d.lastOut = lastOut
    BY <1>1, <1>5 DEF ChatRows
<1>12. /\ d \in ChatRows
       /\ ins # {} => /\ d.firstIn \in ins /\ d.lastIn \in ins
                      /\ \A i \in ins : d.firstIn <= i /\ i <= d.lastIn
       /\ ins = {} => d.firstIn = c.firstIn /\ d.lastIn = c.lastIn
       /\ \A u \in outs : d.lastOut # 0 /\ u <= d.lastOut
       /\ \A u \in outs : ins # {} /\ u >= d.firstIn => d.firstResp # 0
    BY <1>6, <1>7, <1>8, <1>10, <1>11
<1> QED
    BY <1>12 DEF ins, outs, d

\* What is true of the messages m stays true of those that go on from them.
LEMMA Continuing ==
    ASSUME NEW m \in Seq(Directions), NEW v \in Seq(Directions), Continues(m, v)
    PROVE  /\ \A t : Received(t, m) => Received(t, v)
           /\ \A c : Dated(c, m) => Dated(c, v)
           /\ \A t : IsAnswered(t, m) => IsAnswered(t, v)
           /\ \A w \in Seq(Directions) : Continues(w, m) => Continues(w, v)
<1>1. Len(m) \in Nat /\ Len(v) \in Nat /\ Len(m) <= Len(v)
    BY DEF Continues
<1>2. \A i \in 1..Len(m) : i \in 1..Len(v) /\ v[i] = m[i]
    BY <1>1 DEF Continues
<1>3. \A t : Received(t, m) => Received(t, v)
    BY <1>2 DEF Received
<1>4. \A c : Dated(c, m) => Dated(c, v)
    BY <1>3 DEF Dated
<1>5. \A t : IsAnswered(t, m) => IsAnswered(t, v)
    BY <1>2 DEF IsAnswered
<1>6. ASSUME NEW w \in Seq(Directions), Continues(w, m) PROVE Continues(w, v)
  <2>1. Len(w) \in Nat /\ Len(w) <= Len(m) /\ \A i \in 1..Len(w) : m[i] = w[i]
      BY <1>6 DEF Continues
  <2>2. \A i \in 1..Len(w) : i \in 1..Len(m)
      BY <1>1, <2>1
  <2> QED
      BY <1>1, <1>2, <2>1, <2>2 DEF Continues
<1> QED
    BY <1>3, <1>4, <1>5, <1>6

LEMMA Appending ==
    ASSUME NEW m \in Seq(Directions), NEW d \in Directions
    PROVE  /\ Append(m, d) \in Seq(Directions) /\ Len(Append(m, d)) = Len(m) + 1
           /\ Continues(m, Append(m, d)) /\ Append(m, d)[Len(m) + 1] = d
BY DEF Continues

\* A send that has read, saved or counted before more messages come.
LEMMA SendHoldsOn ==
    ASSUME NEW m \in Seq(Directions), NEW v \in Seq(Directions), Continues(m, v), NEW r, NEW ev,
           SendHolds(r, m, ev)
    PROVE  SendHolds(r, v, ev)
BY Continuing DEF SendHolds

LEMMA ReqHoldsOn ==
    ASSUME NEW m \in Seq(Directions), NEW v \in Seq(Directions), Continues(m, v), NEW q,
           NEW r \in ChatReqs, ReqHolds(q, r, m)
    PROVE  ReqHolds(q, r, v)
<1>1. r.read \in Seq(Directions)
    BY DEF ChatReqs
<1> QED
    BY <1>1, Continuing DEF ReqHolds

\* The chat has one more message.
LEMMA ChatGrows ==
    ASSUME ChatInv, NEW d \in Directions, Len(chat) < MaxMessages, chat' = Append(chat, d),
           UNCHANGED <<chatRow, chatReq, chatEvents>>
    PROVE  ChatInv'
<1>1. ChatTyped /\ chat \in Seq(Directions) /\ Len(chat) \in Nat
    BY DEF ChatInv, ChatTyped
<1>2. chat' \in Seq(Directions) /\ Len(chat') = Len(chat) + 1 /\ Continues(chat, chat')
    BY <1>1, Appending
<1>3. ChatTyped'
    BY <1>1, <1>2, ChatBound DEF ChatTyped
<1>4. Dated(chatRow', chat')
    BY <1>1, <1>2, Continuing DEF ChatInv
<1>5. \A q \in Conversation!Requests : ReqHolds(q, chatReq'[q], chat')
    BY <1>1, <1>2, ReqHoldsOn DEF ChatInv, ChatTyped
<1>6. SendHolds(chatReq'[Conversation!Send], chat', chatEvents')
    BY <1>1, <1>2, SendHoldsOn DEF ChatInv
<1>7. Conversation!TurnCountedOnce'
    BY DEF ChatInv, Conversation!TurnCountedOnce
<1> QED
    BY <1>3, <1>4, <1>5, <1>6, <1>7 DEF ChatInv

\* A request goes on, and neither the messages nor the events change.
LEMMA RequestGoesOn ==
    ASSUME ChatInv, NEW q \in Conversation!Requests, NEW r \in ChatReqs,
           chatReq' = [chatReq EXCEPT ![q] = r], UNCHANGED <<chat, chatEvents>>,
           chatRow' \in ChatRows, Dated(chatRow', chat),
           ReqHolds(q, r, chat),
           q = Conversation!Send => SendHolds(r, chat, chatEvents)
    PROVE  ChatInv'
<1>1. ChatTyped'
    BY DEF ChatInv, ChatTyped
<1>2. \A p \in Conversation!Requests : chatReq'[p] = IF p = q THEN r ELSE chatReq[p]
    BY DEF ChatInv, ChatTyped
<1>3. \A p \in Conversation!Requests : ReqHolds(p, chatReq'[p], chat')
    BY <1>2 DEF ChatInv
<1>4. SendHolds(chatReq'[Conversation!Send], chat', chatEvents')
    BY <1>2, ChatBound DEF ChatInv
<1>5. Conversation!TurnCountedOnce'
    BY DEF ChatInv, Conversation!TurnCountedOnce
<1>6. Dated(chatRow', chat')
    OBVIOUS
<1> QED
    BY <1>1, <1>3, <1>4, <1>5, <1>6 DEF ChatInv

\* What is known of a request.
LEMMA RequestKnown ==
    ASSUME ChatInv, NEW q \in Conversation!Requests
    PROVE  /\ chatReq[q] \in ChatReqs /\ chatReq[q].copy \in ChatRows
           /\ chatReq[q].read \in Seq(Directions) /\ Len(chatReq[q].read) <= MaxMessages
           /\ Len(chatReq[q].read) \in Conversation!Time
           /\ ReqHolds(q, chatReq[q], chat)
           /\ chat \in Seq(Directions) /\ Len(chat) \in Nat /\ Len(chat) <= MaxMessages
           /\ chatRow \in ChatRows /\ Dated(chatRow, chat)
           /\ chatEvents \in [1..MaxMessages -> Nat]
           /\ q = Conversation!Send => SendHolds(chatReq[q], chat, chatEvents)
<1>1. /\ chatReq[q] \in ChatReqs /\ chat \in Seq(Directions) /\ Len(chat) <= MaxMessages
      /\ chatRow \in ChatRows /\ Dated(chatRow, chat) /\ ReqHolds(q, chatReq[q], chat)
      /\ chatEvents \in [1..MaxMessages -> Nat]
      /\ q = Conversation!Send => SendHolds(chatReq[q], chat, chatEvents)
    BY DEF ChatInv, ChatTyped
<1>2. chatReq[q].copy \in ChatRows /\ chatReq[q].read \in Seq(Directions)
    BY <1>1 DEF ChatReqs
<1>3. Len(chatReq[q].read) <= Len(chat) /\ Len(chatReq[q].read) \in Nat /\ Len(chat) \in Nat
    BY <1>1, <1>2 DEF ReqHolds, Continues
<1>4. Len(chatReq[q].read) <= MaxMessages /\ Len(chatReq[q].read) \in Conversation!Time
    BY <1>1, <1>3, ChatBound DEF Conversation!Time
<1> QED
    BY <1>1, <1>2, <1>3, <1>4

\* Rows without a time, and requests without a copy and messages.
LEMMA ChatIdle ==
    /\ Conversation!NoRow \in ChatRows /\ Conversation!NewRow \in ChatRows
    /\ \A m : Dated(Conversation!NoRow, m) /\ Dated(Conversation!NewRow, m)
    /\ Conversation!Idle \in ChatReqs /\ Conversation!Idle.at = "idle"
    /\ Conversation!Idle.kind = "list" /\ Conversation!Idle.copy = Conversation!NoRow
    /\ Conversation!Idle.read = <<>>
<1>1. 0 \in Conversation!Time
    BY ChatBound DEF Conversation!Time
<1>2. /\ Conversation!NoRow \in ChatRows /\ Conversation!NewRow \in ChatRows
      /\ Conversation!NoRow.firstIn = 0 /\ Conversation!NoRow.lastIn = 0
      /\ Conversation!NewRow.firstIn = 0 /\ Conversation!NewRow.lastIn = 0
    BY <1>1 DEF Conversation!NoRow, Conversation!NewRow, ChatRows
<1>3. \A m : Dated(Conversation!NoRow, m) /\ Dated(Conversation!NewRow, m)
    BY <1>2 DEF Dated, Received
<1>4. <<>> \in Seq(Directions)
    OBVIOUS
<1>5. /\ Conversation!Idle \in ChatReqs /\ Conversation!Idle.at = "idle"
      /\ Conversation!Idle.kind = "list" /\ Conversation!Idle.copy = Conversation!NoRow
      /\ Conversation!Idle.read = <<>>
    BY <1>2, <1>4 DEF Conversation!Idle, ChatReqs
<1> QED
    BY <1>2, <1>3, <1>5

\* A request reads or saves the snapshot, or reads the messages.
LEMMA SnapshotSteps ==
    ASSUME ChatInv, NEW q \in Conversation!Requests,
           \/ \E kind \in {"list", "history", "send"}, agent \in Agents : Conversation!RequestBegins(q, kind, agent)
           \/ Conversation!SnapshotFinds(q) \/ Conversation!SnapshotSaves(q)
           \/ Conversation!SnapshotClashes(q) \/ Conversation!TimelineReads(q)
    PROVE  ChatInv'
<1> DEFINE x == chatReq[q]
<1>0. /\ x \in ChatReqs /\ x.copy \in ChatRows /\ x.read \in Seq(Directions)
      /\ ReqHolds(q, x, chat)
      /\ chat \in Seq(Directions) /\ chatRow \in ChatRows /\ Dated(chatRow, chat)
      /\ q = Conversation!Send => SendHolds(x, chat, chatEvents)
    BY RequestKnown
<1> HIDE DEF x
\* What is left of a send that begins, or ends before it counts.
<1>1. ASSUME NEW r, r.at \in {"idle", "find", "found", "timeline"},
             x.at \notin {"close", "send"} PROVE q = Conversation!Send => SendHolds(r, chat, chatEvents)
    BY <1>0, <1>1 DEF SendHolds
<1>2. ASSUME NEW kind \in {"list", "history", "send"}, NEW agent \in Agents,
             Conversation!RequestBegins(q, kind, agent)
      PROVE  ChatInv'
  <2> DEFINE r == [Conversation!Idle EXCEPT !.at = "find", !.kind = kind, !.agent = agent]
  <2>1. /\ x.at = "idle" /\ UNCHANGED <<chat, chatRow, chatEvents>>
        /\ chatReq' = [chatReq EXCEPT ![q] = r]
      BY <1>2, Zenon DEF Conversation!RequestBegins, x
  <2>5. kind = "send" => q = Conversation!Send
      BY <1>2, Zenon DEF Conversation!RequestBegins
  <2>2. /\ r \in ChatReqs /\ r.at = "find" /\ r.kind = kind /\ r.copy = Conversation!NoRow /\ r.read = <<>>
      BY ChatIdle DEF ChatReqs
  <2> HIDE DEF r
  <2>3. ReqHolds(q, r, chat)
      BY <1>0, <2>1, <2>2, <2>5, ChatIdle DEF ReqHolds, Continues
  <2>4. q = Conversation!Send => SendHolds(r, chat, chatEvents)
      BY <1>1, <2>1, <2>2
  <2> QED
      BY <1>0, <2>1, <2>2, <2>3, <2>4, RequestGoesOn
<1>3. CASE Conversation!SnapshotFinds(q)
  <2> DEFINE r == [x EXCEPT !.at = "found", !.copy = chatRow]
  <2>1. /\ x.at = "find" /\ UNCHANGED <<chat, chatRow, chatEvents>>
        /\ chatReq' = [chatReq EXCEPT ![q].at = "found", ![q].copy = chatRow]
      BY <1>3 DEF Conversation!SnapshotFinds, x
  <2>2. chatReq' = [chatReq EXCEPT ![q] = r]
      BY <2>1 DEF x
  <2>3. r \in ChatReqs /\ r.at = "found" /\ r.kind = x.kind /\ r.copy = chatRow /\ r.read = x.read
      BY <1>0 DEF ChatReqs
  <2> HIDE DEF r
  <2>4. ReqHolds(q, r, chat)
      BY <1>0, <2>3 DEF ReqHolds
  <2>5. q = Conversation!Send => SendHolds(r, chat, chatEvents)
      BY <1>1, <2>1, <2>3
  <2> QED
      BY <1>0, <2>1, <2>2, <2>3, <2>4, <2>5, RequestGoesOn
<1>4. CASE Conversation!SnapshotSaves(q)
  <2> DEFINE saved == IF x.copy.exists THEN x.copy ELSE Conversation!NewRow
             on == [x EXCEPT !.at = "timeline", !.copy = saved]
             r == IF x.kind = "list" THEN Conversation!Idle ELSE on
  <2>1. /\ x.at = "found" /\ UNCHANGED <<chat, chatEvents>> /\ chatRow' = saved
        /\ chatReq' = [chatReq EXCEPT ![q] = r]
      BY <1>4 DEF Conversation!SnapshotSaves, x
  <2>2. saved \in ChatRows /\ Dated(saved, chat)
      BY <1>0, ChatIdle DEF ReqHolds
  <2> HIDE DEF saved
  <2>3. on \in ChatReqs /\ on.at = "timeline" /\ on.kind = x.kind /\ on.copy = saved /\ on.read = x.read
      BY <1>0, <2>2 DEF ChatReqs
  <2> HIDE DEF on
  <2>4. x.kind \in {"list", "history", "send"}
      BY <1>0 DEF ChatReqs
  <2>5. r \in ChatReqs /\ r.at \in {"idle", "timeline"} /\ ReqHolds(q, r, chat)
      BY <1>0, <2>2, <2>3, <2>4, ChatIdle DEF ReqHolds, Continues
  <2> HIDE DEF r
  <2>6. q = Conversation!Send => SendHolds(r, chat, chatEvents)
      BY <1>1, <2>1, <2>5
  <2> QED
      BY <2>1, <2>2, <2>5, <2>6, RequestGoesOn
<1>5. CASE Conversation!SnapshotClashes(q)
  <2>1. /\ x.at = "found" /\ UNCHANGED <<chat, chatRow, chatEvents>>
        /\ chatReq' = [chatReq EXCEPT ![q] = Conversation!Idle]
      BY <1>5 DEF Conversation!SnapshotClashes, x
  <2>2. ReqHolds(q, Conversation!Idle, chat)
      BY <1>0, ChatIdle DEF ReqHolds, Continues
  <2>3. q = Conversation!Send => SendHolds(Conversation!Idle, chat, chatEvents)
      BY <1>1, <2>1, ChatIdle
  <2> QED
      BY <1>0, <2>1, <2>2, <2>3, ChatIdle, RequestGoesOn
<1>6. CASE Conversation!TimelineReads(q)
  <2> DEFINE r == [x EXCEPT !.at = "read", !.read = chat]
  <2>1. /\ x.at = "timeline" /\ UNCHANGED <<chat, chatRow, chatEvents>>
        /\ chatReq' = [chatReq EXCEPT ![q].at = "read", ![q].read = chat]
      BY <1>6 DEF Conversation!TimelineReads, x
  <2>2. chatReq' = [chatReq EXCEPT ![q] = r]
      BY <2>1 DEF x
  <2>3. r \in ChatReqs /\ r.at = "read" /\ r.kind = x.kind /\ r.copy = x.copy /\ r.read = chat
      BY <1>0 DEF ChatReqs
  <2> HIDE DEF r
  <2>4. ReqHolds(q, r, chat)
      BY <1>0, <2>1, <2>3 DEF ReqHolds, Continues
  <2>5. q = Conversation!Send => SendHolds(r, chat, chatEvents)
      BY <1>0, <2>1, <2>3 DEF SendHolds
  <2> QED
      BY <1>0, <2>1, <2>2, <2>3, <2>4, <2>5, RequestGoesOn
<1> QED
    BY <1>2, <1>3, <1>4, <1>5, <1>6

\* The row of a send that has read the messages m: where one of them answers the last turn,
\* nothing is left to count.
LEMMA NothingLeftToCount ==
    ASSUME NEW m \in Seq(Directions), Len(m) <= MaxMessages, NEW c \in ChatRows, Dated(c, m), NEW d,
           d = IF m = <<>> THEN c ELSE Conversation!Timed(c, m)
    PROVE  /\ d \in ChatRows /\ Dated(d, m)
           /\ Conversation!TracksFirst(d) \/ Conversation!IsReply(d)
                  => d.lastIn \in 1..MaxMessages /\ ~ IsAnswered(d.lastIn, m)
<1> DEFINE ins == Conversation!Times(m, "in")
           outs == Conversation!Times(m, "out")
<1>1. Len(m) \in Nat /\ DOMAIN m = 1..Len(m) /\ MaxMessages \in Nat
    BY ChatBound
<1>2. /\ \A i : i \in ins <=> i \in 1..Len(m) /\ m[i] = "in"
      /\ \A i : i \in outs <=> i \in 1..Len(m) /\ m[i] = "out"
    BY <1>1 DEF Conversation!Times
<1> HIDE DEF ins, outs
<1>3. CASE ins = {}
  <2>1. c.firstIn = 0 /\ c.lastIn = 0
      BY <1>2, <1>3 DEF Dated, Received
  <2>2. d \in ChatRows /\ d.firstIn = c.firstIn /\ d.lastIn = c.lastIn
      BY <1>3, TimedAgrees DEF ins
  <2> QED
      BY <2>1, <2>2 DEF Dated, Received, Conversation!TracksFirst, Conversation!IsReply
<1>4. CASE ins # {}
  <2>1. m # <<>>
      BY <1>2, <1>4
  <2>2. /\ d \in ChatRows /\ d.firstIn \in ins /\ d.lastIn \in ins /\ d.firstIn <= d.lastIn
        /\ \A u \in outs : d.lastOut # 0 /\ u <= d.lastOut
        /\ \A u \in outs : u >= d.firstIn => d.firstResp # 0
      BY <1>4, <2>1, TimedAgrees DEF ins, outs
  <2>3. Dated(d, m)
      BY <1>2, <2>2 DEF Dated, Received
  <2>4. d.lastIn \in 1..MaxMessages /\ d.lastIn \in Nat /\ d.firstIn \in Nat /\ d.lastOut \in Nat
      BY <1>1, <1>2, <2>2 DEF ChatRows, Conversation!Time
  <2>5. ASSUME IsAnswered(d.lastIn, m)
        PROVE  ~ Conversation!TracksFirst(d) /\ ~ Conversation!IsReply(d)
    <3> PICK u \in 1..Len(m) : u > d.lastIn /\ m[u] = "out"
        BY <2>5 DEF IsAnswered
    <3>1. u \in outs /\ u \in Nat
        BY <1>1, <1>2
    <3>2. d.lastOut # 0 /\ ~ d.lastIn > d.lastOut /\ u >= d.firstIn
        BY <2>2, <2>4, <3>1
    <3>3. d.firstResp # 0
        BY <2>2, <3>1, <3>2
    <3> QED
        BY <3>2, <3>3 DEF Conversation!TracksFirst, Conversation!IsReply
  <2> QED
      BY <2>2, <2>3, <2>4, <2>5
<1> QED
    BY <1>3, <1>4

LEMMA TimelineSavesStep ==
    ASSUME ChatInv, NEW q \in Conversation!Requests, Conversation!TimelineSaves(q)
    PROVE  ChatInv'
<1> DEFINE x == chatReq[q]
           timed == IF x.read = <<>> THEN x.copy ELSE Conversation!Timed(x.copy, x.read)
           on == [x EXCEPT !.at = "assign", !.copy = timed]
           r == IF x.kind = "history" THEN Conversation!Idle ELSE on
<1>1. /\ x.at = "read" /\ UNCHANGED <<chat, chatEvents>>
      /\ chatRow' = IF x.read = <<>> THEN chatRow ELSE timed
      /\ chatReq' = [chatReq EXCEPT ![q] = r]
    BY DEF Conversation!TimelineSaves
<1>2. /\ x \in ChatReqs /\ x.copy \in ChatRows /\ x.read \in Seq(Directions)
      /\ Len(x.read) <= MaxMessages /\ ReqHolds(q, x, chat)
      /\ chat \in Seq(Directions) /\ chatRow \in ChatRows /\ Dated(chatRow, chat)
      /\ chatEvents \in [1..MaxMessages -> Nat]
      /\ q = Conversation!Send => SendHolds(x, chat, chatEvents)
    BY RequestKnown
<1>3. timed = IF x.read = <<>> THEN x.copy ELSE Conversation!Timed(x.copy, x.read)
    OBVIOUS
<1> HIDE DEF x, timed
<1>4. /\ timed \in ChatRows /\ Dated(timed, x.read)
      /\ Conversation!TracksFirst(timed) \/ Conversation!IsReply(timed)
             => timed.lastIn \in 1..MaxMessages /\ ~ IsAnswered(timed.lastIn, x.read)
  <2>1. Dated(x.copy, x.read)
      BY <1>1, <1>2 DEF ReqHolds
  <2> QED
      BY <1>2, <1>3, <2>1, NothingLeftToCount
<1>5. Dated(timed, chat)
    BY <1>2, <1>4, Continuing DEF ReqHolds
<1>6. on \in ChatReqs /\ on.at = "assign" /\ on.kind = x.kind /\ on.copy = timed /\ on.read = x.read
    BY <1>2, <1>4 DEF ChatReqs
<1> HIDE DEF on
<1>7. x.kind \in {"history", "send"}
    BY <1>1, <1>2 DEF ReqHolds
<1>8. r \in ChatReqs /\ ReqHolds(q, r, chat)
    BY <1>2, <1>5, <1>6, <1>7, ChatIdle DEF ReqHolds, Continues
<1>9. ASSUME q = Conversation!Send PROVE SendHolds(r, chat, chatEvents)
  <2>1. /\ \A t \in 1..MaxMessages : chatEvents[t] # 0 => IsAnswered(t, chat)
        /\ \A t \in 1..MaxMessages : chatEvents[t] # 0 => IsAnswered(t, x.read)
      BY <1>1, <1>2, <1>9 DEF SendHolds
  <2>2. CASE x.kind = "history"
      BY <2>1, <2>2, ChatIdle DEF SendHolds
  <2>3. CASE x.kind = "send"
    <3>1. r = on
        BY <2>3
    <3>2. Conversation!TracksFirst(timed) \/ Conversation!IsReply(timed) => Uncounted(timed.lastIn, chatEvents)
        BY <1>4, <2>1 DEF Uncounted
    <3> QED
        BY <1>6, <2>1, <3>1, <3>2 DEF SendHolds
  <2> QED
      BY <1>7, <2>2, <2>3
<1> HIDE DEF r
<1>10. chatRow' \in ChatRows /\ Dated(chatRow', chat)
    BY <1>1, <1>2, <1>4, <1>5
<1> QED
    BY <1>1, <1>8, <1>9, <1>10, RequestGoesOn

\* A send assigns the chat, saves its first response, or closes the turn.
LEMMA SendSaves ==
    ASSUME ChatInv, NEW q \in Conversation!Requests,
           Conversation!SendAssigns(q) \/ Conversation!SendResponds(q) \/ Conversation!SendCloses(q)
    PROVE  ChatInv'
<1> DEFINE x == chatReq[q]
           On(copy, at) == [x EXCEPT !.copy = copy, !.at = at]
<1>0. /\ x \in ChatReqs /\ x.copy \in ChatRows /\ x.read \in Seq(Directions)
      /\ Len(x.read) \in Conversation!Time /\ ReqHolds(q, x, chat)
      /\ chat \in Seq(Directions) /\ chatRow \in ChatRows /\ Dated(chatRow, chat)
      /\ q = Conversation!Send => SendHolds(x, chat, chatEvents)
    BY RequestKnown
<1> HIDE DEF x
<1>1. x.at \in {"assign", "respond", "close"}
    BY DEF Conversation!SendAssigns, Conversation!SendResponds, Conversation!SendCloses, x
<1>2. x.kind = "send" /\ q = Conversation!Send /\ Dated(x.copy, chat) /\ SendHolds(x, chat, chatEvents)
    BY <1>0, <1>1 DEF ReqHolds
\* The send goes on with its copy, saved or not.
<1>3. ASSUME NEW copy \in ChatRows, NEW at \in {"respond", "book", "close", "send"},
             copy.firstIn = x.copy.firstIn, copy.lastIn = x.copy.lastIn,
             chatReq' = [chatReq EXCEPT ![q] = On(copy, at)],
             chatRow' \in {chatRow, copy}, UNCHANGED <<chat, chatEvents>>,
             x.at = "close" => at = "send",
             at = "respond" /\ (Conversation!TracksFirst(copy) \/ Conversation!IsReply(copy))
                 => Uncounted(copy.lastIn, chatEvents),
             at = "book" => Uncounted(copy.lastIn, chatEvents)
      PROVE  ChatInv'
  <2> DEFINE r == On(copy, at)
  <2>1. r \in ChatReqs /\ r.at = at /\ r.copy = copy /\ r.kind = x.kind /\ r.read = x.read
      BY <1>0 DEF ChatReqs
  <2>2. chatReq' = [chatReq EXCEPT ![q] = r]
      BY <1>3
  <2> HIDE DEF r
  <2>3. Dated(copy, chat)
      BY <1>2, <1>3 DEF Dated
  <2>4. ReqHolds(q, r, chat)
      BY <1>0, <1>2, <1>3, <2>1, <2>3 DEF ReqHolds
  <2>5. \A t \in 1..MaxMessages :
            chatEvents[t] # 0 => IsAnswered(t, chat) \/ (r.at \in {"close", "send"} /\ r.copy.lastIn = t)
      BY <1>1, <1>2, <1>3, <2>1 DEF SendHolds
  <2>6. SendHolds(r, chat, chatEvents)
      BY <1>3, <2>1, <2>5 DEF SendHolds
  <2>7. chatRow' \in ChatRows /\ Dated(chatRow', chat)
      BY <1>0, <1>3, <2>3
  <2> QED
      BY <1>3, <2>1, <2>2, <2>4, <2>6, <2>7, RequestGoesOn
<1> HIDE DEF On
<1>4. CASE Conversation!SendAssigns(q)
  <2> DEFINE copy == [x.copy EXCEPT !.agent = x.agent]
  <2>1. x.at = "assign" /\ UNCHANGED <<chat, chatEvents>>
      BY <1>4 DEF Conversation!SendAssigns, x
  <2>2. \/ chatRow' = copy /\ chatReq' = [chatReq EXCEPT ![q].copy = copy, ![q].at = "respond"]
        \/ chatRow' = chatRow /\ chatReq' = [chatReq EXCEPT ![q].at = "respond"]
      BY <1>4 DEF Conversation!SendAssigns, Conversation!Saves, x
  <2>3. /\ copy \in ChatRows /\ copy.firstIn = x.copy.firstIn /\ copy.lastIn = x.copy.lastIn
        /\ copy.firstResp = x.copy.firstResp /\ copy.lastOut = x.copy.lastOut
      BY <1>0 DEF ChatRows, ChatReqs
  <2> HIDE DEF copy
  <2>4. ASSUME NEW c \in {x.copy, copy}
        PROVE  Conversation!TracksFirst(c) \/ Conversation!IsReply(c) => Uncounted(c.lastIn, chatEvents)
      BY <1>2, <2>1, <2>3 DEF SendHolds, Conversation!TracksFirst, Conversation!IsReply
  <2>5. CASE chatRow' = copy /\ chatReq' = [chatReq EXCEPT ![q].copy = copy, ![q].at = "respond"]
    <3>1. chatReq' = [chatReq EXCEPT ![q] = On(copy, "respond")]
        BY <2>5 DEF x, On
    <3> QED
        BY <1>3, <2>1, <2>3, <2>4, <2>5, <3>1
  <2>6. CASE chatRow' = chatRow /\ chatReq' = [chatReq EXCEPT ![q].at = "respond"]
    <3>1. chatReq' = [chatReq EXCEPT ![q] = On(x.copy, "respond")]
        BY <1>0, <2>6 DEF x, On, ChatReqs
    <3> QED
        BY <1>0, <1>3, <2>1, <2>4, <2>6, <3>1
  <2> QED
      BY <2>2, <2>5, <2>6
<1>5. CASE Conversation!SendResponds(q)
  <2> DEFINE copy == [x.copy EXCEPT !.firstResp = Len(x.read)]
             next == IF Conversation!IsReply(x.copy) THEN "book" ELSE "close"
  <2>1. x.at = "respond" /\ UNCHANGED <<chat, chatEvents>>
      BY <1>5 DEF Conversation!SendResponds, x
  <2>2. \/ /\ Conversation!TracksFirst(x.copy)
           /\ chatRow' = copy /\ chatReq' = [chatReq EXCEPT ![q].copy = copy, ![q].at = "book"]
        \/ chatRow' = chatRow /\ chatReq' = [chatReq EXCEPT ![q].at = next]
      BY <1>5 DEF Conversation!SendResponds, Conversation!Saves, x
  <2>3. copy \in ChatRows /\ copy.firstIn = x.copy.firstIn /\ copy.lastIn = x.copy.lastIn
      BY <1>0 DEF ChatRows
  <2> HIDE DEF copy
  <2>4. Conversation!TracksFirst(x.copy) \/ Conversation!IsReply(x.copy) => Uncounted(x.copy.lastIn, chatEvents)
      BY <1>2, <2>1 DEF SendHolds
  <2>5. CASE /\ Conversation!TracksFirst(x.copy)
             /\ chatRow' = copy /\ chatReq' = [chatReq EXCEPT ![q].copy = copy, ![q].at = "book"]
    <3>1. chatReq' = [chatReq EXCEPT ![q] = On(copy, "book")]
        BY <2>5 DEF x, On
    <3> QED
        BY <1>3, <2>1, <2>3, <2>4, <2>5, <3>1
  <2>6. CASE chatRow' = chatRow /\ chatReq' = [chatReq EXCEPT ![q].at = next]
    <3>1. next \in {"book", "close"} /\ (next = "book" => Uncounted(x.copy.lastIn, chatEvents))
        BY <2>4
    <3> HIDE DEF next
    <3>2. chatReq' = [chatReq EXCEPT ![q] = On(x.copy, next)]
        BY <1>0, <2>6 DEF x, On, ChatReqs
    <3> QED
        BY <1>0, <1>3, <2>1, <2>6, <3>1, <3>2
  <2> QED
      BY <2>2, <2>5, <2>6
<1>6. CASE Conversation!SendCloses(q)
  <2> DEFINE copy == [x.copy EXCEPT !.lastOut = Len(x.read)]
  <2>1. /\ x.at = "close" /\ UNCHANGED <<chat, chatEvents>>
        /\ chatRow' = copy /\ chatReq' = [chatReq EXCEPT ![q].copy = copy, ![q].at = "send"]
      BY <1>6 DEF Conversation!SendCloses, Conversation!Saves, x
  <2>2. copy \in ChatRows /\ copy.firstIn = x.copy.firstIn /\ copy.lastIn = x.copy.lastIn
      BY <1>0 DEF ChatRows
  <2> HIDE DEF copy
  <2>3. chatReq' = [chatReq EXCEPT ![q] = On(copy, "send")]
      BY <2>1 DEF x, On
  <2> QED
      BY <1>3, <2>1, <2>2, <2>3
<1> QED
    BY <1>4, <1>5, <1>6

\* A send counts the turn, stores its answer, or is blocked.
LEMMA SendEnds ==
    ASSUME ChatInv, NEW q \in Conversation!Requests,
           Conversation!SendBooks(q) \/ Conversation!SendStores(q) \/ Conversation!SendBlocked(q)
    PROVE  ChatInv'
<1> DEFINE x == chatReq[q]
           last == x.copy.lastIn
<1>0. /\ x \in ChatReqs /\ x.copy \in ChatRows /\ ReqHolds(q, x, chat)
      /\ chat \in Seq(Directions) /\ Len(chat) \in Nat /\ Len(chat) <= MaxMessages
      /\ chatRow \in ChatRows /\ Dated(chatRow, chat)
      /\ chatEvents \in [1..MaxMessages -> Nat]
      /\ q = Conversation!Send => SendHolds(x, chat, chatEvents)
    BY RequestKnown
<1>1. x.at \in {"book", "send"}
    BY DEF Conversation!SendBooks, Conversation!SendStores, Conversation!SendBlocked
<1> HIDE DEF x
<1>2. x.kind = "send" /\ q = Conversation!Send /\ Dated(x.copy, chat) /\ SendHolds(x, chat, chatEvents)
    BY <1>0, <1>1 DEF ReqHolds
<1>3. chatReq \in [Conversation!Requests -> ChatReqs]
      /\ (\A p \in Conversation!Requests : ReqHolds(p, chatReq[p], chat))
      /\ \A t \in 1..MaxMessages : chatEvents[t] <= 1
    BY DEF ChatInv, ChatTyped, Conversation!TurnCountedOnce
<1>4. /\ Conversation!Idle \in ChatReqs /\ Conversation!Idle.at = "idle"
      /\ \A m \in Seq(Directions) : ReqHolds(q, Conversation!Idle, m)
    BY <1>2, ChatIdle DEF ReqHolds, Continues
<1>5. CASE Conversation!SendBooks(q)
  <2> DEFINE r == [x EXCEPT !.at = "close"]
  <2>1. /\ x.at = "book" /\ UNCHANGED <<chat, chatRow>>
        /\ chatEvents' = [chatEvents EXCEPT ![last] = @ + 1]
        /\ chatReq' = [chatReq EXCEPT ![q] = r]
      BY <1>5 DEF Conversation!SendBooks, x
  <2>2. Uncounted(last, chatEvents)
      BY <1>2, <2>1 DEF SendHolds
  <2>3. r \in ChatReqs /\ r.at = "close" /\ r.kind = x.kind /\ r.copy = x.copy /\ r.read = x.read
      BY <1>0 DEF ChatReqs
  <2> HIDE DEF r, last
  <2>4. /\ chatEvents' \in [1..MaxMessages -> Nat]
        /\ \A t \in 1..MaxMessages : chatEvents'[t] = IF t = last THEN 1 ELSE chatEvents[t]
      BY <1>0, <2>1, <2>2 DEF Uncounted
  <2>5. Conversation!TurnCountedOnce'
      BY <1>3, <2>4 DEF Conversation!TurnCountedOnce
  <2>6. \A t \in 1..MaxMessages :
            chatEvents'[t] # 0 => IsAnswered(t, chat) \/ (r.at \in {"close", "send"} /\ r.copy.lastIn = t)
      BY <1>2, <2>1, <2>3, <2>4 DEF SendHolds, last
  <2>7. SendHolds(r, chat, chatEvents')
      BY <2>3, <2>6 DEF SendHolds
  <2>8. ReqHolds(q, r, chat)
      BY <1>0, <1>2, <2>1, <2>3 DEF ReqHolds
  <2>9. ChatTyped'
      BY <1>0, <1>3, <2>1, <2>3, <2>4 DEF ChatTyped
  <2>10. \A p \in Conversation!Requests : chatReq'[p] = IF p = q THEN r ELSE chatReq[p]
      BY <1>3, <2>1
  <2>11. /\ \A p \in Conversation!Requests : ReqHolds(p, chatReq'[p], chat')
         /\ SendHolds(chatReq'[Conversation!Send], chat', chatEvents')
      BY <1>2, <1>3, <2>1, <2>7, <2>8, <2>10
  <2>12. Dated(chatRow', chat')
      BY <1>0, <2>1
  <2> QED
      BY <2>5, <2>9, <2>11, <2>12 DEF ChatInv
<1>6. CASE Conversation!SendStores(q)
  <2>1. /\ x.at = "send" /\ Len(chat) < MaxMessages /\ chat' = Append(chat, "out")
        /\ UNCHANGED <<chatRow, chatEvents>>
        /\ chatReq' = [chatReq EXCEPT ![q] = Conversation!Idle]
      BY <1>6 DEF Conversation!SendStores, x
  <2>2. chat' \in Seq(Directions) /\ Len(chat') = Len(chat) + 1 /\ Continues(chat, chat')
        /\ chat'[Len(chat) + 1] = "out"
      BY <1>0, <2>1, Appending DEF Directions
  <2>3. last \in 1..MaxMessages => IsAnswered(last, chat')
    <3>1. Received(last, chat)
        BY <1>2 DEF Dated
    <3> HIDE DEF last
    <3>2. last \in 1..MaxMessages => last \in 1..Len(chat)
        BY <3>1 DEF Received
    <3>3. Len(chat) + 1 \in 1..Len(chat') /\ \A t \in 1..Len(chat) : Len(chat) + 1 > t
        BY <1>0, <2>2
    <3> QED
        BY <2>2, <3>2, <3>3 DEF IsAnswered
  <2>4. \A t \in 1..MaxMessages : chatEvents[t] # 0 => IsAnswered(t, chat')
      BY <1>0, <1>2, <2>2, <2>3, Continuing DEF SendHolds
  <2>5. SendHolds(Conversation!Idle, chat', chatEvents)
      BY <1>4, <2>4 DEF SendHolds
  <2>6. \A p \in Conversation!Requests : chatReq'[p] = IF p = q THEN Conversation!Idle ELSE chatReq[p]
      BY <1>3, <2>1
  <2>7. \A p \in Conversation!Requests : ReqHolds(p, chatReq'[p], chat')
      BY <1>0, <1>3, <1>4, <2>2, <2>6, ReqHoldsOn
  <2>8. SendHolds(chatReq'[Conversation!Send], chat', chatEvents')
      BY <1>2, <2>1, <2>5, <2>6
  <2>9. ChatTyped'
      BY <1>0, <1>3, <1>4, <2>1, <2>2, ChatBound DEF ChatTyped
  <2>10. Dated(chatRow', chat') /\ Conversation!TurnCountedOnce'
      BY <1>0, <1>3, <2>1, <2>2, Continuing DEF Conversation!TurnCountedOnce
  <2> QED
      BY <2>7, <2>8, <2>9, <2>10 DEF ChatInv
<1>7. CASE Conversation!SendBlocked(q)
  <2>1. /\ x.at = "send" /\ UNCHANGED <<chat, chatRow>>
        /\ chatReq' = [chatReq EXCEPT ![q] = Conversation!Idle]
        /\ chatEvents' = [t \in 1..MaxMessages |-> IF t = last THEN 0 ELSE chatEvents[t]]
      BY <1>7 DEF Conversation!SendBlocked, x
  <2>2. /\ chatEvents' \in [1..MaxMessages -> Nat]
        /\ \A t \in 1..MaxMessages : chatEvents'[t] = IF t = last THEN 0 ELSE chatEvents[t]
      BY <1>0, <2>1
  <2>3. \A t \in 1..MaxMessages : chatEvents'[t] # 0 => IsAnswered(t, chat)
      BY <1>2, <2>2 DEF SendHolds
  <2>4. SendHolds(Conversation!Idle, chat, chatEvents')
      BY <1>4, <2>3 DEF SendHolds
  <2>5. Conversation!TurnCountedOnce'
      BY <1>3, <2>2 DEF Conversation!TurnCountedOnce
  <2>6. \A p \in Conversation!Requests : chatReq'[p] = IF p = q THEN Conversation!Idle ELSE chatReq[p]
      BY <1>3, <2>1
  <2>7. /\ \A p \in Conversation!Requests : ReqHolds(p, chatReq'[p], chat')
        /\ SendHolds(chatReq'[Conversation!Send], chat', chatEvents')
      BY <1>0, <1>2, <1>3, <1>4, <2>1, <2>4, <2>6
  <2>8. ChatTyped'
      BY <1>0, <1>3, <1>4, <2>1, <2>2 DEF ChatTyped
  <2>9. Dated(chatRow', chat')
      BY <1>0, <2>1
  <2> QED
      BY <2>5, <2>7, <2>8, <2>9 DEF ChatInv
<1> QED
    BY <1>5, <1>6, <1>7

LEMMA ChatNext ==
    ASSUME ChatInv, [Conversation!Next]_Conversation!vars
    PROVE  ChatInv'
<1>1. CASE UNCHANGED Conversation!vars
    BY <1>1 DEF Conversation!vars, ChatInv, ChatTyped, Conversation!TurnCountedOnce
<1>2. CASE Conversation!CustomerWrites
    BY <1>2, ChatGrows DEF Conversation!CustomerWrites, Directions
<1>3. CASE Conversation!OtherSends
    BY <1>3, ChatGrows DEF Conversation!OtherSends, Directions
<1>4. ASSUME NEW q \in Conversation!Requests,
             \/ \E kind \in {"list", "history", "send"}, agent \in Agents : Conversation!RequestBegins(q, kind, agent)
             \/ Conversation!SnapshotFinds(q) \/ Conversation!SnapshotSaves(q) \/ Conversation!SnapshotClashes(q)
             \/ Conversation!TimelineReads(q) \/ Conversation!TimelineSaves(q)
             \/ Conversation!SendAssigns(q) \/ Conversation!SendResponds(q) \/ Conversation!SendBooks(q)
             \/ Conversation!SendCloses(q)
             \/ Conversation!SendStores(q) \/ Conversation!SendBlocked(q)
      PROVE  ChatInv'
  <2>1. CASE Conversation!TimelineSaves(q)
      BY <2>1, TimelineSavesStep
  <2>2. CASE Conversation!SendAssigns(q) \/ Conversation!SendResponds(q) \/ Conversation!SendCloses(q)
      BY <2>2, SendSaves
  <2>3. CASE Conversation!SendBooks(q) \/ Conversation!SendStores(q) \/ Conversation!SendBlocked(q)
      BY <2>3, SendEnds
  <2>4. CASE \/ \E kind \in {"list", "history", "send"}, agent \in Agents : Conversation!RequestBegins(q, kind, agent)
             \/ Conversation!SnapshotFinds(q) \/ Conversation!SnapshotSaves(q)
             \/ Conversation!SnapshotClashes(q) \/ Conversation!TimelineReads(q)
      BY <2>4, SnapshotSteps
  <2> QED
      BY <1>4, <2>1, <2>2, <2>3, <2>4
<1> QED
    BY <1>1, <1>2, <1>3, <1>4 DEF Conversation!Next

LEMMA ChatInit == Conversation!Init => ChatInv
<1> SUFFICES ASSUME Conversation!Init PROVE ChatInv
    OBVIOUS
<1>1. /\ chat = <<>> /\ chatRow = Conversation!NoRow
      /\ chatReq = [q \in Conversation!Requests |-> Conversation!Idle]
      /\ chatEvents = [t \in 1..MaxMessages |-> 0]
    BY DEF Conversation!Init
<1>2. <<>> \in Seq(Directions) /\ Len(<<>>) = 0
    OBVIOUS
<1>3. ChatTyped
    BY <1>1, <1>2, ChatIdle, ChatBound DEF ChatTyped
<1>4. Dated(chatRow, chat) /\ \A q \in Conversation!Requests : ReqHolds(q, chatReq[q], chat)
    BY <1>1, ChatIdle DEF ReqHolds, Continues
<1>5. SendHolds(chatReq[Conversation!Send], chat, chatEvents) /\ Conversation!TurnCountedOnce
    BY <1>1, ChatIdle, ChatBound DEF SendHolds, Conversation!TurnCountedOnce
<1> QED
    BY <1>3, <1>4, <1>5 DEF ChatInv

LEMMA ChatInvariant == Spec => []ChatInv
<1>1. Init => ChatInv
    BY ChatInit DEF Init
<1>2. ChatInv /\ [Next]_vars => ChatInv'
  <2> SUFFICES ASSUME ChatInv, [Next]_vars PROVE ChatInv'
      OBVIOUS
  <2>1. [Conversation!Next]_Conversation!vars
      BY EachServiceSteps
  <2> QED
      BY <2>1, ChatNext
<1> QED
    BY <1>1, <1>2, PTL DEF Spec

\* OmegaConversation: however many views and messages come between, a customer's turn is
\* counted once.
THEOREM TurnAlwaysCountedOnce == Spec => []TurnCountedOnce
<1>1. ChatInv => TurnCountedOnce
    BY DEF ChatInv, TurnCountedOnce
<1> QED
    BY <1>1, ChatInvariant, PTL

-----------------------------------------------------------------------------
(* The hooks of PluginHooks.  An execution that register has not disturbed has before it the  *)
(* array it began with, and has run as much of it as it has called handlers.                  *)

HookCalls == [at : {"none", "loading", "enabling", "disabling", "over"}, plugin : Plugins]

HookRuns == [at : {"none", "running", "stopped", "over"}, live : BOOLEAN,
             array : Seq(Plugins), next : Nat \ {0},
             began : Seq(Plugins), ran : Seq(Plugins), disturbed : BOOLEAN]

HooksTyped ==
    /\ hookStatus \in [Plugins -> Hooks!Statuses]
    /\ hookCall \in [Calls -> HookCalls]
    /\ hooks \in Seq(Plugins)
    /\ hookRun \in [Runs -> HookRuns]

\* Of the execution x, where the registrations are hs.
RunHolds(x, hs) ==
    /\ x.at = "none" => x.live /\ x.next = 1 /\ x.ran = <<>> /\ x.began = <<>>
    /\ ~ x.disturbed =>
           /\ x.next = Len(x.ran) + 1
           /\ Continues(x.ran, x.began)
           /\ x.at = "running" => x.began = IF x.live THEN hs ELSE x.array
           /\ x.at = "over" => Len(x.ran) = Len(x.began)

RunsHold == \A r \in Runs : RunHolds(hookRun[r], hooks)

Registers(p, hs) == \E i \in 1..Len(hs) : hs[i] = p

\* Whatever is registered is of a plugin that is not disabled, or is being enabled.
HooksAccounted ==
    \A p \in Plugins :
        Registers(p, hooks) => \/ hookStatus[p] # "disabled"
                               \/ \E c \in Calls : hookCall[c].at = "enabling" /\ hookCall[c].plugin = p

HooksInv == HooksTyped /\ RunsHold /\ HooksAccounted

LEMMA HooksArrays == \A s, K : Hooks!Entries(s, K) = Entries(s, K)
<1>1. \A S : Hooks!Ascending(S) = Ascending(S) /\ Hooks!Cardinality(S) = Cardinality(S)
    BY DEF Hooks!Ascending, Ascending, Hooks!Cardinality, Cardinality
<1> QED
    BY <1>1 DEF Hooks!Entries, Entries

\* The numbers up to n, in increasing order.
LEMMA AscendingInterval ==
    ASSUME NEW n \in Nat, NEW k \in 1..n
    PROVE  Ascending(1..n)[k] = k /\ Cardinality(1..n) = n
<1>1. \A m \in Nat : IsFiniteSet(1..m) /\ Cardinality(1..m) = m
  <2> TAKE m \in Nat
  <2>1. 1 \in Int /\ m \in Int
      OBVIOUS
  <2>2. IsFiniteSet(1..m) /\ Cardinality(1..m) = IF 1 > m THEN 0 ELSE m - 1 + 1
      BY <2>1, FS_Interval
  <2> QED
      BY <2>2
<1> DEFINE a == Ascending(1..n)[k]
<1>2. a \in 1..n /\ Cardinality(Before(1..n, a)) = k - 1
    BY <1>1, AscendingKth
<1> HIDE DEF a
<1>3. Before(1..n, a) = 1..(a - 1) /\ a - 1 \in Nat
    BY <1>2 DEF Before
<1>4. a - 1 = k - 1
    BY <1>1, <1>2, <1>3
<1>5. a = k
    BY <1>2, <1>4
<1> QED
    BY <1>1, <1>5 DEF a

\* A filter that keeps everything returns what it was given.
LEMMA EverythingKept ==
    ASSUME NEW T, NEW s \in Seq(T)
    PROVE  Entries(s, DOMAIN s) = s
<1>1. DOMAIN s = 1..Len(s) /\ Len(s) \in Nat
    OBVIOUS
<1> DEFINE e == Entries(s, DOMAIN s)
<1>2. e \in Seq(T) /\ Len(e) = Cardinality(1..Len(s))
      /\ \A k \in 1..Cardinality(1..Len(s)) : e[k] = s[Ascending(1..Len(s))[k]]
    BY <1>1, EntriesKept
<1>3. Cardinality(1..Len(s)) = Len(s)
  <2>1. 1 \in Int /\ Len(s) \in Int
      BY <1>1
  <2>2. Cardinality(1..Len(s)) = IF 1 > Len(s) THEN 0 ELSE Len(s) - 1 + 1
      BY <2>1, FS_Interval
  <2> QED
      BY <1>1, <2>2
<1> HIDE DEF e
<1>4. Len(e) = Len(s) /\ \A k \in 1..Len(s) : e[k] = s[k]
    BY <1>1, <1>2, <1>3, AscendingInterval
<1>5. e = s
    BY <1>2, <1>4
<1> QED
    BY <1>5 DEF e

\* What filter leaves of the registrations.
LEMMA HooksKept ==
    ASSUME NEW hs \in Seq(Plugins), NEW K \in SUBSET DOMAIN hs
    PROVE  /\ Hooks!Entries(hs, K) \in Seq(Plugins)
           /\ \A p : Registers(p, Hooks!Entries(hs, K)) => \E i \in K : hs[i] = p
           /\ K = DOMAIN hs => Hooks!Entries(hs, K) = hs
<1>1. Hooks!Entries(hs, K) = Entries(hs, K)
    BY HooksArrays
<1> DEFINE e == Entries(hs, K)
<1>2. e \in Seq(Plugins) /\ Len(e) = Cardinality(K)
      /\ \A k \in 1..Cardinality(K) : Ascending(K)[k] \in K /\ e[k] = hs[Ascending(K)[k]]
    BY EntriesKept
<1>3. K = DOMAIN hs => e = hs
    BY EverythingKept
<1> HIDE DEF e
<1>4. \A p : Registers(p, e) => \E i \in K : hs[i] = p
    BY <1>2 DEF Registers
<1> QED
    BY <1>1, <1>2, <1>3, <1>4 DEF e

LEMMA FrozenKeeps ==
    ASSUME NEW p
    PROVE  /\ Hooks!Frozen(p) = [r \in Runs |-> Hooks!Frozen(p)[r]]
           /\ \A r \in Runs :
                  Hooks!Frozen(p)[r] =
                      IF hookRun[r].at = "running" /\ hookRun[r].live /\ p \in Hooks!ToSet(hooks)
                        THEN [hookRun[r] EXCEPT !.live = FALSE, !.array = hooks] ELSE hookRun[r]
BY DEF Hooks!Frozen

LEMMA UnregisteredKeeps ==
    ASSUME hooks \in Seq(Plugins), NEW p \in Plugins
    PROVE  /\ Hooks!Unregistered(p) \in Seq(Plugins)
           /\ \A q : Registers(q, Hooks!Unregistered(p)) => q # p /\ Registers(q, hooks)
           /\ ~ Registers(p, hooks) => Hooks!Unregistered(p) = hooks
<1> DEFINE K == {i \in DOMAIN hooks : hooks[i] # p}
<1>1. Hooks!Unregistered(p) = Hooks!Entries(hooks, K)
    BY DEF Hooks!Unregistered, Hooks!Filter
<1>2. DOMAIN hooks = 1..Len(hooks)
    OBVIOUS
<1>3. K \in SUBSET DOMAIN hooks /\ (\A i \in K : i \in 1..Len(hooks) /\ hooks[i] # p)
      /\ (~ Registers(p, hooks) => K = DOMAIN hooks)
    BY <1>2 DEF Registers
<1> HIDE DEF K
<1>4. /\ Hooks!Unregistered(p) \in Seq(Plugins)
      /\ \A q : Registers(q, Hooks!Unregistered(p)) => \E i \in K : hooks[i] = q
      /\ K = DOMAIN hooks => Hooks!Unregistered(p) = hooks
    BY <1>1, <1>3, HooksKept
<1>5. \A q : (\E i \in K : hooks[i] = q) => q # p /\ Registers(q, hooks)
    BY <1>3 DEF Registers
<1> QED
    BY <1>3, <1>4, <1>5

LEMMA RegisteredKeeps ==
    ASSUME hooks \in Seq(Plugins), NEW p \in Plugins
    PROVE  /\ Hooks!Registered(p) \in Seq(Plugins)
           /\ \A q : Registers(q, Hooks!Registered(p)) => q = p \/ Registers(q, hooks)
<1> DEFINE K == {i \in DOMAIN hooks : Priority[hooks[i]] <= Priority[p]}
           M == {i \in DOMAIN hooks : Priority[hooks[i]] > Priority[p]}
           a == Hooks!Entries(hooks, K)
           b == Hooks!Entries(hooks, M)
<1>1. Hooks!Registered(p) = a \o <<p>> \o b
    BY DEF Hooks!Registered, Hooks!Filter
<1>2. K \in SUBSET DOMAIN hooks /\ M \in SUBSET DOMAIN hooks /\ DOMAIN hooks = 1..Len(hooks)
    OBVIOUS
<1> HIDE DEF K, M
<1>3. /\ a \in Seq(Plugins) /\ b \in Seq(Plugins)
      /\ \A q : Registers(q, a) \/ Registers(q, b) => Registers(q, hooks)
  <2>1. /\ a \in Seq(Plugins) /\ \A q : Registers(q, a) => \E i \in K : hooks[i] = q
        /\ b \in Seq(Plugins) /\ \A q : Registers(q, b) => \E i \in M : hooks[i] = q
      BY <1>2, HooksKept
  <2> HIDE DEF a, b
  <2>2. \A i \in K \cup M : i \in 1..Len(hooks)
      BY <1>2
  <2> QED
      BY <2>1, <2>2 DEF Registers
<1> HIDE DEF a, b
<1>4. \A q : Registers(q, a \o <<p>> \o b) => Registers(q, a) \/ q = p \/ Registers(q, b)
  <2> TAKE q
  <2> SUFFICES ASSUME Registers(q, a \o <<p>> \o b) PROVE Registers(q, a) \/ q = p \/ Registers(q, b)
      OBVIOUS
  <2> PICK i \in 1..Len(a \o <<p>> \o b) : (a \o <<p>> \o b)[i] = q
      BY DEF Registers
  <2>1. Len(a) \in Nat /\ Len(b) \in Nat /\ Len(a \o <<p>> \o b) = Len(a) + 1 + Len(b)
      BY <1>3
  <2>2. CASE i \in 1..Len(a)
    <3>1. a[i] = q
        BY <1>3, <2>1, <2>2
    <3> QED
        BY <2>2, <3>1 DEF Registers
  <2>3. CASE i = Len(a) + 1
      BY <1>3, <2>1, <2>3
  <2>4. CASE i > Len(a) + 1
    <3>1. i - Len(a) - 1 \in 1..Len(b) /\ b[i - Len(a) - 1] = q
        BY <1>3, <2>1, <2>4
    <3> QED
        BY <3>1 DEF Registers
  <2> QED
      BY <2>1, <2>2, <2>3, <2>4
<1>5. a \o <<p>> \o b \in Seq(Plugins)
    BY <1>3
<1> QED
    BY <1>1, <1>3, <1>4, <1>5

\* An execution goes on, and neither the registrations nor the plugins change.
LEMMA OneRun ==
    ASSUME HooksInv, NEW r \in Runs, NEW x \in HookRuns, RunHolds(x, hooks),
           hookRun' = [hookRun EXCEPT ![r] = x], UNCHANGED <<hookStatus, hookCall, hooks>>
    PROVE  HooksInv'
<1>1. HooksTyped'
    BY DEF HooksInv, HooksTyped
<1>2. \A p \in Runs : hookRun'[p] = IF p = r THEN x ELSE hookRun[p]
    BY DEF HooksInv, HooksTyped
<1>3. RunsHold'
    BY <1>2 DEF HooksInv, RunsHold
<1>4. HooksAccounted'
    BY DEF HooksInv, HooksAccounted
<1> QED
    BY <1>1, <1>3, <1>4 DEF HooksInv

LEMMA RunSteps ==
    ASSUME HooksInv, NEW r \in Runs,
           Hooks!RunBegins(r) \/ Hooks!RunCallsHandler(r) \/ Hooks!RunEnds(r)
    PROVE  HooksInv'
<1> DEFINE x == hookRun[r]
<1>0. x \in HookRuns /\ RunHolds(x, hooks) /\ hooks \in Seq(Plugins)
      /\ UNCHANGED <<hookStatus, hookCall, hooks>> /\ hookRun \in [Runs -> HookRuns]
    BY DEF HooksInv, HooksTyped, RunsHold, Hooks!RunBegins, Hooks!RunCallsHandler, Hooks!RunEnds
<1>01. x.at \in {"none", "running"}
    BY DEF Hooks!RunBegins, Hooks!RunCallsHandler, Hooks!RunEnds
<1>02. /\ x.began \in Seq(Plugins) /\ x.ran \in Seq(Plugins) /\ x.array \in Seq(Plugins)
       /\ x.next \in Nat /\ x.next > 0 /\ x.disturbed \in BOOLEAN /\ x.live \in BOOLEAN
    BY <1>0 DEF HookRuns
<1>1. CASE Hooks!RunBegins(r)
  <2> DEFINE y == [x EXCEPT !.at = "running", !.began = hooks]
  <2>1. x.at = "none" /\ hookRun' = [hookRun EXCEPT ![r] = y]
      BY <1>0, <1>1 DEF Hooks!RunBegins
  <2> HIDE DEF x
  <2>2. /\ y \in HookRuns /\ y.at = "running" /\ y.began = hooks /\ y.ran = x.ran /\ y.next = x.next
        /\ y.live = x.live /\ y.disturbed = x.disturbed
      BY <1>0 DEF HookRuns
  <2> HIDE DEF y
  <2>3. x.live /\ x.next = 1 /\ x.ran = <<>>
      BY <1>0, <2>1 DEF RunHolds
  <2>4. RunHolds(y, hooks)
      BY <1>0, <2>2, <2>3 DEF RunHolds, Continues
  <2> QED
      BY <1>0, <2>1, <2>2, <2>4, OneRun
<1>2. CASE Hooks!RunCallsHandler(r)
  <2> DEFINE array == IF x.live THEN hooks ELSE x.array
  <2>1. x.at = "running" /\ x.next <= Len(array)
      BY <1>2 DEF Hooks!RunCallsHandler, Hooks!Array
  <2> PICK at \in {"running", "stopped"} :
           hookRun' = [hookRun EXCEPT ![r].at = at, ![r].next = @ + 1,
                                      ![r].ran = Append(@, array[x.next])]
      BY <1>2 DEF Hooks!RunCallsHandler, Hooks!Array
  <2> DEFINE y == [x EXCEPT !.at = at, !.next = @ + 1, !.ran = Append(@, array[x.next])]
  <2>2. hookRun' = [hookRun EXCEPT ![r] = y]
      BY <1>0
  <2>3. array \in Seq(Plugins) /\ (~ x.disturbed => x.began = array)
      BY <1>0, <1>02, <2>1 DEF RunHolds
  <2> HIDE DEF x, array
  <2>4. x.next \in 1..Len(array) /\ Len(array) \in Nat /\ array[x.next] \in Plugins
      BY <1>02, <2>1, <2>3
  <2>5. Append(x.ran, array[x.next]) \in Seq(Plugins) /\ x.next + 1 \in Nat \ {0}
      BY <1>02, <2>4
  <2>6. /\ y \in HookRuns /\ y.at = at /\ y.began = x.began /\ y.ran = Append(x.ran, array[x.next])
        /\ y.next = x.next + 1 /\ y.live = x.live /\ y.array = x.array /\ y.disturbed = x.disturbed
      BY <1>0, <2>5 DEF HookRuns
  <2> HIDE DEF y
  <2>7. ASSUME ~ x.disturbed
        PROVE  y.next = Len(y.ran) + 1 /\ Continues(y.ran, x.began)
    <3>1. x.next = Len(x.ran) + 1 /\ Continues(x.ran, x.began) /\ x.began = array
        BY <1>0, <2>3, <2>7 DEF RunHolds
    <3>2. Len(x.ran) \in Nat /\ Len(y.ran) = Len(x.ran) + 1
        BY <1>02, <2>4, <2>6
    <3>3. \A i \in 1..Len(y.ran) : y.ran[i] = IF i = x.next THEN array[i] ELSE x.ran[i]
        BY <1>02, <2>4, <2>6, <3>1
    <3>4. \A i \in 1..Len(y.ran) : i # x.next => i \in 1..Len(x.ran)
        BY <3>1, <3>2
    <3> QED
        BY <2>4, <2>6, <3>1, <3>2, <3>3, <3>4 DEF Continues
  <2>8. RunHolds(y, hooks)
      BY <1>0, <1>02, <2>1, <2>6, <2>7 DEF RunHolds
  <2> QED
      BY <1>0, <2>2, <2>6, <2>8, OneRun
<1>3. CASE Hooks!RunEnds(r)
  <2> DEFINE array == IF x.live THEN hooks ELSE x.array
             y == [x EXCEPT !.at = "over"]
  <2>1. x.at = "running" /\ x.next > Len(array) /\ hookRun' = [hookRun EXCEPT ![r] = y]
      BY <1>0, <1>3 DEF Hooks!RunEnds, Hooks!Array
  <2>2. array \in Seq(Plugins) /\ (~ x.disturbed => x.began = array)
      BY <1>0, <1>02, <2>1 DEF RunHolds
  <2> HIDE DEF x, array
  <2>3. /\ y \in HookRuns /\ y.at = "over" /\ y.began = x.began /\ y.ran = x.ran /\ y.next = x.next
        /\ y.disturbed = x.disturbed
      BY <1>0 DEF HookRuns
  <2> HIDE DEF y
  <2>4. ~ x.disturbed => Len(x.ran) = Len(x.began)
    <3> SUFFICES ASSUME ~ x.disturbed PROVE Len(x.ran) = Len(x.began)
        OBVIOUS
    <3>1. x.next = Len(x.ran) + 1 /\ Len(x.ran) <= Len(x.began) /\ x.began = array
        BY <1>0, <2>2 DEF RunHolds, Continues
    <3>2. Len(x.ran) \in Nat /\ Len(array) \in Nat
        BY <1>02, <2>2
    <3> QED
        BY <2>1, <3>1, <3>2
  <2>5. RunHolds(y, hooks)
      BY <1>0, <2>3, <2>4 DEF RunHolds
  <2> QED
      BY <1>0, <2>1, <2>3, <2>5, OneRun
<1> QED
    BY <1>1, <1>2, <1>3

\* A call goes on: what it registers, or leaves registered, is accounted for.
LEMMA CallSteps ==
    ASSUME HooksInv, NEW c \in Calls,
           \/ \E p \in Plugins : Hooks!EnableBegins(c, p) \/ Hooks!DisableBegins(c, p)
           \/ Hooks!EnableRegisters(c) \/ Hooks!EnableReturns(c) \/ Hooks!CallFails(c) \/ Hooks!DisableReturns(c)
    PROVE  HooksInv'
<1> DEFINE x == hookCall[c]
<1>0. /\ x \in HookCalls /\ x.plugin \in Plugins /\ hookCall \in [Calls -> HookCalls]
      /\ hookStatus \in [Plugins -> Hooks!Statuses] /\ hooks \in Seq(Plugins)
      /\ hookRun \in [Runs -> HookRuns] /\ RunsHold /\ HooksAccounted
    BY DEF HooksInv, HooksTyped, HookCalls
<1>1. ASSUME NEW p \in Plugins, Hooks!EnableBegins(c, p) \/ Hooks!DisableBegins(c, p)
      PROVE  HooksInv'
  <2> PICK at \in {"loading", "disabling"} : hookCall' = [hookCall EXCEPT ![c] = [at |-> at, plugin |-> p]]
      BY <1>1 DEF Hooks!EnableBegins, Hooks!DisableBegins
  <2>1. x.at = "none" /\ UNCHANGED <<hookStatus, hooks, hookRun>>
      BY <1>1 DEF Hooks!EnableBegins, Hooks!DisableBegins
  <2>2. hookCall' \in [Calls -> HookCalls] /\ \A d \in Calls : d # c => hookCall'[d] = hookCall[d]
      BY <1>0 DEF HookCalls
  <2>3. HooksAccounted'
      BY <1>0, <2>1, <2>2 DEF HooksAccounted
  <2>4. HooksTyped' /\ RunsHold'
      BY <1>0, <2>1, <2>2 DEF HooksTyped, RunsHold
  <2> QED
      BY <2>3, <2>4 DEF HooksInv
<1>2. CASE Hooks!EnableRegisters(c)
  <2>1. /\ x.at = "loading" /\ hookCall' = [hookCall EXCEPT ![c].at = "enabling"]
        /\ hooks' = Hooks!Registered(x.plugin) /\ hookRun' = Hooks!Disturbed /\ UNCHANGED hookStatus
      BY <1>2 DEF Hooks!EnableRegisters
  <2>2. /\ hookCall' \in [Calls -> HookCalls] /\ hookCall'[c].at = "enabling" /\ hookCall'[c].plugin = x.plugin
        /\ \A d \in Calls : d # c => hookCall'[d] = hookCall[d]
      BY <1>0, <2>1 DEF HookCalls
  <2>3. hooks' \in Seq(Plugins) /\ \A q : Registers(q, hooks') => q = x.plugin \/ Registers(q, hooks)
      BY <1>0, <2>1, RegisteredKeeps
  <2> HIDE DEF x
  <2>4. HooksAccounted'
      BY <1>0, <2>1, <2>2, <2>3 DEF HooksAccounted
  <2>5. ASSUME NEW r \in Runs
        PROVE  hookRun'[r] \in HookRuns /\ RunHolds(hookRun'[r], hooks')
    <3> DEFINE y == hookRun[r]
               z == [y EXCEPT !.disturbed = TRUE]
    <3>1. y \in HookRuns /\ RunHolds(y, hooks)
        BY <1>0 DEF RunsHold
    <3>2. hookRun'[r] = IF y.at = "running" /\ y.live THEN z ELSE y
        BY <2>1 DEF Hooks!Disturbed
    <3> HIDE DEF y
    <3>3. z \in HookRuns /\ z.disturbed /\ z.at = y.at
        BY <3>1 DEF HookRuns
    <3> HIDE DEF z
    <3>4. CASE y.at = "running" /\ y.live
        BY <3>2, <3>3, <3>4 DEF RunHolds
    <3>5. CASE ~ (y.at = "running" /\ y.live)
        BY <3>1, <3>2, <3>5 DEF RunHolds
    <3> QED
        BY <3>4, <3>5
  <2>6. hookRun' \in [Runs -> HookRuns]
      BY <2>1, <2>5 DEF Hooks!Disturbed
  <2> QED
      BY <1>0, <2>1, <2>2, <2>3, <2>4, <2>5, <2>6 DEF HooksInv, HooksTyped, RunsHold
<1>3. CASE Hooks!EnableReturns(c) \/ Hooks!CallFails(c)
  <2> PICK st \in {"enabled", "error"} : hookStatus' = [hookStatus EXCEPT ![x.plugin] = st]
      BY <1>3 DEF Hooks!EnableReturns, Hooks!CallFails
  <2>1. hookCall' = [hookCall EXCEPT ![c].at = "over"] /\ UNCHANGED <<hooks, hookRun>>
      BY <1>3 DEF Hooks!EnableReturns, Hooks!CallFails
  <2>2. hookCall' \in [Calls -> HookCalls] /\ \A d \in Calls : d # c => hookCall'[d] = hookCall[d]
      BY <1>0, <2>1 DEF HookCalls
  <2>3. /\ hookStatus' \in [Plugins -> Hooks!Statuses]
        /\ hookStatus'[x.plugin] # "disabled"
        /\ \A p \in Plugins : p # x.plugin => hookStatus'[p] = hookStatus[p]
      BY <1>0 DEF Hooks!Statuses
  <2>4. HooksAccounted'
    <3> SUFFICES ASSUME NEW p \in Plugins, Registers(p, hooks), hookStatus'[p] = "disabled"
                 PROVE  \E d \in Calls : hookCall'[d].at = "enabling" /\ hookCall'[d].plugin = p
        BY <2>1 DEF HooksAccounted
    <3>1. p # x.plugin /\ hookStatus[p] = "disabled"
        BY <2>3
    <3>2. PICK d \in Calls : hookCall[d].at = "enabling" /\ hookCall[d].plugin = p
        BY <1>0, <3>1 DEF HooksAccounted
    <3> QED
        BY <2>2, <3>1, <3>2
  <2> QED
      BY <1>0, <2>1, <2>2, <2>3, <2>4 DEF HooksInv, HooksTyped, RunsHold
<1>4. CASE Hooks!DisableReturns(c)
  <2> DEFINE p == x.plugin
  <2>1. /\ x.at = "disabling" /\ hookCall' = [hookCall EXCEPT ![c].at = "over"]
        /\ hooks' = Hooks!Unregistered(p) /\ hookRun' = Hooks!Frozen(p)
        /\ hookStatus' = [hookStatus EXCEPT ![p] = "disabled"]
      BY <1>4 DEF Hooks!DisableReturns
  <2>2. hookCall' \in [Calls -> HookCalls] /\ \A d \in Calls : d # c => hookCall'[d] = hookCall[d]
      BY <1>0, <2>1 DEF HookCalls
  <2>3. /\ hookStatus' \in [Plugins -> Hooks!Statuses]
        /\ \A q \in Plugins : q # p => hookStatus'[q] = hookStatus[q]
      BY <1>0, <2>1 DEF Hooks!Statuses
  <2>4. /\ hooks' \in Seq(Plugins)
        /\ \A q : Registers(q, hooks') => q # p /\ Registers(q, hooks)
        /\ ~ Registers(p, hooks) => hooks' = hooks
      BY <1>0, <2>1, UnregisteredKeeps
  <2>5. HooksAccounted'
    <3> SUFFICES ASSUME NEW q \in Plugins, Registers(q, hooks'), hookStatus'[q] = "disabled"
                 PROVE  \E d \in Calls : hookCall'[d].at = "enabling" /\ hookCall'[d].plugin = q
        BY DEF HooksAccounted
    <3>1. q # p /\ Registers(q, hooks) /\ hookStatus[q] = "disabled"
        BY <2>3, <2>4
    <3>2. PICK d \in Calls : hookCall[d].at = "enabling" /\ hookCall[d].plugin = q
        BY <1>0, <3>1 DEF HooksAccounted
    <3>3. d # c
        BY <2>1, <3>2
    <3> QED
        BY <2>2, <3>2, <3>3
  <2>6. p \in Hooks!ToSet(hooks) <=> Registers(p, hooks)
      BY <1>0 DEF Hooks!ToSet, Registers
  <2> DEFINE f == Hooks!Frozen(p)
  <2>9. hookRun' = f
      BY <2>1
  <2>10. f = [r \in Runs |-> f[r]]
      BY FrozenKeeps, Zenon
  <2>11. \A r \in Runs :
             f[r] = IF hookRun[r].at = "running" /\ hookRun[r].live /\ p \in Hooks!ToSet(hooks)
                      THEN [hookRun[r] EXCEPT !.live = FALSE, !.array = hooks] ELSE hookRun[r]
      BY FrozenKeeps, Zenon
  <2> HIDE DEF p, f
  <2>7. ASSUME NEW r \in Runs
        PROVE  hookRun'[r] \in HookRuns /\ RunHolds(hookRun'[r], hooks')
    <3> DEFINE y == hookRun[r]
               z == [y EXCEPT !.live = FALSE, !.array = hooks]
    <3>1. y \in HookRuns /\ RunHolds(y, hooks)
        BY <1>0 DEF RunsHold
    <3>2. hookRun'[r] = IF y.at = "running" /\ y.live /\ Registers(p, hooks) THEN z ELSE y
      <4>1. f[r] = IF y.at = "running" /\ y.live /\ p \in Hooks!ToSet(hooks) THEN z ELSE y
          BY <2>11, Zenon
      <4> HIDE DEF y, z
      <4> QED
          BY <2>6, <2>9, <4>1
    <3> HIDE DEF y
    <3>3. /\ z \in HookRuns /\ z.at = y.at /\ ~ z.live /\ z.array = hooks /\ z.disturbed = y.disturbed
          /\ z.next = y.next /\ z.began = y.began /\ z.ran = y.ran
        BY <1>0, <3>1 DEF HookRuns
    <3> HIDE DEF z
    <3>4. CASE y.at = "running" /\ y.live /\ Registers(p, hooks)
        BY <3>1, <3>2, <3>3, <3>4 DEF RunHolds
    <3>5. CASE ~ (y.at = "running" /\ y.live /\ Registers(p, hooks))
        BY <2>4, <3>1, <3>2, <3>5 DEF RunHolds
    <3> QED
        BY <3>4, <3>5
  <2>8. hookRun' \in [Runs -> HookRuns]
    <3>1. \A r \in Runs : f[r] \in HookRuns
        BY <2>7, <2>9
    <3> QED
        BY <2>9, <2>10, <3>1
  <2> QED
      BY <2>2, <2>3, <2>4, <2>5, <2>7, <2>8 DEF HooksInv, HooksTyped, RunsHold
<1> QED
    BY <1>1, <1>2, <1>3, <1>4

LEMMA PluginsExist == Plugins # {}
BY ServicesAssumption, Zenon DEF ServicesAssumption

LEMMA HooksNext ==
    ASSUME HooksInv, [Hooks!Next]_Hooks!vars
    PROVE  HooksInv'
<1>1. CASE UNCHANGED Hooks!vars
    BY <1>1 DEF Hooks!vars, HooksInv, HooksTyped, RunsHold, HooksAccounted
<1> QED
    BY <1>1, CallSteps, RunSteps DEF Hooks!Next

LEMMA HooksInit == Hooks!Init => HooksInv
<1> SUFFICES ASSUME Hooks!Init PROVE HooksInv
    OBVIOUS
<1>1. /\ hookStatus = [p \in Plugins |-> "installed"] /\ hooks = <<>>
      /\ hookCall = [c \in Calls |-> Hooks!NoCall] /\ hookRun = [r \in Runs |-> Hooks!NoRun]
    BY DEF Hooks!Init
<1>3. (CHOOSE p \in Plugins : TRUE) \in Plugins
    BY PluginsExist
<1>4. Hooks!NoCall \in HookCalls
    BY <1>3 DEF Hooks!NoCall, HookCalls
<1>5. /\ Hooks!NoRun \in HookRuns /\ Hooks!NoRun.at = "none" /\ Hooks!NoRun.live /\ Hooks!NoRun.next = 1
      /\ Hooks!NoRun.ran = <<>> /\ Hooks!NoRun.began = <<>>
    BY DEF Hooks!NoRun, HookRuns
<1>6. RunHolds(Hooks!NoRun, <<>>)
    BY <1>5 DEF RunHolds, Continues
<1>7. HooksTyped /\ RunsHold
    BY <1>1, <1>4, <1>5, <1>6 DEF HooksTyped, RunsHold, Hooks!Statuses
<1>8. HooksAccounted
    BY <1>1 DEF HooksAccounted, Registers
<1> QED
    BY <1>7, <1>8 DEF HooksInv

LEMMA HooksInvariant == Spec => []HooksInv
<1>1. Init => HooksInv
    BY HooksInit DEF Init
<1>2. HooksInv /\ [Next]_vars => HooksInv'
  <2> SUFFICES ASSUME HooksInv, [Next]_vars PROVE HooksInv'
      OBVIOUS
  <2>1. [Hooks!Next]_Hooks!vars
      BY EachServiceSteps
  <2> QED
      BY <2>1, HooksNext
<1> QED
    BY <1>1, <1>2, PTL DEF Spec

\* PluginHooks: an execution that no registration has disturbed calls the handlers it began
\* with, in their order, and all of them unless one stops it.
THEOREM ChainAlwaysHolds == Spec => []ChainHolds
<1>1. HooksInv => ChainHolds
  <2> SUFFICES ASSUME HooksInv, NEW r \in Runs, ~ hookRun[r].disturbed
               PROVE  /\ hookRun[r].ran = SubSeq(hookRun[r].began, 1, Len(hookRun[r].ran))
                      /\ hookRun[r].at = "over" => hookRun[r].ran = hookRun[r].began
      BY DEF ChainHolds, Hooks!ChainHolds
  <2> DEFINE b == hookRun[r].began
             n == hookRun[r].ran
  <2>1. n \in Seq(Plugins) /\ b \in Seq(Plugins) /\ RunHolds(hookRun[r], hooks)
      BY DEF HooksInv, HooksTyped, HookRuns, RunsHold
  <2>2. Continues(n, b) /\ (hookRun[r].at = "over" => Len(n) = Len(b))
      BY <2>1 DEF RunHolds
  <2> HIDE DEF b, n
  <2>3. /\ Len(n) \in Nat /\ Len(b) \in Nat /\ Len(n) <= Len(b)
        /\ \A i \in 1..Len(n) : b[i] = n[i]
      BY <2>1, <2>2 DEF Continues
  <2>4. /\ SubSeq(b, 1, Len(n)) \in Seq(Plugins) /\ Len(SubSeq(b, 1, Len(n))) = Len(n)
        /\ \A i \in 1..Len(n) : SubSeq(b, 1, Len(n))[i] = b[i]
      BY <2>1, <2>3
  <2> DEFINE sub == SubSeq(b, 1, Len(n))
  <2>5. sub \in Seq(Plugins) /\ Len(sub) = Len(n) /\ \A i \in 1..Len(n) : sub[i] = b[i]
      BY <2>4
  <2> HIDE DEF sub
  <2>6. n = sub
      BY <2>1, <2>3, <2>5
  <2>7. hookRun[r].at = "over" => n = b
      BY <2>1, <2>2, <2>3
  <2> QED
      BY <2>6, <2>7 DEF sub, n, b
<1> QED
    BY <1>1, HooksInvariant, PTL

\* PluginHooks: of a disabled plugin nothing stays registered, unless a call is enabling it.
THEOREM DisabledNeverHasHook == Spec => []DisabledHasNoHook
<1>1. HooksInv => DisabledHasNoHook
  <2> SUFFICES ASSUME HooksInv, NEW p \in Plugins, hookStatus[p] = "disabled",
                      \A c \in Calls : hookCall[c] # [at |-> "enabling", plugin |-> p],
                      p \in Hooks!ToSet(hooks)
               PROVE  FALSE
      BY DEF DisabledHasNoHook, Hooks!DisabledHasNoHook
  <2>1. hooks \in Seq(Plugins) /\ hookCall \in [Calls -> HookCalls]
      BY DEF HooksInv, HooksTyped
  <2>2. Registers(p, hooks)
      BY <2>1 DEF Hooks!ToSet, Registers
  <2>3. PICK c \in Calls : hookCall[c].at = "enabling" /\ hookCall[c].plugin = p
      BY <2>2 DEF HooksInv, HooksAccounted
  <2>4. hookCall[c] = [at |-> "enabling", plugin |-> p]
      BY <2>1, <2>3 DEF HookCalls
  <2> QED
      BY <2>4
<1> QED
    BY <1>1, HooksInvariant, PTL

-----------------------------------------------------------------------------
(* The scan of MessageRetryScan: the messages that are due are in its order once each. *)

\* The order d has each row that is due, and each once.
InOrder(d, st) ==
    /\ \A i, k \in 1..Len(d) : d[i] = d[k] => i = k
    /\ \A i \in 1..Len(d) : st[d[i]] = "due"
    /\ \A r \in ScanRows : st[r] = "due" => \E i \in 1..Len(d) : d[i] = r

ScanInv ==
    /\ msgState \in [ScanRows -> Scan!States]
    /\ msgDue \in Seq(ScanRows) /\ InOrder(msgDue, msgState)
    /\ msgBatch \in Seq(ScanRows) /\ Len(msgBatch) <= Batch

LEMMA RowsAreFinite == IsFiniteSet(ScanRows) /\ ScanRows \in SUBSET Nat /\ Batch \in Nat
BY ServicesAssumption DEF ServicesAssumption

LEMMA ScanArrays ==
    /\ \A s, K : Scan!Entries(s, K) = Entries(s, K)
    /\ \A S : Scan!Ascending(S) = Ascending(S) /\ Scan!Cardinality(S) = Cardinality(S)
<1>1. \A S : Scan!Ascending(S) = Ascending(S) /\ Scan!Cardinality(S) = Cardinality(S)
    BY DEF Scan!Ascending, Ascending, Scan!Cardinality, Cardinality
<1> QED
    BY <1>1 DEF Scan!Entries, Entries

LEMMA OrderOfRows == ASSUME msgDue \in Seq(ScanRows) PROVE Scan!Order \in Seq(ScanRows)
<1> DEFINE S == {r \in ScanRows : msgState[r] = "stale"}
           n == Cardinality(S)
           a == Ascending(S)
<1>1. S \in SUBSET Nat /\ IsFiniteSet(S) /\ S \subseteq ScanRows
    BY RowsAreFinite, FS_Subset
<1>2. Scan!StalePending = a
    BY ScanArrays DEF Scan!StalePending
<1> HIDE DEF S
<1>3. n \in Nat /\ \A k \in 1..n : a[k] \in ScanRows
    BY <1>1, FS_CardinalityType, AscendingKth
<1>4. a \in [1..n -> ScanRows]
    BY <1>3 DEF Ascending
<1> HIDE DEF a, n
<1>5. a \in Seq(ScanRows)
    BY <1>3, <1>4
<1> QED
    BY <1>2, <1>5 DEF Scan!Order

LEMMA ScanNext == ASSUME ScanInv, [Scan!Next]_Scan!vars PROVE ScanInv'
<1>0. /\ msgState \in [ScanRows -> Scan!States]
      /\ msgDue \in Seq(ScanRows) /\ InOrder(msgDue, msgState)
      /\ msgBatch \in Seq(ScanRows) /\ Len(msgBatch) <= Batch
      /\ DOMAIN msgDue = 1..Len(msgDue) /\ Len(msgDue) \in Nat
      /\ \A i \in 1..Len(msgDue) : msgDue[i] \in ScanRows
    BY DEF ScanInv
\* A row changes that is not due, and does not become so.
<1>1. ASSUME NEW r \in ScanRows, NEW x \in Scan!States \ {"due"}, msgState[r] # "due",
             msgState' = [msgState EXCEPT ![r] = x], UNCHANGED <<msgDue, msgBatch>>
      PROVE  ScanInv'
    BY <1>0, <1>1 DEF ScanInv, InOrder
<1>2. ASSUME NEW r \in ScanRows, Scan!GrowsStale(r) PROVE ScanInv'
    BY <1>1, <1>2 DEF Scan!GrowsStale, Scan!States
<1>3. ASSUME NEW r \in ScanRows, Scan!SenderAnswers(r) PROVE ScanInv'
  <2> PICK x \in {"settled"} \cup (IF r \in Payload THEN {"later"} ELSE {}) :
          msgState' = [msgState EXCEPT ![r] = x]
      BY <1>3 DEF Scan!SenderAnswers
  <2>1. x \in Scan!States \ {"due"} /\ msgState[r] # "due" /\ UNCHANGED <<msgDue, msgBatch>>
      BY <1>3 DEF Scan!SenderAnswers, Scan!States
  <2> QED
      BY <1>1, <2>1
<1>4. ASSUME NEW r \in ScanRows, Scan!FallsDue(r) PROVE ScanInv'
  <2>1. /\ msgState[r] = "later" /\ msgState' = [msgState EXCEPT ![r] = "due"]
        /\ msgDue' = Append(msgDue, r) /\ UNCHANGED msgBatch
      BY <1>4 DEF Scan!FallsDue
  <2>2. /\ msgState' \in [ScanRows -> Scan!States]
        /\ \A t \in ScanRows : msgState'[t] = IF t = r THEN "due" ELSE msgState[t]
      BY <1>0, <2>1 DEF Scan!States
  <2>3. /\ msgDue' \in Seq(ScanRows) /\ Len(msgDue') = Len(msgDue) + 1
        /\ \A i \in 1..Len(msgDue') : msgDue'[i] = IF i \in 1..Len(msgDue) THEN msgDue[i] ELSE r
      BY <1>0, <2>1
  <2>4. \A i \in 1..Len(msgDue) : msgDue[i] # r
      BY <1>0, <2>1 DEF InOrder
  <2>5. \A i, k \in 1..Len(msgDue') : msgDue'[i] = msgDue'[k] => i = k
      BY <1>0, <2>3, <2>4 DEF InOrder
  <2>6. \A i \in 1..Len(msgDue') : msgState'[msgDue'[i]] = "due"
      BY <1>0, <2>2, <2>3 DEF InOrder
  <2>7. ASSUME NEW t \in ScanRows, msgState'[t] = "due"
        PROVE  \E i \in 1..Len(msgDue') : msgDue'[i] = t
    <3>1. CASE t = r
        BY <1>0, <2>3, <3>1
    <3>2. CASE t # r
      <4> PICK i \in 1..Len(msgDue) : msgDue[i] = t
          BY <1>0, <2>2, <2>7, <3>2 DEF InOrder
      <4> QED
          BY <1>0, <2>3
    <3> QED
        BY <3>1, <3>2
  <2> QED
      BY <1>0, <2>1, <2>2, <2>3, <2>5, <2>6, <2>7 DEF ScanInv, InOrder
<1>5. CASE Scan!ScanBegins
  <2> DEFINE n == IF Len(Scan!Order) < Batch THEN Len(Scan!Order) ELSE Batch
  <2>1. msgBatch' = SubSeq(Scan!Order, 1, n) /\ UNCHANGED <<msgState, msgDue>>
      BY <1>5 DEF Scan!ScanBegins
  <2>2. Scan!Order \in Seq(ScanRows)
      BY <1>0, OrderOfRows
  <2>3. n \in Nat /\ n <= Len(Scan!Order) /\ n <= Batch
      BY <2>2, RowsAreFinite
  <2> HIDE DEF n
  <2>4. msgBatch' \in Seq(ScanRows) /\ Len(msgBatch') = n
      BY <2>1, <2>2, <2>3
  <2> QED
      BY <1>0, <2>1, <2>3, <2>4 DEF ScanInv
<1>6. CASE Scan!Processes
  <2> DEFINE r == Head(msgBatch)
  <2>1. /\ msgBatch # <<>> /\ msgBatch' = Tail(msgBatch)
        /\ \/ UNCHANGED <<msgState, msgDue>>
           \/ /\ \E x \in {"settled", "later"} : msgState' = [msgState EXCEPT ![r] = x]
              /\ msgDue' = Scan!Filter(msgDue, LAMBDA d : d # r)
      BY <1>6 DEF Scan!Processes
  <2>2. r \in ScanRows /\ msgBatch' \in Seq(ScanRows) /\ Len(msgBatch') <= Batch
      BY <1>0, <2>1, RowsAreFinite
  <2> HIDE DEF r
  <2>3. CASE UNCHANGED <<msgState, msgDue>>
      BY <1>0, <2>2, <2>3 DEF ScanInv
  <2>4. ASSUME NEW x \in {"settled", "later"}, msgState' = [msgState EXCEPT ![r] = x],
               msgDue' = Scan!Filter(msgDue, LAMBDA d : d # r)
        PROVE  ScanInv'
    <3> DEFINE K == {i \in DOMAIN msgDue : msgDue[i] # r}
               a == Ascending(K)
               n == Cardinality(K)
    <3>1. msgDue' = Entries(msgDue, K)
        BY <2>4, ScanArrays DEF Scan!Filter
    <3>2. K \in SUBSET DOMAIN msgDue /\ \A i \in 1..Len(msgDue) : i \in K <=> msgDue[i] # r
        BY <1>0
    <3> HIDE DEF K
    <3>3. /\ msgDue' \in Seq(ScanRows) /\ Len(msgDue') = n
          /\ \A k \in 1..n : a[k] \in K /\ msgDue'[k] = msgDue[a[k]]
          /\ \A j, k \in 1..n : j # k => a[j] # a[k]
          /\ \A i \in K : \E k \in 1..n : a[k] = i
        BY <1>0, <3>1, <3>2, EntriesKept
    <3> HIDE DEF a, n
    <3>4. \A k \in 1..Len(msgDue') : /\ a[k] \in 1..Len(msgDue) /\ msgDue'[k] = msgDue[a[k]]
                                     /\ msgDue[a[k]] # r
        BY <1>0, <3>2, <3>3
    <3>5. /\ msgState' \in [ScanRows -> Scan!States]
          /\ \A t \in ScanRows : msgState'[t] = IF t = r THEN x ELSE msgState[t]
        BY <1>0, <2>4 DEF Scan!States
    <3>6. \A i, k \in 1..Len(msgDue') : msgDue'[i] = msgDue'[k] => i = k
        BY <1>0, <3>3, <3>4 DEF InOrder
    <3>7. \A i \in 1..Len(msgDue') : msgState'[msgDue'[i]] = "due"
        BY <1>0, <3>4, <3>5 DEF InOrder
    <3>8. ASSUME NEW t \in ScanRows, msgState'[t] = "due"
          PROVE  \E i \in 1..Len(msgDue') : msgDue'[i] = t
      <4>1. t # r /\ msgState[t] = "due"
          BY <3>5, <3>8
      <4> PICK i \in 1..Len(msgDue) : msgDue[i] = t
          BY <1>0, <4>1 DEF InOrder
      <4>2. i \in K
          BY <3>2, <4>1
      <4> PICK k \in 1..n : a[k] = i
          BY <3>3, <4>2
      <4> QED
          BY <3>3
    <3> QED
        BY <2>2, <3>3, <3>5, <3>6, <3>7, <3>8 DEF ScanInv, InOrder
  <2> QED
      BY <2>1, <2>3, <2>4
<1>7. CASE UNCHANGED Scan!vars
    BY <1>0, <1>7 DEF ScanInv, Scan!vars
<1> QED
    BY <1>2, <1>3, <1>4, <1>5, <1>6, <1>7 DEF Scan!Next

LEMMA ScanInit == ASSUME Scan!Init PROVE ScanInv
<1>1. msgState = [r \in ScanRows |-> "fresh"] /\ msgDue = <<>> /\ msgBatch = <<>>
    BY DEF Scan!Init
<1>2. msgDue \in Seq(ScanRows) /\ Len(msgDue) = 0 /\ msgBatch \in Seq(ScanRows) /\ Len(msgBatch) <= Batch
    BY <1>1, RowsAreFinite
<1>3. msgState \in [ScanRows -> Scan!States] /\ \A r \in ScanRows : msgState[r] # "due"
    BY <1>1 DEF Scan!States
<1> QED
    BY <1>2, <1>3 DEF ScanInv, InOrder

LEMMA ScanInvariant == Spec => []ScanInv
<1>1. Init => ScanInv
    BY ScanInit DEF Init
<1>2. ScanInv /\ [Next]_vars => ScanInv'
  <2> SUFFICES ASSUME ScanInv, [Next]_vars PROVE ScanInv'
      OBVIOUS
  <2>1. [Scan!Next]_Scan!vars
      BY EachServiceSteps
  <2> QED
      BY <2>1, ScanNext
<1> QED
    BY <1>1, <1>2, PTL DEF Spec

LEMMA ScanTypes == ScanInv => Scan!TypeOK
<1> SUFFICES ASSUME ScanInv PROVE Scan!TypeOK
    OBVIOUS
<1> DEFINE S == Scan!ToSet(msgDue)
           n == Len(msgDue)
<1>1. /\ msgDue \in Seq(ScanRows) /\ InOrder(msgDue, msgState) /\ n \in Nat
      /\ DOMAIN msgDue = 1..n /\ \A i \in 1..n : msgDue[i] \in ScanRows
    BY DEF ScanInv
<1>2. S = {msgDue[i] : i \in 1..n}
    BY <1>1 DEF Scan!ToSet
<1>3. S = {r \in ScanRows : msgState[r] = "due"}
    BY <1>1, <1>2 DEF InOrder
<1> HIDE DEF S, n
<1>4. n = Scan!Cardinality(S)
  <2>1. msgDue \in Bijection(1..n, S)
      BY <1>1, <1>2 DEF InOrder, n, Bijection, Injection, Surjection, IsInjective
  <2>2. ExistsBijection(1..n, S)
      BY <2>1 DEF ExistsBijection
  <2> QED
      BY <1>1, <2>2, FS_CountingElements, ScanArrays
<1> USE DEF S, n
<1> QED
    BY <1>3, <1>4 DEF ScanInv, Scan!TypeOK

-----------------------------------------------------------------------------
(* The other types of the gateway's services *)

KeyTornTyped == keyTorn \in BOOLEAN

LEMMA KeyTornStep ==
    ASSUME keyTorn \in BOOLEAN, [Keys!Next]_Keys!vars
    PROVE  keyTorn' \in BOOLEAN
<1>1. ASSUME NEW q \in KeyRequests, keyTorn' = (keyTorn \/ keyRow # keyReq[q].read)
      PROVE  keyTorn' \in BOOLEAN
    BY <1>1, Zenon
<1>2. ASSUME NEW q \in KeyRequests,
             Keys!FlushSaves(q) \/ Keys!EditSaves(q) \/ Keys!RevokeSaves(q) \/ Keys!DeleteRemoves(q)
      PROVE  keyTorn' \in BOOLEAN
    BY <1>1, <1>2, Zenon DEF Keys!FlushSaves, Keys!EditSaves, Keys!RevokeSaves, Keys!DeleteRemoves, Keys!Save
<1>3. ASSUME NEW q \in KeyRequests,
             \/ \E kind \in {"validate", "edit", "revoke", "delete"} : Keys!Reads(q, kind)
             \/ Keys!Rejects(q) \/ Keys!Counts(q) \/ Keys!NotFound(q)
             \/ Keys!Drops(q, "revoke", "revoking") \/ Keys!Drops(q, "delete", "deleting")
      PROVE  UNCHANGED keyTorn
    BY <1>3 DEF Keys!Reads, Keys!Rejects, Keys!Counts, Keys!NotFound, Keys!Drops
<1>4. CASE UNCHANGED Keys!vars \/ Keys!WindowPasses \/ Keys!Restart
  <2>1. UNCHANGED keyTorn
      BY <1>4 DEF Keys!vars, Keys!WindowPasses, Keys!Restart
  <2> QED
      BY <2>1
<1> QED
    BY <1>2, <1>3, <1>4, Zenon DEF Keys!Next

GroupTornTyped == groupTorn \in BOOLEAN

LEMMA TornsTyped == Spec => [](KeyTornTyped /\ GroupTornTyped)
<1>1. Init => KeyTornTyped /\ GroupTornTyped
    BY DEF Init, Keys!Init, Group!Init, KeyTornTyped, GroupTornTyped
<1>2. KeyTornTyped /\ GroupTornTyped /\ [Next]_vars => KeyTornTyped' /\ GroupTornTyped'
  <2> SUFFICES ASSUME KeyTornTyped, GroupTornTyped, [Next]_vars
               PROVE  KeyTornTyped' /\ GroupTornTyped'
      OBVIOUS
  <2>1. [Keys!Next]_Keys!vars /\ [Group!Next]_Group!vars
      BY EachServiceSteps
  <2> QED
      BY <2>1, KeyTornStep, GroupTornStep DEF KeyTornTyped, GroupTornTyped
<1> QED
    BY <1>1, <1>2, PTL DEF Spec

\* The state of every service in the gateway is typed.
GatewayTypeOK ==
    /\ Hooks!TypeOK /\ Scan!TypeOK /\ Assignment!TypeOK /\ Conversation!TypeOK
    /\ Group!TypeOK /\ Keys!TypeOK

LEMMA GatewayTyped == Spec => []GatewayTypeOK
<1>1. HooksInv => Hooks!TypeOK
    BY DEF HooksInv, HooksTyped, HookCalls, HookRuns, Hooks!TypeOK
<1>2. SessionsInv => Assignment!TypeOK
    BY DEF SessionsInv
<1>3. ChatInv => Conversation!TypeOK
  <2> SUFFICES ASSUME ChatInv PROVE Conversation!TypeOK
      OBVIOUS
  <2>1. ChatTyped
      BY DEF ChatInv
  <2>2. \A q \in Conversation!Requests : chatReq[q] \in ChatReqs
      BY <2>1 DEF ChatTyped
  <2> QED
      BY <2>1, <2>2 DEF ChatTyped, ChatReqs, ChatRows, Directions, Conversation!TypeOK
<1>4. GroupInv /\ GroupTornTyped => Group!TypeOK
    BY GroupTypes DEF GroupTornTyped
<1>5. KeysInv /\ KeyTornTyped => Keys!TypeOK
    BY DEF KeysInv, KeysTyped, KeyReqs, KeyTornTyped, Keys!TypeOK
<1>6. HooksInv /\ ScanInv /\ SessionsInv /\ ChatInv /\ GroupInv /\ KeysInv /\ KeyTornTyped /\ GroupTornTyped
          => GatewayTypeOK
    BY <1>1, <1>2, <1>3, <1>4, <1>5, ScanTypes DEF GatewayTypeOK
<1> QED
    BY <1>6, HooksInvariant, ScanInvariant, SessionsInvariant, ChatInvariant, GroupInvariant,
       KeysInvariant, TornsTyped, PTL

=============================================================================
