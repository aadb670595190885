--------------------------- MODULE MessageRetryScan ---------------------------
(***************************************************************************)
(* Which messages a scan of MessageRetryService takes: a limited number of *)
(* those that are due, by nextRetryAt and then by createdAt.  What becomes *)
(* of one message is MessageDelivery's subject; here there are many, and   *)
(* some stay in the table for ever.                                        *)
(***************************************************************************)
EXTENDS Naturals, Sequences, SequencesExt, FiniteSets, Arrays

CONSTANTS
    Rows,      \* a set of naturals: the messages, by createdAt
    Payload,   \* those with a retry payload; a forwarded message has none
    Batch,     \* MESSAGE_RETRY_BATCH_SIZE
    NullsFirst \* where the database sorts a missing nextRetryAt

VARIABLES
    state, \* of each message
    due,   \* the FAILED ones whose nextRetryAt has passed, in its order
    batch  \* what the running scan has still to process

vars == <<state, due, batch>>

\* `fresh`: PENDING for less than MESSAGE_PENDING_STALE_MS; `later`: FAILED, with a
\* nextRetryAt to come; `settled`: sent, or FAILED without a nextRetryAt.
States == {"fresh", "stale", "due", "later", "settled"}

TypeOK ==
    /\ state \in [Rows -> States]
    /\ ToSet(due) = {r \in Rows : state[r] = "due"}
    /\ Len(due) = Cardinality(ToSet(due))
    /\ batch \in Seq(Rows)
    /\ Len(batch) <= Batch

-----------------------------------------------------------------------------
\* The stale PENDING rows; their nextRetryAt is NULL.
StalePending == Ascending({r \in Rows : state[r] = "stale"})

\* Mutant: the oldest message first.
Order_ByCreation == Ascending({r \in Rows : state[r] \in {"stale", "due"}})

Order == IF NullsFirst THEN StalePending \o due ELSE due \o StalePending

\* Two minutes pass over a PENDING row.
GrowsStale(r) ==
    /\ state[r] = "fresh"
    /\ state' = [state EXCEPT ![r] = "stale"]
    /\ UNCHANGED <<due, batch>>

\* The sender itself settles it, or schedules a retry.
SenderAnswers(r) ==
    /\ state[r] = "fresh"
    /\ \E outcome \in {"settled"} \cup (IF r \in Payload THEN {"later"} ELSE {}) :
           state' = [state EXCEPT ![r] = outcome]
    /\ UNCHANGED <<due, batch>>

\* A nextRetryAt passes: later than all that have passed before.
FallsDue(r) ==
    /\ state[r] = "later"
    /\ state' = [state EXCEPT ![r] = "due"]
    /\ due' = Append(due, r)
    /\ UNCHANGED batch

\* processDueMessages: `processing` admits one scan at a time.
ScanBegins ==
    /\ batch = <<>>
    /\ Order # <<>>
    /\ batch' = SubSeq(Order, 1, IF Len(Order) < Batch THEN Len(Order) ELSE Batch)
    /\ UNCHANGED <<state, due>>

\* processMessage: without a payload nothing; with one, the row is sent, given up,
\* or put off (also when the session's engine is not READY).
Processes ==
    /\ batch # <<>>
    /\ batch' = Tail(batch)
    /\ LET r == Head(batch) IN
           IF r \notin Payload \/ state[r] \notin {"stale", "due"}
             THEN UNCHANGED <<state, due>>
             ELSE /\ \E outcome \in {"settled", "later"} : state' = [state EXCEPT ![r] = outcome]
                  /\ due' = Filter(due, LAMBDA d : d # r)

-----------------------------------------------------------------------------
Init ==
    /\ state = [r \in Rows |-> "fresh"]
    /\ due = <<>>
    /\ batch = <<>>

Next ==
    \/ \E r \in Rows : GrowsStale(r) \/ SenderAnswers(r) \/ FallsDue(r)
    \/ ScanBegins
    \/ Processes

Spec == Init /\ [][Next]_vars

\* The interval fires, and the awaits of a scan settle.
Fairness == WF_vars(ScanBegins) /\ WF_vars(Processes)

FairSpec == Spec /\ Fairness

-----------------------------------------------------------------------------
(* Properties *)

\* As long as fewer rows than a batch are beyond retry, every row that can be
\* retried is, however many others are put off again and again.
EveryRowTried ==
    Cardinality(Rows \ Payload) < Batch
        => \A r \in Payload : (state[r] \in {"stale", "due"}) ~> (state[r] \in {"later", "settled"})

=============================================================================
