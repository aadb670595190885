-------------------------- MODULE MessageDelivery ---------------------------
(***************************************************************************)
(* The life of one outgoing message row: MessageService sends it,          *)
(* MessageRetryService sends it again, and SessionService updates the row  *)
(* from the engine's echo (message_create) and delivery acks.  All of them *)
(* write the row; repository.save() writes every column from the copy its  *)
(* caller holds, only the lease and the ack are conditional UPDATEs.       *)
(***************************************************************************)
EXTENDS Naturals

CONSTANTS
    Replicas,    \* Aurora processes, each with its MessageRetryService
    Home,        \* the replica that serves the API call and runs the engine
    Retryable,   \* the row carries a retry payload (every kind but forward)
    StableIds,   \* the engine uses clientMessageId as WhatsApp id (Evolution Go)
    SameText,    \* the echo carries the text, type and chat of the row
    Slow,        \* may a send or the handling of an echo outlast the retry waits
    MaxAttempts, \* MESSAGE_RETRY_MAX_ATTEMPTS
    MaxSends,    \* bound: sends the network accepts
    MaxCrashes   \* bound: crashes of a replica

ASSUME HomeAssumption == Home \in Replicas
ASSUME FlagsAssumption ==
    /\ Retryable \in BOOLEAN
    /\ StableIds \in BOOLEAN
    /\ SameText \in BOOLEAN
    /\ Slow \in BOOLEAN
ASSUME BoundsAssumption ==
    /\ MaxAttempts \in Nat \ {0}
    /\ MaxSends \in Nat \ {0}
    /\ MaxCrashes \in Nat

VARIABLES
    row,     \* the message row
    aged,    \* the row is older than MESSAGE_PENDING_STALE_MS
    twins,   \* WhatsApp ids held by further rows, inserted for unmatched echoes
    sender,  \* the API call that created the row
    worker,  \* the retry scan of each replica: what it does with this row
    echo,    \* the message_create handling of each accepted send
    crashes  \* crashes so far

vars == <<row, aged, twins, sender, worker, echo, crashes>>

Sends == 1..MaxSends

\* The WhatsApp id of an accepted send; 0 is a null waMessageId.
WaId(i) == IF StableIds THEN 1 ELSE i

Statuses == {"none", "pending", "failed", "sent", "delivered", "read"}

\* nextRetryAt: null, in the future, or reached.
Dues == {"never", "later", "now"}

Rows == [status : Statuses, wa : 0..MaxSends, payload : BOOLEAN,
         due : Dues, count : 0..MaxAttempts]

NoRow == [status |-> "none", wa |-> 0, payload |-> FALSE, due |-> "never", count |-> 0]
NewRow == [status |-> "pending", wa |-> 0, payload |-> Retryable, due |-> "never", count |-> 0]

SenderStates == [at : {"idle", "sending", "returned", "threw", "done"}, send : 0..MaxSends]

\* `late`: nextRetryAt was reached only after the scan had read its clock.
WorkerStates == [at : {"idle", "scanned", "recovered", "sending", "returned", "threw"},
                 copy : Rows, late : BOOLEAN, send : 0..MaxSends]
IdleWorker == [at |-> "idle", copy |-> NoRow, late |-> FALSE, send |-> 0]

EchoStates == [at : {"none", "coming", "unmatched", "matched", "new", "done"}, copy : Rows]

TypeOK ==
    /\ row \in Rows
    /\ aged \in BOOLEAN
    /\ twins \subseteq Sends
    /\ sender \in SenderStates
    /\ worker \in [Replicas -> WorkerStates]
    /\ echo \in [Sends -> EchoStates]
    /\ crashes \in 0..MaxCrashes

-----------------------------------------------------------------------------
(* Helpers *)

\* UQ_messages_session_wa_id: a save is rejected if another row holds the id.
Clashes(r) == r.wa \in twins

\* Mutant: the payload goes, the date stays.
Sent_KeepsDue(r, i) == [r EXCEPT !.wa = WaId(i), !.status = "sent", !.payload = FALSE]

\* A row markMessageSent, or the worker's success path, makes of its copy.
Sent(r, i) == [r EXCEPT !.wa = WaId(i), !.status = "sent", !.payload = FALSE, !.due = "never"]

GivesUp(n) == n >= MaxAttempts

\* ackStatusTransitionFrom
AckFrom(target) ==
    CASE target = "delivered" -> {"pending", "sent"}
      [] target = "read" -> {"pending", "sent", "delivered"}
      [] target = "failed" -> {"pending", "sent"}

\* The network takes the message: from now on its echo and its acks may come.
Accept(i) ==
    /\ echo[i].at = "none"
    /\ \A j \in Sends : j < i => echo[j].at # "none"
    /\ echo' = [echo EXCEPT ![i].at = "coming"]

-----------------------------------------------------------------------------
(* MessageService: the API call *)

\* saveOutgoingMessage, before the send.
SenderBegins ==
    /\ sender.at = "idle"
    /\ row' = NewRow
    /\ sender' = [at |-> "sending", send |-> 0]
    /\ UNCHANGED <<aged, twins, worker, echo, crashes>>

\* The engine's send: accepted and answered, accepted but the answer is lost
\* (a timeout), or refused.
SenderAccepted(i) ==
    /\ sender.at = "sending"
    /\ Accept(i)
    /\ \E at \in {"returned", "threw"} : sender' = [at |-> at, send |-> i]
    /\ UNCHANGED <<row, aged, twins, worker, crashes>>

SenderRefused ==
    /\ sender.at = "sending"
    /\ sender' = [at |-> "threw", send |-> 0]
    /\ UNCHANGED <<row, aged, twins, worker, echo, crashes>>

\* markMessageSent saves the copy the call has held since the insert.  If a twin
\* owns the id the save is rejected, and so is that of markMessageFailed, which
\* the catch block calls with the same copy.
SenderMarksSent ==
    /\ sender.at = "returned"
    /\ LET saved == Sent(NewRow, sender.send)
       IN  row' = IF Clashes(saved) THEN row ELSE saved
    /\ sender' = [sender EXCEPT !.at = "done"]
    /\ UNCHANGED <<aged, twins, worker, echo, crashes>>

\* markMessageFailed: scheduled if the error is transient and there is a payload.
SenderMarksFailed ==
    /\ sender.at = "threw"
    /\ \E due \in (IF Retryable THEN {"later", "never"} ELSE {"never"}) :
           row' = [NewRow EXCEPT !.status = "failed", !.due = due]
    /\ sender' = [sender EXCEPT !.at = "done"]
    /\ UNCHANGED <<aged, twins, worker, echo, crashes>>

-----------------------------------------------------------------------------
(* MessageRetryService *)

\* Mutant: any pending row is taken for an interrupted one.
Abandoned_AnyAge == row.status = "pending"

\* Mutant: pending rows are not looked at.
Abandoned_Never == FALSE

\* PENDING and created before stalePendingAt.
Abandoned == row.status = "pending" /\ aged

\* The scan reads the row into its candidate list; processMessage returns at once
\* when the row has no payload.  Other candidates may come first.
Scan(r) ==
    /\ worker[r].at = "idle"
    /\ \/ row.status = "failed" /\ row.due = "now"
       \/ Abandoned
    /\ row.payload
    /\ worker' = [worker EXCEPT ![r] = [at |-> "scanned", copy |-> row, late |-> FALSE, send |-> 0]]
    /\ UNCHANGED <<row, aged, twins, sender, echo, crashes>>

\* A candidate read as PENDING is saved as FAILED and due.
Recover(r) ==
    /\ worker[r].at = "scanned"
    /\ worker[r].copy.status = "pending"
    /\ LET saved == [worker[r].copy EXCEPT !.status = "failed", !.due = "now"]
       IN  /\ row' = saved
           /\ worker' = [worker EXCEPT ![r].at = "recovered", ![r].copy = saved, ![r].late = FALSE]
    /\ UNCHANGED <<aged, twins, sender, echo, crashes>>

AtEngineCheck(r) == worker[r].at \in {"scanned", "recovered"} /\ worker[r].copy.status = "failed"

\* No engine, or not READY: the copy is saved with a later date.
NotReady(r) ==
    /\ AtEngineCheck(r)
    /\ row' = [worker[r].copy EXCEPT !.due = "later"]
    /\ worker' = [worker EXCEPT ![r] = IdleWorker]
    /\ UNCHANGED <<aged, twins, sender, echo, crashes>>

\* The conditional UPDATE that takes the lease.
Claim(r) ==
    /\ AtEngineCheck(r)
    /\ IF row.status = "failed" /\ row.due = "now" /\ ~worker[r].late
         THEN /\ row' = [row EXCEPT !.due = "later"]
              /\ worker' = [worker EXCEPT ![r].at = "sending"]
         ELSE /\ worker' = [worker EXCEPT ![r] = IdleWorker]
              /\ UNCHANGED row
    /\ UNCHANGED <<aged, twins, sender, echo, crashes>>

WorkerAccepted(r, i) ==
    /\ worker[r].at = "sending"
    /\ Accept(i)
    /\ \E at \in {"returned", "threw"} :
           worker' = [worker EXCEPT ![r].at = at, ![r].send = i]
    /\ UNCHANGED <<row, aged, twins, sender, crashes>>

WorkerRefused(r) ==
    /\ worker[r].at = "sending"
    /\ worker' = [worker EXCEPT ![r].at = "threw"]
    /\ UNCHANGED <<row, aged, twins, sender, echo, crashes>>

\* Success: save the copy as SENT.  If a twin owns the id, this save and the one
\* of the catch block are rejected and the scan ends with the lease still set.
WorkerMarksSent(r) ==
    /\ worker[r].at = "returned"
    /\ LET saved == Sent(worker[r].copy, worker[r].send)
       IN  row' = IF Clashes(saved) THEN row ELSE saved
    /\ worker' = [worker EXCEPT ![r] = IdleWorker]
    /\ UNCHANGED <<aged, twins, sender, echo, crashes>>

\* Failure: count it; the budget or a permanent error ends the retries.
WorkerMarksFailed(r) ==
    /\ worker[r].at = "threw"
    /\ LET copy == worker[r].copy
           attempts == copy.count + 1
       IN  \E due \in (IF GivesUp(attempts) THEN {"never"} ELSE {"later", "never"}) :
               row' = [copy EXCEPT !.status = "failed", !.count = attempts, !.due = due]
    /\ worker' = [worker EXCEPT ![r] = IdleWorker]
    /\ UNCHANGED <<aged, twins, sender, echo, crashes>>

-----------------------------------------------------------------------------
(* SessionService: echoes and acks *)

\* The lookups of persistOutgoingEngineMessage for a row not known to be sent: by
\* clientMessageId, then by text among the pending rows of the last two minutes.
MatchedUnsent ==
    \/ StableIds /\ row.status \in {"pending", "failed"}
    \/ SameText /\ row.status = "pending" /\ ~aged

EchoTo(i, at, copy) == echo' = [echo EXCEPT ![i] = [at |-> at, copy |-> copy]]

\* Lookup by waMessageId.  A hit on a twin rewrites the twin, which is no concern here.
EchoLooksUpId(i) ==
    /\ echo[i].at = "coming"
    /\ IF row.wa = WaId(i) THEN EchoTo(i, "matched", row)
       ELSE IF WaId(i) \in twins THEN EchoTo(i, "done", NoRow)
       ELSE EchoTo(i, "unmatched", NoRow)
    /\ UNCHANGED <<row, aged, twins, sender, worker, crashes>>

\* The other lookups, taken together.
EchoLooksUpUnsent(i) ==
    /\ echo[i].at = "unmatched"
    /\ IF MatchedUnsent THEN EchoTo(i, "matched", row) ELSE EchoTo(i, "new", NoRow)
    /\ UNCHANGED <<row, aged, twins, sender, worker, crashes>>

\* The copy that was found is saved as SENT, whatever the row has become.
EchoSaves(i) ==
    /\ echo[i].at = "matched"
    /\ LET saved == [echo[i].copy EXCEPT !.wa = WaId(i), !.status = "sent"]
       IN  row' = IF Clashes(saved) THEN row ELSE saved
    /\ EchoTo(i, "done", NoRow)
    /\ UNCHANGED <<aged, twins, sender, worker, crashes>>

\* A row of its own for the echo, unless the id is taken by now.
EchoInserts(i) ==
    /\ echo[i].at = "new"
    /\ twins' = IF row.wa = WaId(i) THEN twins ELSE twins \cup {WaId(i)}
    /\ EchoTo(i, "done", NoRow)
    /\ UNCHANGED <<row, aged, sender, worker, crashes>>

\* A plugin stops it, the engine is no longer current, or it never arrives.
EchoDropped(i) ==
    /\ echo[i].at = "coming"
    /\ EchoTo(i, "done", NoRow)
    /\ UNCHANGED <<row, aged, twins, sender, worker, crashes>>

\* onMessageAck: an UPDATE guarded by id and status.
Ack(i, target) ==
    /\ echo[i].at # "none"
    /\ row.wa = WaId(i)
    /\ row.status \in AckFrom(target)
    /\ row' = [row EXCEPT !.status = target]
    /\ UNCHANGED <<aged, twins, sender, worker, echo, crashes>>

-----------------------------------------------------------------------------
(* Time and crashes *)

\* Unless Slow, a send with the save that follows it, and the lookups and the save
\* of an echo, end before the stale time, a retry delay or a lease does.
Patient ==
    \/ Slow
    \/ /\ sender.at \in {"idle", "done"}
       /\ \A r \in Replicas : worker[r].at \notin {"sending", "returned", "threw"}
       /\ \A i \in Sends : echo[i].at \notin {"unmatched", "matched", "new"}

\* nextRetryAt is reached, for a scan under way too late.
Tick ==
    /\ Patient
    /\ row.due = "later"
    /\ row' = [row EXCEPT !.due = "now"]
    /\ worker' = [r \in Replicas |->
                     IF worker[r].at = "idle" THEN worker[r] ELSE [worker[r] EXCEPT !.late = TRUE]]
    /\ UNCHANGED <<aged, twins, sender, echo, crashes>>

Age ==
    /\ Patient
    /\ row.status # "none" /\ ~aged
    /\ aged' = TRUE
    /\ UNCHANGED <<row, twins, sender, worker, echo, crashes>>

\* A replica dies with all it was doing and is started again.
Crash(r) ==
    /\ crashes < MaxCrashes
    /\ crashes' = crashes + 1
    /\ worker' = [worker EXCEPT ![r] = IdleWorker]
    /\ IF r = Home
         THEN /\ sender' = IF sender.at = "idle" THEN sender ELSE [at |-> "done", send |-> 0]
              /\ echo' = [i \in Sends |-> IF echo[i].at \in {"none", "coming"} THEN echo[i]
                                          ELSE [at |-> "done", copy |-> NoRow]]
         ELSE UNCHANGED <<sender, echo>>
    /\ UNCHANGED <<row, aged, twins>>

Init ==
    /\ row = NoRow
    /\ aged = FALSE
    /\ twins = {}
    /\ sender = [at |-> "idle", send |-> 0]
    /\ worker = [r \in Replicas |-> IdleWorker]
    /\ echo = [i \in Sends |-> [at |-> "none", copy |-> NoRow]]
    /\ crashes = 0

SenderStep ==
    \/ SenderBegins \/ SenderRefused \/ SenderMarksSent \/ SenderMarksFailed
    \/ \E i \in Sends : SenderAccepted(i)

WorkerSends(r) == WorkerRefused(r) \/ \E i \in Sends : WorkerAccepted(r, i)

WorkerStep(r) ==
    \/ Scan(r) \/ Recover(r) \/ NotReady(r) \/ Claim(r)
    \/ WorkerSends(r) \/ WorkerMarksSent(r) \/ WorkerMarksFailed(r)

EchoStep(i) ==
    \/ EchoLooksUpId(i) \/ EchoLooksUpUnsent(i) \/ EchoSaves(i) \/ EchoInserts(i)
    \/ EchoDropped(i)

Next ==
    \/ SenderStep
    \/ \E r \in Replicas : WorkerStep(r) \/ Crash(r)
    \/ \E i \in Sends : EchoStep(i) \/ \E target \in {"delivered", "read", "failed"} : Ack(i, target)
    \/ Tick \/ Age

Spec == Init /\ [][Next]_vars

\* Awaited promises settle, time passes, the scan runs every MESSAGE_RETRY_POLL_MS.
\* Strong on Claim: the session does not stay disconnected at every scan for ever.
Fairness ==
    /\ WF_vars(SenderStep)
    /\ \A i \in Sends : WF_vars(EchoStep(i))
    /\ WF_vars(Tick) /\ WF_vars(Age)
    /\ \A r \in Replicas :
           /\ WF_vars(WorkerStep(r))
           /\ SF_vars(Claim(r))

FairSpec == Spec /\ Fairness

-----------------------------------------------------------------------------
(* Properties *)

\* At most one scan holds the row.  (One replica: the recovery of a stale row resets
\* the lease another replica may just have taken.)
OneRetryAtATime ==
    \A r, s \in Replicas : worker[r].at = "sending" /\ worker[s].at = "sending" => r = s

\* The row is never handed to an engine while an earlier send of it is unanswered:
\* the age test, the lease and the `processing` flag keep API call and scan apart,
\* also across a crash.  (One replica, sends shorter than the waits.)
OneSendAtATime ==
    /\ sender.at = "sending" => \A r \in Replicas : worker[r].at # "sending"
    /\ OneRetryAtATime

\* A failed row with a date is one the scan can retry: it has its payload and
\* attempts left, although four writers save stale copies of both.
ScheduledCanRetry ==
    row.status = "failed" /\ row.due # "never" => row.payload /\ row.count < MaxAttempts

\* "delivery state only moves forward": a message reported delivered or read is
\* never shown as anything less.
DeliveryAdvances ==
    [][/\ row.status = "delivered" => row'.status \in {"delivered", "read"}
       /\ row.status = "read" => row'.status = "read"]_row

\* Whatever is lost or crashes on the way, a message with a payload does not stay
\* pending or scheduled: it is sent, or it has failed for good.
Unsettled == row.status = "pending" \/ (row.status = "failed" /\ row.due # "never")

MessageSettles == Unsettled ~> ~Unsettled
=============================================================================
