----------------------------- MODULE BulkBatch ------------------------------
(***************************************************************************)
(* One bulk batch of BulkMessageService: processBatch works through the    *)
(* messages on its in-memory copy of the row, cancelBatch calls flip the   *)
(* processingBatches flag and save copies of their own, a crash loses all  *)
(* but the row.  Each step is the code between two awaits; save() writes   *)
(* every column.                                                           *)
(***************************************************************************)
EXTENDS Naturals

CONSTANTS
    Cancellers, \* callers of cancelBatch
    Total,      \* batch.messages.length
    SaveEvery,  \* progress is saved after messages 0, SaveEvery, 2 * SaveEvery, ...
    MaxCrashes  \* bound: crashes of the process

ASSUME TotalAssumption == Total \in Nat \ {0}
ASSUME SaveEveryAssumption == SaveEvery \in Nat \ {0}
ASSUME MaxCrashesAssumption == MaxCrashes \in Nat

VARIABLES
    stopOnError, \* options.stopOnError, fixed by createBatch
    batch,       \* the row
    flag,        \* processingBatches.get(batch.id): "unset", "true" or "false"
    at,          \* the await processBatch is suspended in
    mine,        \* the copy processBatch works on
    cancel,      \* each cancelBatch call: its await and its copy
    accepted,    \* messages the engine has accepted, over all crashes
    crashes      \* crashes so far

vars == <<stopOnError, batch, flag, at, mine, cancel, accepted, crashes>>

BatchStatuses == {"pending", "processing", "completed", "cancelled", "failed"}

\* status, progress and currentIndex; progress.total is Total.
Batches == [status : BatchStatuses, sent : 0..Total, failed : 0..Total,
            pending : 0..Total, cancelled : 0..Total, index : 0..Total]

NewBatch == [status |-> "pending", sent |-> 0, failed |-> 0,
             pending |-> Total, cancelled |-> 0, index |-> 0]

\* "gone": the process that ran it has crashed.
ProcessStates == {"found", "starting", "loop", "sending", "saving",
                  "finishing", "done", "gone"}
CancelStates == [at : {"idle", "found", "saving", "returned", "refused"}, copy : Batches]

TypeOK ==
    /\ stopOnError \in BOOLEAN
    /\ batch \in Batches
    /\ flag \in {"unset", "true", "false"}
    /\ at \in ProcessStates
    /\ mine \in Batches
    /\ cancel \in [Cancellers -> CancelStates]
    /\ accepted \in 0..Total
    /\ crashes \in 0..MaxCrashes

-----------------------------------------------------------------------------
(* processBatch *)

\* findOne has read the row; processBatch does not look at the status it holds.
ProcessStarts ==
    /\ at = "found"
    /\ flag' = "true"
    /\ mine' = [mine EXCEPT !.status = "processing"]
    /\ at' = "starting"
    /\ UNCHANGED <<stopOnError, batch, cancel, accepted, crashes>>

ProcessMarks ==
    /\ at = "starting"
    /\ batch' = mine
    /\ at' = "loop"
    /\ UNCHANGED <<stopOnError, flag, mine, cancel, accepted, crashes>>

\* The head of the loop lets the next message go.
SendBegins ==
    /\ at = "loop"
    /\ mine.index < Total
    /\ flag = "true"
    /\ at' = "sending"
    /\ UNCHANGED <<stopOnError, batch, flag, mine, cancel, accepted, crashes>>

\* Mutant: progress is saved only at the end.
SavesAfter_LastOnly(i) == i = Total - 1

\* Every tenth message counted from the first, and the last one.
SavesAfter(i) == i % SaveEvery = 0 \/ i = Total - 1

AfterMessage(i) == at' = IF SavesAfter(i) THEN "saving" ELSE "loop"

SendSucceeds ==
    /\ at = "sending"
    /\ mine' = [mine EXCEPT !.sent = @ + 1, !.pending = @ - 1, !.index = @ + 1]
    /\ accepted' = accepted + 1
    /\ AfterMessage(mine.index)
    /\ UNCHANGED <<stopOnError, batch, flag, cancel, crashes>>

SendFails ==
    /\ at = "sending"
    /\ ~stopOnError
    /\ mine' = [mine EXCEPT !.failed = @ + 1, !.pending = @ - 1, !.index = @ + 1]
    /\ AfterMessage(mine.index)
    /\ UNCHANGED <<stopOnError, batch, flag, cancel, accepted, crashes>>

ProgressSaved ==
    /\ at = "saving"
    /\ batch' = mine
    /\ at' = "loop"
    /\ UNCHANGED <<stopOnError, flag, mine, cancel, accepted, crashes>>

\* resolveFinalBatchStatus
FinalStatus(cancelled, stopped, b) ==
    IF cancelled THEN "cancelled"
    ELSE IF stopped \/ (b.failed > 0 /\ b.sent = 0) THEN "failed"
    ELSE "completed"

CallOff(b) == [b EXCEPT !.cancelled = b.pending, !.pending = 0]

\* Mutant: the counters are left for cancelBatch to correct.
FinalCopy_NoReconcile(b, stopped) ==
    [b EXCEPT !.status = FinalStatus(flag # "true", stopped, b)]

\* The row the final update saves.
FinalCopy(b, stopped) ==
    [(IF flag # "true" THEN CallOff(b) ELSE b)
        EXCEPT !.status = FinalStatus(flag # "true", stopped, b)]

\* stopOnError: the failed message ends the loop without advancing currentIndex.
SendFailsAndStops ==
    /\ at = "sending"
    /\ stopOnError
    /\ mine' = FinalCopy([mine EXCEPT !.failed = @ + 1, !.pending = @ - 1], TRUE)
    /\ at' = "finishing"
    /\ UNCHANGED <<stopOnError, batch, flag, cancel, accepted, crashes>>

\* The loop is over, or the flag was seen down.
LoopEnds ==
    /\ at = "loop"
    /\ mine.index = Total \/ flag # "true"
    /\ mine' = FinalCopy(mine, FALSE)
    /\ at' = "finishing"
    /\ UNCHANGED <<stopOnError, batch, flag, cancel, accepted, crashes>>

ProcessFinishes ==
    /\ at = "finishing"
    /\ batch' = mine
    /\ flag' = "unset"
    /\ at' = "done"
    /\ UNCHANGED <<stopOnError, mine, cancel, accepted, crashes>>

-----------------------------------------------------------------------------
(* cancelBatch *)

CancelFinds(c) ==
    /\ cancel[c].at = "idle"
    /\ cancel' = [cancel EXCEPT ![c] = [at |-> "found", copy |-> batch]]
    /\ UNCHANGED <<stopOnError, batch, flag, at, mine, accepted, crashes>>

\* "is already completed / cancelled"
CancelRefused(c) ==
    /\ cancel[c].at = "found"
    /\ cancel[c].copy.status \in {"completed", "cancelled"}
    /\ cancel' = [cancel EXCEPT ![c].at = "refused"]
    /\ UNCHANGED <<stopOnError, batch, flag, at, mine, accepted, crashes>>

\* Mutant: the pending count is not cleared.
CancelledCopy_KeepsPending(b) == [b EXCEPT !.cancelled = b.pending, !.status = "cancelled"]

CancelledCopy(b) == [CallOff(b) EXCEPT !.status = "cancelled"]

CancelSignals(c) ==
    /\ cancel[c].at = "found"
    /\ cancel[c].copy.status \notin {"completed", "cancelled"}
    /\ flag' = "false"
    /\ cancel' = [cancel EXCEPT ![c] = [at |-> "saving", copy |-> CancelledCopy(cancel[c].copy)]]
    /\ UNCHANGED <<stopOnError, batch, at, mine, accepted, crashes>>

CancelSaves(c) ==
    /\ cancel[c].at = "saving"
    /\ batch' = cancel[c].copy
    /\ cancel' = [cancel EXCEPT ![c].at = "returned"]
    /\ UNCHANGED <<stopOnError, flag, at, mine, accepted, crashes>>

-----------------------------------------------------------------------------
(* Crash and restart *)

\* Mutant: orphaned batches are not looked for.
Orphaned_Kept(b) == b

\* onApplicationBootstrap: a PROCESSING row has no process any more.
Orphaned(b) == IF b.status = "processing" THEN [b EXCEPT !.status = "failed"] ELSE b

\* Nothing is served before the bootstrap is through, so crash and restart are one step.
Crash ==
    /\ crashes < MaxCrashes
    /\ crashes' = crashes + 1
    /\ batch' = Orphaned(batch)
    /\ flag' = "unset"
    /\ at' = IF at = "done" THEN at ELSE "gone"
    /\ cancel' = [c \in Cancellers |-> IF cancel[c].at \in {"returned", "refused"} THEN cancel[c]
                                       ELSE [at |-> "idle", copy |-> NewBatch]]
    /\ UNCHANGED <<stopOnError, mine, accepted>>

\* createBatch has saved the row and called processBatch, whose findOne has read it:
\* the query is issued as soon as the insert is known, one round trip against the
\* find, select and update of any cancelBatch.
Init ==
    /\ stopOnError \in BOOLEAN
    /\ batch = NewBatch
    /\ flag = "unset"
    /\ at = "found"
    /\ mine = NewBatch
    /\ cancel = [c \in Cancellers |-> [at |-> "idle", copy |-> NewBatch]]
    /\ accepted = 0
    /\ crashes = 0

ProcessStep ==
    \/ ProcessStarts \/ ProcessMarks
    \/ SendBegins \/ SendSucceeds \/ SendFails \/ SendFailsAndStops \/ ProgressSaved
    \/ LoopEnds \/ ProcessFinishes

CancelStep(c) == CancelFinds(c) \/ CancelRefused(c) \/ CancelSignals(c) \/ CancelSaves(c)

Next == ProcessStep \/ (\E c \in Cancellers : CancelStep(c)) \/ Crash

Spec == Init /\ [][Next]_vars

\* Every await settles: the sends, the saves and the delay between messages.
FairSpec == Spec /\ WF_vars(ProcessStep)

-----------------------------------------------------------------------------
(* Properties *)

\* progress.sent + failed + pending + cancelled = total in every saved row, although
\* processBatch and each cancelBatch save copies read at different times.
CountersAddUp == batch.sent + batch.failed + batch.pending + batch.cancelled = Total

\* A batch that reads completed or cancelled has nothing left to wait for.
SettledHasNoPending == batch.status \in {"completed", "cancelled"} => batch.pending = 0

\* "Save progress periodically (every 10 messages or last message)": while nobody
\* cancels, the row never lags the accepted messages by more than SaveEvery, so a
\* crash forgets no more than that.  It never claims a send that was not accepted.
RecordsSends ==
    /\ batch.sent <= accepted
    /\ (\A c \in Cancellers : cancel[c].at = "idle") => accepted - batch.sent <= SaveEvery

\* "it would otherwise be stuck in PROCESSING forever": a processing batch ends,
\* by finishing, by a cancellation or by the restart after a crash.
ProcessingEnds == batch.status = "processing" ~> batch.status # "processing"

\* "cancelled (cancelBatch flipped the flag) -> CANCELLED. Must win over the
\* in-memory PROCESSING status": once everything has settled, a batch whose
\* cancellation was granted is a cancelled one.
CancelWins ==
    /\ at = "done"
    /\ \E c \in Cancellers : cancel[c].at = "returned"
    /\ \A c \in Cancellers : cancel[c].at # "saving"
    => batch.status = "cancelled"
=============================================================================
