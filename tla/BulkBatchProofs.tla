--------------------------- MODULE BulkBatchProofs --------------------------
(***************************************************************************)
(* Accounting of one bulk batch, for any number of messages, cancellers    *)
(* and crashes: the counters of the saved row always add up, a completed   *)
(* or cancelled row has nothing pending, and no copy leaves its type.      *)
(***************************************************************************)
EXTENDS BulkBatch, Integers, TLAPS

\* What every copy of the row satisfies, wherever it is held.
Balanced(b) ==
    /\ b.sent + b.failed + b.pending + b.cancelled = Total
    /\ b.status \in {"completed", "cancelled"} => b.pending = 0
    /\ b.status # "cancelled" => b.cancelled = 0

\* While the loop runs, its copy counts as pending exactly the messages from
\* currentIndex on.
LoopStates == {"found", "starting", "loop", "sending", "saving"}

LoopCopy ==
    at \in LoopStates =>
        /\ mine.status \in {"pending", "processing"}
        /\ mine.pending = Total - mine.index
        /\ at = "sending" => mine.index < Total

IInv ==
    /\ TypeOK
    /\ Balanced(batch) /\ Balanced(mine)
    /\ \A c \in Cancellers : Balanced(cancel[c].copy)
    /\ LoopCopy
    /\ accepted = mine.sent

-----------------------------------------------------------------------------
(* The copies *)

\* The new row is of its type and balanced.
LEMMA NewBatchBalanced == NewBatch \in Batches /\ Balanced(NewBatch)
  <1>1. 0 \in 0..Total /\ Total \in 0..Total
    BY TotalAssumption
  <1>2. NewBatch \in Batches
    BY <1>1 DEF NewBatch, Batches, BatchStatuses
  <1>3. Balanced(NewBatch)
    BY TotalAssumption DEF NewBatch, Balanced
  <1>4. QED
    BY <1>2, <1>3

\* Calling off what is pending, with the status that goes with it.
LEMMA CallOffBalanced ==
    ASSUME NEW b \in Batches, Balanced(b), b.status # "cancelled"
    PROVE  /\ CancelledCopy(b) \in Batches
           /\ Balanced(CancelledCopy(b))
           /\ CancelledCopy(b).sent = b.sent
  <1>1. 0 \in 0..Total
    BY TotalAssumption
  <1>2. CancelledCopy(b) \in Batches
    BY <1>1 DEF CancelledCopy, CallOff, Batches, BatchStatuses
  <1>3. /\ CancelledCopy(b).pending = 0 /\ CancelledCopy(b).cancelled = b.pending
        /\ CancelledCopy(b).sent = b.sent /\ CancelledCopy(b).failed = b.failed
        /\ CancelledCopy(b).status = "cancelled"
    BY DEF CancelledCopy, CallOff, Batches
  <1>4. b.cancelled = 0 /\ b.pending \in Nat /\ b.sent \in Nat /\ b.failed \in Nat
    BY DEF Balanced, Batches
  <1>5. Balanced(CancelledCopy(b))
    BY <1>3, <1>4, TotalAssumption DEF Balanced
  <1>6. QED
    BY <1>2, <1>3, <1>5

\* The final row: whatever is pending is called off, or the loop has reached the end
\* or stopped on an error.
LEMMA FinalCopyBalanced ==
    ASSUME NEW b \in Batches, Balanced(b), b.status # "cancelled", NEW stopped \in BOOLEAN,
           flag # "true" \/ stopped \/ b.pending = 0
    PROVE  /\ FinalCopy(b, stopped) \in Batches
           /\ Balanced(FinalCopy(b, stopped))
           /\ FinalCopy(b, stopped).sent = b.sent
  <1>1. CASE flag # "true"
    <2>1. FinalCopy(b, stopped) = CancelledCopy(b)
      BY <1>1 DEF FinalCopy, FinalStatus, CancelledCopy
    <2>2. QED
      BY <2>1, CallOffBalanced
  <1>2. CASE flag = "true"
    <2> DEFINE s == FinalStatus(FALSE, stopped, b)
    <2>1. FinalCopy(b, stopped) = [b EXCEPT !.status = s]
      BY <1>2 DEF FinalCopy
    <2>2. s \in {"failed", "completed"} /\ (s = "completed" => ~stopped)
      BY DEF FinalStatus
    <2>3. b.cancelled = 0
      BY DEF Balanced
    <2> HIDE DEF s
    <2>4. QED
      BY <1>2, <2>1, <2>2, <2>3 DEF Balanced, Batches, BatchStatuses
  <1>3. QED
    BY <1>1, <1>2

\* One message more is sent or has failed.
LEMMA CountedBalanced ==
    ASSUME NEW b \in Batches, Balanced(b), b.status \in {"pending", "processing"},
           b.pending = Total - b.index, b.index < Total
    PROVE  LET sent == [b EXCEPT !.sent = @ + 1, !.pending = @ - 1, !.index = @ + 1]
               failed == [b EXCEPT !.failed = @ + 1, !.pending = @ - 1, !.index = @ + 1]
               stopped == [b EXCEPT !.failed = @ + 1, !.pending = @ - 1]
           IN  /\ sent \in Batches /\ Balanced(sent) /\ sent.pending = Total - sent.index
               /\ failed \in Batches /\ Balanced(failed) /\ failed.pending = Total - failed.index
               /\ stopped \in Batches /\ Balanced(stopped)
  <1>1. /\ b.sent \in Nat /\ b.failed \in Nat /\ b.pending \in Nat /\ b.index \in Nat
        /\ b.cancelled = 0
        /\ b.sent + b.failed + b.pending = Total
        /\ b.pending >= 1
    BY TotalAssumption DEF Balanced, Batches
  <1>2. /\ b.sent + 1 \in 0..Total /\ b.failed + 1 \in 0..Total
        /\ b.pending - 1 \in 0..Total /\ b.index + 1 \in 0..Total
        /\ b.pending - 1 = Total - (b.index + 1)
        /\ (b.sent + 1) + b.failed + (b.pending - 1) + b.cancelled = Total
        /\ b.sent + (b.failed + 1) + (b.pending - 1) + b.cancelled = Total
    BY <1>1, TotalAssumption
  <1>3. QED
    BY <1>1, <1>2 DEF Balanced, Batches

-----------------------------------------------------------------------------
(* The invariant *)

\* The state createBatch leaves.
LEMMA InitIInv == Init => IInv
  <1> SUFFICES ASSUME Init PROVE IInv
    OBVIOUS
  <1>1. accepted \in 0..Total /\ crashes \in 0..MaxCrashes
    BY TotalAssumption, MaxCrashesAssumption DEF Init
  <1>2. cancel \in [Cancellers -> CancelStates] /\ \A c \in Cancellers : Balanced(cancel[c].copy)
    BY NewBatchBalanced DEF Init, CancelStates
  <1>3. TypeOK
    BY <1>1, <1>2, NewBatchBalanced DEF Init, TypeOK, ProcessStates
  <1>4. LoopCopy
    BY TotalAssumption DEF Init, LoopCopy, NewBatch
  <1>5. accepted = mine.sent
    BY DEF Init, NewBatch
  <1>6. QED
    BY <1>2, <1>3, <1>4, <1>5, NewBatchBalanced DEF Init, IInv

\* A step of processBatch.
LEMMA ProcessStepIInv ==
    ASSUME IInv, ProcessStep
    PROVE  IInv'
  <1> USE DEF IInv, TypeOK, ProcessStates
  <1>1. CASE ProcessStarts
    <2>1. mine' \in Batches /\ Balanced(mine') /\ mine'.status = "processing"
          /\ mine'.pending = mine.pending /\ mine'.index = mine.index /\ mine'.sent = mine.sent
      BY <1>1 DEF ProcessStarts, LoopCopy, LoopStates, Balanced, Batches, BatchStatuses
    <2>2. QED
      BY <1>1, <2>1 DEF ProcessStarts, LoopCopy, LoopStates
  <1>2. CASE ProcessMarks \/ ProgressSaved
    BY <1>2 DEF ProcessMarks, ProgressSaved, LoopCopy, LoopStates
  <1>3. CASE SendBegins
    BY <1>3 DEF SendBegins, LoopCopy, LoopStates
  <1>4. CASE SendSucceeds
    <2>1. /\ mine' \in Batches /\ Balanced(mine') /\ mine'.pending = Total - mine'.index
          /\ mine'.status = mine.status
      BY <1>4, CountedBalanced DEF SendSucceeds, LoopCopy, LoopStates, Batches
    <2>2. accepted' = mine'.sent
      BY <1>4 DEF SendSucceeds, Batches
    <2>3. accepted' \in 0..Total
      BY <2>1, <2>2 DEF Batches
    <2>4. QED
      BY <1>4, <2>1, <2>2, <2>3 DEF SendSucceeds, AfterMessage, LoopCopy, LoopStates
  <1>5. CASE SendFails
    <2>1. /\ mine' \in Batches /\ Balanced(mine') /\ mine'.pending = Total - mine'.index
          /\ mine'.status = mine.status /\ mine'.sent = mine.sent
      BY <1>5, CountedBalanced DEF SendFails, LoopCopy, LoopStates, Batches
    <2>2. QED
      BY <1>5, <2>1 DEF SendFails, AfterMessage, LoopCopy, LoopStates
  <1>6. CASE SendFailsAndStops
    <2> DEFINE b == [mine EXCEPT !.failed = @ + 1, !.pending = @ - 1]
    <2>1. b \in Batches /\ Balanced(b)
      BY <1>6, CountedBalanced DEF SendFailsAndStops, LoopCopy, LoopStates
    <2>2. b.status # "cancelled" /\ b.sent = mine.sent
      BY <1>6 DEF SendFailsAndStops, LoopCopy, LoopStates, Batches
    <2>3. mine' = FinalCopy(b, TRUE)
      BY <1>6 DEF SendFailsAndStops
    <2> HIDE DEF b
    <2>4. mine' \in Batches /\ Balanced(mine') /\ mine'.sent = mine.sent
      BY <2>1, <2>2, <2>3, FinalCopyBalanced
    <2>5. QED
      BY <1>6, <2>4 DEF SendFailsAndStops, LoopCopy, LoopStates
  <1>7. CASE LoopEnds
    <2>1. mine.status # "cancelled" /\ (flag # "true" \/ mine.pending = 0)
      BY <1>7, TotalAssumption DEF LoopEnds, LoopCopy, LoopStates, Batches
    <2>2. mine' \in Batches /\ Balanced(mine') /\ mine'.sent = mine.sent
      BY <1>7, <2>1, FinalCopyBalanced DEF LoopEnds
    <2>3. QED
      BY <1>7, <2>2 DEF LoopEnds, LoopCopy, LoopStates
  <1>8. CASE ProcessFinishes
    BY <1>8 DEF ProcessFinishes, LoopCopy, LoopStates
  <1>9. QED
    BY <1>1, <1>2, <1>3, <1>4, <1>5, <1>6, <1>7, <1>8 DEF ProcessStep

\* A step of cancelBatch: only copies that are not cancelled are called off.
LEMMA CancelStepIInv ==
    ASSUME IInv, NEW c \in Cancellers, CancelStep(c)
    PROVE  IInv'
  <1> USE DEF IInv, TypeOK
  <1>1. cancel[c].copy \in Batches /\ Balanced(cancel[c].copy)
    BY DEF CancelStates
  <1>2. CASE CancelFinds(c)
    BY <1>2 DEF CancelFinds, CancelStates, LoopCopy
  <1>3. CASE CancelRefused(c)
    BY <1>3 DEF CancelRefused, CancelStates, LoopCopy
  <1>4. CASE CancelSignals(c)
    <2> DEFINE copy == CancelledCopy(cancel[c].copy)
    <2>1. copy \in Batches /\ Balanced(copy)
      BY <1>1, <1>4, CallOffBalanced DEF CancelSignals
    <2>2. cancel' = [cancel EXCEPT ![c] = [at |-> "saving", copy |-> copy]]
          /\ flag' = "false" /\ UNCHANGED <<stopOnError, batch, at, mine, accepted, crashes>>
      BY <1>4 DEF CancelSignals
    <2> HIDE DEF copy
    <2>3. QED
      BY <2>1, <2>2 DEF CancelStates, LoopCopy
  <1>5. CASE CancelSaves(c)
    BY <1>1, <1>5 DEF CancelSaves, CancelStates, LoopCopy
  <1>6. QED
    BY <1>2, <1>3, <1>4, <1>5 DEF CancelStep

\* A crash, and the bootstrap that follows it.
LEMMA CrashIInv ==
    ASSUME IInv, Crash
    PROVE  IInv'
  <1> USE DEF IInv, TypeOK
  <1>1. batch' \in Batches /\ Balanced(batch')
    BY DEF Crash, Orphaned, Balanced, Batches, BatchStatuses
  <1>2. cancel' \in [Cancellers -> CancelStates] /\ \A c \in Cancellers : Balanced(cancel'[c].copy)
    <2>1. \A c \in Cancellers :
              \/ cancel'[c] = cancel[c]
              \/ cancel'[c] = [at |-> "idle", copy |-> NewBatch]
      BY DEF Crash
    <2>2. cancel' = [c \in Cancellers |-> cancel'[c]]
      BY DEF Crash
    <2>3. [at |-> "idle", copy |-> NewBatch] \in CancelStates
      BY NewBatchBalanced DEF CancelStates
    <2>4. QED
      BY <2>1, <2>2, <2>3, NewBatchBalanced
  <1>3. crashes' \in 0..MaxCrashes
    BY MaxCrashesAssumption DEF Crash
  <1>4. LoopCopy'
    BY DEF Crash, LoopCopy, LoopStates
  <1>5. QED
    BY <1>1, <1>2, <1>3, <1>4 DEF Crash, ProcessStates

\* Every step keeps the invariant.
LEMMA NextIInv == IInv /\ [Next]_vars => IInv'
  <1> SUFFICES ASSUME IInv, [Next]_vars PROVE IInv'
    OBVIOUS
  <1>1. CASE UNCHANGED vars
    BY <1>1 DEF vars, IInv, TypeOK, LoopCopy
  <1>2. QED
    BY <1>1, ProcessStepIInv, CancelStepIInv, CrashIInv DEF Next

\* The invariant of the module.
LEMMA AlwaysIInv == Spec => []IInv
  BY InitIInv, NextIInv, PTL DEF Spec

\* No counter of any copy leaves 0..total; in particular pending never goes negative.
THEOREM TypeCorrect == Spec => []TypeOK
  <1>1. IInv => TypeOK
    BY DEF IInv
  <1>2. QED
    BY AlwaysIInv, <1>1, PTL

\* For any number of cancellations racing processBatch and any crashes, the counters
\* of the saved row add up to its total.
THEOREM CountersAlwaysAddUp == Spec => []CountersAddUp
  <1>1. IInv => CountersAddUp
    BY DEF IInv, Balanced, CountersAddUp
  <1>2. QED
    BY AlwaysIInv, <1>1, PTL

\* A row that reads completed or cancelled has nothing pending, whichever of the
\* racing saves came last.
THEOREM SettledRowsHaveNoPending == Spec => []SettledHasNoPending
  <1>1. IInv => SettledHasNoPending
    BY DEF IInv, Balanced, SettledHasNoPending
  <1>2. QED
    BY AlwaysIInv, <1>1, PTL

-----------------------------------------------------------------------------
(* What the row knows of the sends *)

\* Counting on to a message that is not a multiple of k, the remainder grows by one.
LEMMA RemainderGrows ==
    ASSUME NEW k \in Nat \ {0}, NEW i \in Nat \ {0}, i % k # 0
    PROVE  /\ (i % k) = ((i - 1) % k) + 1
           /\ (i % k) \in 0..(k - 1) /\ ((i - 1) % k) \in 0..(k - 1)
  <1> DEFINE q == i \div k
             p == (i - 1) \div k
             r == i % k
             s == (i - 1) % k
  <1>1. i = k * q + r /\ q \in Int
    BY Z3
  <1>2. i - 1 = k * p + s /\ p \in Int
    BY Z3
  <1>3. r \in 0..(k - 1) /\ s \in 0..(k - 1) /\ r # 0
    OBVIOUS
  <1> HIDE DEF q, p, r, s
  <1>4. k * (q - p) = s + 1 - r
    BY <1>1, <1>2, <1>3
  <1>5. ~ (q - p >= 1)
    BY <1>1, <1>2, <1>3, <1>4
  <1>6. ~ (q - p <= -1)
    BY <1>1, <1>2, <1>3, <1>4
  <1>7. q = p
    BY <1>1, <1>2, <1>5, <1>6
  <1>8. r = s + 1
    BY <1>1, <1>2, <1>3, <1>7
  <1>9. QED
    BY <1>3, <1>8 DEF r, s

NobodyCancels == \A c \in Cancellers : cancel[c].at # "returned"

\* How many accepted messages the row may lack while nobody cancels: none before
\* the loop, in it as many as have followed the last message that was saved, and
\* never more than SaveEvery.
LagFits ==
    /\ mine.sent - batch.sent <= SaveEvery
    /\ at \in {"found", "starting"} => mine.index = 0 /\ mine.sent = 0
    /\ at \in {"loop", "sending"} =>
           IF mine.index = 0 THEN mine.sent = batch.sent
           ELSE mine.sent - batch.sent <= ((mine.index - 1) % SaveEvery)

\* No copy of the row claims a send that was not accepted.
RInv ==
    /\ batch.sent <= accepted
    /\ \A c \in Cancellers : cancel[c].copy.sent <= accepted
    /\ at \in {"found", "starting"} => accepted = 0
    /\ NobodyCancels => LagFits

LEMMA InitRInv == Init => RInv
  BY SaveEveryAssumption DEF Init, RInv, LagFits, NewBatch

LEMMA CopyNumbers ==
    ASSUME IInv
    PROVE  /\ mine.sent \in Nat /\ mine.index \in Nat /\ batch.sent \in Nat
           /\ accepted \in Nat /\ accepted = mine.sent
           /\ \A c \in Cancellers : cancel[c].copy.sent \in Nat
  BY TotalAssumption DEF IInv, TypeOK, Batches, CancelStates

\* A step that writes the row or a copy of it from processBatch's own.
LEMMA RowFromMine ==
    ASSUME IInv, RInv, batch' = mine, UNCHANGED <<mine, cancel, accepted>>, at' \in {"loop", "done"},
           at' = "loop" => at \in {"starting", "saving"}
    PROVE  RInv'
  <1>1. batch'.sent = accepted /\ mine'.sent - batch'.sent = 0
    BY CopyNumbers
  <1>2. mine'.index # 0 => 0 <= ((mine'.index - 1) % SaveEvery)
    BY CopyNumbers, SaveEveryAssumption
  <1>3. LagFits'
    BY <1>1, <1>2, CopyNumbers, SaveEveryAssumption DEF LagFits
  <1>4. QED
    BY <1>1, <1>3, CopyNumbers DEF RInv, NobodyCancels

LEMMA ProcessStepRInv ==
    ASSUME IInv, RInv, ProcessStep
    PROVE  RInv'
  <1>0. mine \in Batches
    BY DEF IInv, TypeOK
  <1>1. ASSUME UNCHANGED <<batch, cancel, accepted>>, mine'.sent = mine.sent,
               at' \notin {"found", "starting", "loop", "sending"}
        PROVE  RInv'
    BY <1>1 DEF RInv, LagFits, NobodyCancels
  <1>2. CASE ProcessStarts
    <2>1. mine'.sent = mine.sent /\ mine'.index = mine.index
      BY <1>0, <1>2 DEF ProcessStarts, Batches
    <2>2. QED
      BY <1>2, <2>1 DEF ProcessStarts, RInv, LagFits, NobodyCancels
  <1>3. CASE ProcessMarks \/ ProgressSaved \/ ProcessFinishes
    BY <1>3, RowFromMine DEF ProcessMarks, ProgressSaved, ProcessFinishes
  <1>4. CASE SendBegins
    BY <1>4 DEF SendBegins, RInv, LagFits, NobodyCancels
  <1>5. ASSUME at = "sending", UNCHANGED <<batch, cancel>>,
               mine'.index = mine.index + 1, mine'.sent \in {mine.sent, mine.sent + 1},
               accepted' = mine'.sent, AfterMessage(mine.index)
        PROVE  RInv'
    <2>1. accepted <= accepted'
      BY <1>5, CopyNumbers
    <2>2. /\ batch'.sent <= accepted'
          /\ \A c \in Cancellers : cancel'[c].copy.sent <= accepted'
      BY <1>5, <2>1, CopyNumbers DEF RInv
    <2>3. at' \in {"saving", "loop"} /\ (at' = "loop" => mine.index % SaveEvery # 0)
      BY <1>5 DEF AfterMessage, SavesAfter
    <2>4. ASSUME NobodyCancels
          PROVE  LagFits'
      <3>1. LagFits
        BY <2>4 DEF RInv
      <3>2. mine.sent - batch.sent <= SaveEvery - 1
        <4>1. CASE mine.index = 0
          BY <1>5, <3>1, <4>1, CopyNumbers, SaveEveryAssumption DEF LagFits
        <4>2. CASE mine.index # 0
          <5>1. ((mine.index - 1) % SaveEvery) <= SaveEvery - 1
            BY <4>2, CopyNumbers, SaveEveryAssumption
          <5>2. mine.sent - batch.sent <= ((mine.index - 1) % SaveEvery)
            BY <1>5, <3>1, <4>2 DEF LagFits
          <5>3. ((mine.index - 1) % SaveEvery) \in Int
            BY <4>2, CopyNumbers, SaveEveryAssumption
          <5>4. QED
            BY <5>1, <5>2, <5>3, CopyNumbers, SaveEveryAssumption
        <4>3. QED
          BY <4>1, <4>2
      <3>3. mine'.sent - batch'.sent <= SaveEvery
        BY <1>5, <3>2, CopyNumbers, SaveEveryAssumption
      <3>4. ASSUME at' = "loop"
            PROVE  mine'.sent - batch'.sent <= ((mine'.index - 1) % SaveEvery)
        <4>1. mine.index % SaveEvery # 0 /\ mine.index # 0
          BY <2>3, <3>4, SaveEveryAssumption
        <4>2. /\ (mine.index % SaveEvery) = ((mine.index - 1) % SaveEvery) + 1
              /\ ((mine.index - 1) % SaveEvery) \in Int
          BY <4>1, RemainderGrows, CopyNumbers, SaveEveryAssumption
        <4>3. mine.sent - batch.sent <= ((mine.index - 1) % SaveEvery)
          BY <1>5, <3>1, <4>1 DEF LagFits
        <4>4. mine'.index - 1 = mine.index
          BY <1>5, CopyNumbers
        <4>5. mine'.sent - batch'.sent <= (mine.index % SaveEvery)
          BY <1>5, <4>2, <4>3, CopyNumbers
        <4>6. QED
          BY <4>4, <4>5
      <3>5. mine'.index # 0
        BY <1>5, CopyNumbers
      <3>6. QED
        BY <2>3, <3>3, <3>4, <3>5 DEF LagFits
    <2>5. QED
      BY <1>5, <2>2, <2>3, <2>4 DEF RInv, NobodyCancels
  <1>6. CASE SendSucceeds
    <2>1. mine'.index = mine.index + 1 /\ mine'.sent = mine.sent + 1
      BY <1>0, <1>6 DEF SendSucceeds, Batches
    <2>2. QED
      BY <1>5, <1>6, <2>1, CopyNumbers DEF SendSucceeds
  <1>7. CASE SendFails
    <2>1. mine'.index = mine.index + 1 /\ mine'.sent = mine.sent
      BY <1>0, <1>7 DEF SendFails, Batches
    <2>2. QED
      BY <1>5, <1>7, <2>1, CopyNumbers DEF SendFails
  <1>8. CASE SendFailsAndStops \/ LoopEnds
    <2>1. IInv'
      BY NextIInv DEF Next
    <2>2. mine'.sent = mine.sent
      BY <1>8, <2>1, CopyNumbers DEF SendFailsAndStops, LoopEnds, IInv
    <2>3. QED
      BY <1>1, <1>8, <2>2 DEF SendFailsAndStops, LoopEnds
  <1>9. QED
    BY <1>2, <1>3, <1>4, <1>6, <1>7, <1>8 DEF ProcessStep

LEMMA CancelStepRInv ==
    ASSUME IInv, RInv, NEW c \in Cancellers, CancelStep(c)
    PROVE  RInv'
  <1>0. cancel \in [Cancellers -> CancelStates] /\ cancel[c].copy \in Batches
        /\ Balanced(cancel[c].copy)
    BY DEF IInv, TypeOK, CancelStates
  <1>1. ASSUME NEW r \in CancelStates, cancel' = [cancel EXCEPT ![c] = r], r.copy.sent <= accepted,
               r.at # "returned", cancel[c].at # "returned", UNCHANGED <<batch, at, mine, accepted>>
        PROVE  RInv'
    BY <1>0, <1>1 DEF RInv, LagFits, NobodyCancels
  <1>2. CASE CancelFinds(c)
    <2>1. [at |-> "found", copy |-> batch] \in CancelStates
      BY DEF IInv, TypeOK, CancelStates
    <2>2. QED
      BY <1>1, <1>2, <2>1 DEF CancelFinds, RInv
  <1>3. CASE CancelRefused(c)
    <2> DEFINE r == [cancel[c] EXCEPT !.at = "refused"]
    <2>1. r \in CancelStates /\ r.copy = cancel[c].copy /\ r.at = "refused"
      BY <1>0 DEF CancelStates
    <2>2. cancel' = [cancel EXCEPT ![c] = r] /\ cancel[c].at = "found"
      BY <1>3 DEF CancelRefused
    <2> HIDE DEF r
    <2>3. QED
      BY <1>1, <1>3, <2>1, <2>2 DEF CancelRefused, RInv
  <1>4. CASE CancelSignals(c)
    <2> DEFINE r == [at |-> "saving", copy |-> CancelledCopy(cancel[c].copy)]
    <2>1. r \in CancelStates /\ r.copy.sent = cancel[c].copy.sent /\ r.at = "saving"
      BY <1>0, <1>4, CallOffBalanced DEF CancelSignals, CancelStates
    <2>2. cancel' = [cancel EXCEPT ![c] = r] /\ cancel[c].at = "found"
      BY <1>4 DEF CancelSignals
    <2> HIDE DEF r
    <2>3. QED
      BY <1>1, <1>4, <2>1, <2>2 DEF CancelSignals, RInv
  <1>5. CASE CancelSaves(c)
    <2>1. cancel'[c].at = "returned" /\ \A d \in Cancellers : cancel'[d].copy = cancel[d].copy
      BY <1>0, <1>5 DEF CancelSaves, CancelStates
    <2>2. batch'.sent <= accepted /\ UNCHANGED <<at, accepted>>
      BY <1>5 DEF CancelSaves, RInv
    <2>3. QED
      BY <2>1, <2>2 DEF RInv, NobodyCancels
  <1>6. QED
    BY <1>2, <1>3, <1>4, <1>5 DEF CancelStep

LEMMA CrashRInv ==
    ASSUME IInv, RInv, Crash
    PROVE  RInv'
  <1>1. batch'.sent = batch.sent /\ UNCHANGED <<mine, accepted>> /\ at' \in {"done", "gone"}
    BY DEF Crash, Orphaned, IInv, TypeOK, Batches
  <1>2. \A c \in Cancellers : cancel'[c] = cancel[c] \/ cancel'[c] = [at |-> "idle", copy |-> NewBatch]
    BY DEF Crash
  <1>3. \A c \in Cancellers : cancel[c].at = "returned" => cancel'[c] = cancel[c]
    BY DEF Crash
  <1>4. \A c \in Cancellers : cancel'[c].copy.sent <= accepted'
    BY <1>1, <1>2, CopyNumbers DEF RInv, NewBatch
  <1>5. NobodyCancels' => NobodyCancels
    BY <1>3 DEF NobodyCancels
  <1>6. QED
    BY <1>1, <1>4, <1>5 DEF RInv, LagFits

LEMMA NextRInv == IInv /\ RInv /\ [Next]_vars => RInv'
  <1> SUFFICES ASSUME IInv, RInv, [Next]_vars PROVE RInv'
    OBVIOUS
  <1>1. CASE UNCHANGED vars
    BY <1>1 DEF vars, RInv, LagFits, NobodyCancels
  <1>2. QED
    BY <1>1, ProcessStepRInv, CancelStepRInv, CrashRInv DEF Next

\* For any number of messages and any save interval the row never claims a send the
\* engine has not accepted, and lacks at most SaveEvery of them until a cancellation
\* has saved, at every point where the process can crash.
THEOREM SendsAreRecorded == Spec => []RecordsSends
  <1>1. IInv /\ RInv => RecordsSends
    BY CopyNumbers DEF RInv, LagFits, NobodyCancels, RecordsSends
  <1>2. QED
    BY AlwaysIInv, InitRInv, NextRInv, <1>1, PTL DEF Spec
=============================================================================
