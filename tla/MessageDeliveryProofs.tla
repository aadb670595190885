----------------------- MODULE MessageDeliveryProofs ------------------------
(***************************************************************************)
(* Safety of one outgoing row for any number of replicas, sends, attempts  *)
(* and crashes: the type invariant; a scheduled row can be retried; and,   *)
(* when sends are shorter than the waits, one send of the row at a time.   *)
(***************************************************************************)
EXTENDS MessageDelivery, TLAPS

\* What every copy of the row satisfies, wherever it is held: a date comes with a
\* payload and attempts left, and a pending row has used none.
Sound(r) ==
    /\ r.due # "never" => r.payload /\ r.count < MaxAttempts
    /\ r.status = "pending" => r.count = 0 /\ r.due = "never"

\* A scan is busy only with a copy it may send.
WorkerSound(w) ==
    w.at # "idle" => w.copy.payload /\ w.copy.count < MaxAttempts /\ Sound(w.copy)

CopiesSound ==
    /\ Sound(row)
    /\ \A r \in Replicas : WorkerSound(worker[r])
    /\ \A i \in Sends : Sound(echo[i].copy)

IInv == TypeOK /\ CopiesSound

-----------------------------------------------------------------------------
(* The records the actions build *)

\* The constant records and the WhatsApp ids are of their types.
LEMMA ConstantTypes ==
    /\ NoRow \in Rows /\ NewRow \in Rows
    /\ IdleWorker \in WorkerStates
    /\ \A i \in Sends : WaId(i) \in Sends
    /\ Sends \subseteq 0..MaxSends /\ 0 \in 0..MaxSends
  <1>1. 0 \in 0..MaxAttempts /\ 0 \in 0..MaxSends /\ 1 \in Sends /\ Sends \subseteq 0..MaxSends
    BY BoundsAssumption DEF Sends
  <1>2. NoRow \in Rows /\ NewRow \in Rows
    BY <1>1, FlagsAssumption DEF NoRow, NewRow, Rows, Statuses, Dues
  <1>3. IdleWorker \in WorkerStates
    BY <1>1, <1>2 DEF IdleWorker, WorkerStates
  <1>4. \A i \in Sends : WaId(i) \in Sends
    BY <1>1 DEF WaId
  <1>5. QED
    BY <1>1, <1>2, <1>3, <1>4

\* Changing the status or the date of a row, or marking it sent, keeps its type.
LEMMA RowTypes ==
    ASSUME NEW r \in Rows, NEW s \in Statuses, NEW d \in Dues
    PROVE  /\ [r EXCEPT !.due = d] \in Rows
           /\ [r EXCEPT !.status = s] \in Rows
           /\ [r EXCEPT !.status = s, !.due = d] \in Rows
           /\ \A i \in Sends : Sent(r, i) \in Rows
           /\ \A i \in Sends : [r EXCEPT !.wa = WaId(i), !.status = "sent"] \in Rows
  <1>1. \A i \in Sends : WaId(i) \in 0..MaxSends
    BY ConstantTypes
  <1>2. QED
    BY <1>1 DEF Rows, Sent, Statuses, Dues

\* The record of one more failed attempt.
LEMMA FailedRowType ==
    ASSUME NEW r \in Rows, r.count < MaxAttempts, NEW d \in Dues
    PROVE  [r EXCEPT !.status = "failed", !.count = r.count + 1, !.due = d] \in Rows
  <1>1. r.count + 1 \in 0..MaxAttempts
    BY BoundsAssumption DEF Rows
  <1>2. QED
    BY <1>1 DEF Rows, Statuses, Dues

\* The initial state is sound.
LEMMA InitIInv == Init => IInv
  <1> SUFFICES ASSUME Init PROVE IInv
    OBVIOUS
  <1>1. TypeOK
    <2>1. row \in Rows /\ worker \in [Replicas -> WorkerStates]
      BY ConstantTypes DEF Init
    <2>2. sender \in SenderStates
      BY ConstantTypes DEF Init, SenderStates
    <2>3. echo \in [Sends -> EchoStates]
      BY ConstantTypes DEF Init, EchoStates
    <2>4. crashes \in 0..MaxCrashes
      BY BoundsAssumption DEF Init
    <2>5. QED
      BY <2>1, <2>2, <2>3, <2>4 DEF Init, TypeOK
  <1>2. CopiesSound
    BY DEF Init, CopiesSound, Sound, WorkerSound, IdleWorker, NoRow
  <1>3. QED
    BY <1>1, <1>2 DEF IInv

-----------------------------------------------------------------------------
(* One lemma per actor *)

\* The API call only ever saves the row it inserted, marked sent or failed.
LEMMA SenderStepIInv ==
    ASSUME IInv, SenderStep
    PROVE  IInv'
  <1> USE ConstantTypes DEF IInv
  <1>1. CASE SenderBegins
    <2>1. TypeOK'
      BY <1>1 DEF SenderBegins, TypeOK, SenderStates
    <2>2. CopiesSound'
      BY <1>1 DEF SenderBegins, CopiesSound, Sound, NewRow
    <2>3. QED
      BY <2>1, <2>2
  <1>2. CASE \E i \in Sends : SenderAccepted(i)
    <2>1. TypeOK'
      BY <1>2 DEF SenderAccepted, Accept, TypeOK, SenderStates, EchoStates
    <2>2. CopiesSound'
      BY <1>2 DEF SenderAccepted, Accept, CopiesSound, TypeOK, EchoStates
    <2>3. QED
      BY <2>1, <2>2
  <1>3. CASE SenderRefused
    BY <1>3 DEF SenderRefused, TypeOK, SenderStates, CopiesSound
  <1>4. CASE SenderMarksSent
    <2>1. sender.send \in 0..MaxSends
      BY DEF TypeOK, SenderStates
    <2>2. WaId(sender.send) \in 0..MaxSends
      BY <2>1, BoundsAssumption DEF WaId
    <2>3. Sent(NewRow, sender.send) \in Rows /\ Sound(Sent(NewRow, sender.send))
      BY <2>2 DEF Sent, Rows, Statuses, Dues, Sound
    <2>4. row' \in Rows /\ Sound(row')
      BY <1>4, <2>3 DEF SenderMarksSent, TypeOK, CopiesSound
    <2>5. QED
      BY <1>4, <2>4 DEF SenderMarksSent, TypeOK, SenderStates, CopiesSound
  <1>5. CASE SenderMarksFailed
    <2>1. PICK due \in (IF Retryable THEN {"later", "never"} ELSE {"never"}) :
              row' = [NewRow EXCEPT !.status = "failed", !.due = due]
      BY <1>5 DEF SenderMarksFailed
    <2>2. row' \in Rows
      BY <2>1, RowTypes DEF Statuses, Dues
    <2>3. Sound(row')
      BY <2>1, BoundsAssumption DEF Sound, NewRow
    <2>4. QED
      BY <1>5, <2>2, <2>3 DEF SenderMarksFailed, TypeOK, SenderStates, CopiesSound
  <1>6. QED
    BY <1>1, <1>2, <1>3, <1>4, <1>5 DEF SenderStep

\* A step of a scan writes a sound row and keeps a sound copy.
LEMMA WorkerWrites ==
    ASSUME IInv, NEW r \in Replicas, WorkerStep(r)
    PROVE  /\ row' \in Rows /\ Sound(row')
           /\ \E w \in WorkerStates : worker' = [worker EXCEPT ![r] = w] /\ WorkerSound(w)
  <1> USE ConstantTypes DEF IInv
  <1>w. worker[r] \in WorkerStates /\ WorkerSound(worker[r]) /\ row \in Rows /\ Sound(row)
    BY DEF TypeOK, CopiesSound
  <1>c. worker[r].copy \in Rows
    BY <1>w DEF WorkerStates
  <1>i. WorkerSound(IdleWorker)
    BY DEF WorkerSound, IdleWorker
  <1>1. CASE Scan(r)
    <2> DEFINE w == [at |-> "scanned", copy |-> row, late |-> FALSE, send |-> 0]
    <2>1. w \in WorkerStates
      BY <1>w DEF WorkerStates
    <2>2. WorkerSound(w)
      BY <1>1, <1>w, BoundsAssumption DEF Scan, Abandoned, WorkerSound, Sound
    <2>3. QED
      BY <1>1, <1>w, <2>1, <2>2 DEF Scan
  <1>2. CASE Recover(r)
    <2> DEFINE saved == [worker[r].copy EXCEPT !.status = "failed", !.due = "now"]
               w == [worker[r] EXCEPT !.at = "recovered", !.copy = saved, !.late = FALSE]
    <2>1. saved \in Rows
      BY <1>c, RowTypes DEF Statuses, Dues
    <2>2. Sound(saved) /\ saved.payload /\ saved.count < MaxAttempts
      BY <1>2, <1>c, <1>w DEF Recover, WorkerSound, Sound, Rows
    <2>3. w \in WorkerStates
      BY <1>w, <2>1 DEF WorkerStates
    <2>4. WorkerSound(w)
      BY <1>w, <2>2 DEF WorkerSound, WorkerStates
    <2>5. worker' = [worker EXCEPT ![r] = w]
      BY <1>2 DEF Recover, TypeOK
    <2>6. QED
      BY <1>2, <2>1, <2>2, <2>3, <2>4, <2>5 DEF Recover
  <1>3. CASE NotReady(r)
    <2>1. row' \in Rows
      BY <1>3, <1>c, RowTypes DEF NotReady, Dues, Statuses
    <2>2. Sound(row')
      BY <1>3, <1>c, <1>w DEF NotReady, AtEngineCheck, WorkerSound, Sound, Rows
    <2>3. QED
      BY <1>3, <1>i, <2>1, <2>2 DEF NotReady
  <1>4. CASE Claim(r)
    <2> DEFINE w == [worker[r] EXCEPT !.at = "sending"]
    <2>1. CASE row.status = "failed" /\ row.due = "now" /\ ~worker[r].late
      <3>1. row' \in Rows
        BY <1>4, <1>w, <2>1, RowTypes DEF Claim, Dues, Statuses
      <3>2. Sound(row')
        BY <1>4, <1>w, <2>1 DEF Claim, Sound, Rows
      <3>3. w \in WorkerStates /\ WorkerSound(w)
        BY <1>4, <1>w DEF Claim, AtEngineCheck, WorkerSound, WorkerStates
      <3>4. worker' = [worker EXCEPT ![r] = w]
        BY <1>4, <2>1 DEF Claim, TypeOK
      <3>5. QED
        BY <3>1, <3>2, <3>3, <3>4
    <2>2. CASE ~(row.status = "failed" /\ row.due = "now" /\ ~worker[r].late)
      BY <1>4, <1>w, <1>i, <2>2 DEF Claim
    <2>3. QED
      BY <2>1, <2>2
  <1>5. CASE \E i \in Sends : WorkerAccepted(r, i)
    <2>1. PICK i \in Sends, at \in {"returned", "threw"} :
              worker' = [worker EXCEPT ![r].at = at, ![r].send = i]
      BY <1>5 DEF WorkerAccepted
    <2> DEFINE w == [worker[r] EXCEPT !.at = at, !.send = i]
    <2>2. w \in WorkerStates /\ WorkerSound(w)
      BY <1>5, <1>w DEF WorkerAccepted, WorkerSound, WorkerStates
    <2>3. worker' = [worker EXCEPT ![r] = w]
      BY <2>1 DEF TypeOK
    <2>4. QED
      BY <1>5, <1>w, <2>2, <2>3 DEF WorkerAccepted
  <1>6. CASE WorkerRefused(r)
    <2> DEFINE w == [worker[r] EXCEPT !.at = "threw"]
    <2>1. w \in WorkerStates /\ WorkerSound(w)
      BY <1>6, <1>w DEF WorkerRefused, WorkerSound, WorkerStates
    <2>2. worker' = [worker EXCEPT ![r] = w]
      BY <1>6 DEF WorkerRefused, TypeOK
    <2>3. QED
      BY <1>6, <1>w, <2>1, <2>2 DEF WorkerRefused
  <1>7. CASE WorkerMarksSent(r)
    <2>1. WaId(worker[r].send) \in 0..MaxSends
      BY <1>w, BoundsAssumption DEF WaId, WorkerStates
    <2>2. Sent(worker[r].copy, worker[r].send) \in Rows
      BY <1>c, <2>1 DEF Sent, Rows, Statuses, Dues
    <2>3. Sound(Sent(worker[r].copy, worker[r].send))
      BY <1>c DEF Sent, Sound, Rows
    <2>4. QED
      BY <1>7, <1>w, <1>i, <2>2, <2>3 DEF WorkerMarksSent
  <1>8. CASE WorkerMarksFailed(r)
    <2> DEFINE copy == worker[r].copy
    <2>1. copy.payload /\ copy.count < MaxAttempts
      BY <1>8, <1>w DEF WorkerMarksFailed, WorkerSound
    <2>2. PICK due \in (IF GivesUp(copy.count + 1) THEN {"never"} ELSE {"later", "never"}) :
              row' = [copy EXCEPT !.status = "failed", !.count = copy.count + 1, !.due = due]
      BY <1>8 DEF WorkerMarksFailed
    <2>3. row' \in Rows
      BY <1>c, <2>1, <2>2, FailedRowType DEF Dues
    <2>4. row'.due # "never" => copy.count + 1 < MaxAttempts
      BY <1>c, <2>2, BoundsAssumption DEF GivesUp, Rows
    <2>5. row'.payload /\ row'.count = copy.count + 1 /\ row'.status = "failed"
      BY <1>c, <2>1, <2>2 DEF Rows
    <2>6. Sound(row')
      BY <2>4, <2>5 DEF Sound
    <2>7. QED
      BY <1>8, <1>i, <2>3, <2>6 DEF WorkerMarksFailed
  <1>9. QED
    BY <1>1, <1>2, <1>3, <1>4, <1>5, <1>6, <1>7, <1>8 DEF WorkerStep, WorkerSends

\* Besides row and worker a step of a scan at most starts an echo.
LEMMA WorkerStepIInv ==
    ASSUME IInv, NEW r \in Replicas, WorkerStep(r)
    PROVE  IInv'
  <1>1. row' \in Rows /\ Sound(row')
    BY WorkerWrites
  <1>2. PICK w \in WorkerStates : worker' = [worker EXCEPT ![r] = w] /\ WorkerSound(w)
    BY WorkerWrites
  <1>3. /\ UNCHANGED <<aged, twins, sender, crashes>>
        /\ UNCHANGED echo \/ \E i \in Sends : Accept(i)
    BY DEF WorkerStep, WorkerSends, Scan, Recover, NotReady, Claim, WorkerAccepted, WorkerRefused,
           WorkerMarksSent, WorkerMarksFailed
  <1>4. echo' \in [Sends -> EchoStates] /\ \A i \in Sends : Sound(echo'[i].copy)
    BY <1>3 DEF IInv, TypeOK, CopiesSound, Accept, EchoStates
  <1>5. worker' \in [Replicas -> WorkerStates] /\ \A x \in Replicas : WorkerSound(worker'[x])
    BY <1>2 DEF IInv, TypeOK, CopiesSound
  <1>6. QED
    BY <1>1, <1>3, <1>4, <1>5 DEF IInv, TypeOK, CopiesSound

\* Echoes and acks save sound rows: an echo its copy, an ack the row itself.
LEMMA EchoStepIInv ==
    ASSUME IInv, NEW i \in Sends, EchoStep(i)
    PROVE  IInv'
  <1> USE ConstantTypes DEF IInv
  <1>1. row \in Rows /\ Sound(row) /\ echo[i].copy \in Rows /\ Sound(echo[i].copy) /\ Sound(NoRow)
    BY DEF TypeOK, CopiesSound, EchoStates, Sound, NoRow
  <1>2. CASE EchoLooksUpId(i) \/ EchoLooksUpUnsent(i) \/ EchoDropped(i)
    <2>1. \E at \in {"matched", "done", "unmatched", "new"}, copy \in {row, NoRow} :
              echo' = [echo EXCEPT ![i] = [at |-> at, copy |-> copy]]
      BY <1>2 DEF EchoLooksUpId, EchoLooksUpUnsent, EchoDropped, EchoTo
    <2>2. echo' \in [Sends -> EchoStates]
      BY <1>1, <2>1 DEF TypeOK, EchoStates
    <2>3. \A x \in Sends : Sound(echo'[x].copy)
      BY <1>1, <2>1 DEF TypeOK, CopiesSound
    <2>4. UNCHANGED <<row, aged, twins, sender, worker, crashes>>
      BY <1>2 DEF EchoLooksUpId, EchoLooksUpUnsent, EchoDropped
    <2>5. QED
      BY <2>2, <2>3, <2>4 DEF TypeOK, CopiesSound
  <1>3. CASE EchoSaves(i)
    <2> DEFINE saved == [echo[i].copy EXCEPT !.wa = WaId(i), !.status = "sent"]
    <2>1. saved \in Rows
      BY <1>1, RowTypes DEF Statuses, Dues
    <2>2. Sound(saved)
      BY <1>1 DEF Sound, Rows
    <2>3. row' \in Rows /\ Sound(row')
      BY <1>1, <1>3, <2>1, <2>2 DEF EchoSaves
    <2>4. echo' = [echo EXCEPT ![i] = [at |-> "done", copy |-> NoRow]]
      BY <1>3 DEF EchoSaves, EchoTo
    <2>5. echo' \in [Sends -> EchoStates] /\ \A x \in Sends : Sound(echo'[x].copy)
      BY <1>1, <2>4 DEF TypeOK, CopiesSound, EchoStates
    <2>6. QED
      BY <1>3, <2>3, <2>5 DEF EchoSaves, TypeOK, CopiesSound
  <1>4. CASE EchoInserts(i)
    <2>1. echo' = [echo EXCEPT ![i] = [at |-> "done", copy |-> NoRow]]
      BY <1>4 DEF EchoInserts, EchoTo
    <2>2. echo' \in [Sends -> EchoStates] /\ \A x \in Sends : Sound(echo'[x].copy)
      BY <1>1, <2>1 DEF TypeOK, CopiesSound, EchoStates
    <2>3. twins' \subseteq Sends
      BY <1>4 DEF EchoInserts, TypeOK
    <2>4. QED
      BY <1>4, <2>2, <2>3 DEF EchoInserts, TypeOK, CopiesSound
  <1>5. QED
    BY <1>2, <1>3, <1>4 DEF EchoStep

\* An ack changes the status alone, and never to pending.
LEMMA AckIInv ==
    ASSUME IInv, NEW i \in Sends, NEW target \in {"delivered", "read", "failed"}, Ack(i, target)
    PROVE  IInv'
  <1>1. row \in Rows /\ Sound(row)
    BY DEF IInv, TypeOK, CopiesSound
  <1>2. row' \in Rows
    BY <1>1, RowTypes DEF Ack, Statuses, Dues
  <1>3. Sound(row')
    BY <1>1 DEF Ack, Sound, Rows
  <1>4. QED
    BY <1>2, <1>3 DEF Ack, IInv, TypeOK, CopiesSound

\* The passing of time, and a crash.
LEMMA OtherStepIInv ==
    ASSUME IInv, Tick \/ Age \/ \E r \in Replicas : Crash(r)
    PROVE  IInv'
  <1> USE ConstantTypes DEF IInv
  <1>1. CASE Tick
    <2>1. row' \in Rows
      BY <1>1, RowTypes DEF Tick, TypeOK, Statuses, Dues
    <2>2. Sound(row')
      BY <1>1 DEF Tick, TypeOK, CopiesSound, Sound, Rows
    <2>3. worker' \in [Replicas -> WorkerStates]
      BY <1>1 DEF Tick, TypeOK, WorkerStates
    <2>4. \A r \in Replicas : WorkerSound(worker'[r])
      <3> TAKE r \in Replicas
      <3>1. worker'[r].at = worker[r].at /\ worker'[r].copy = worker[r].copy
        BY <1>1 DEF Tick, TypeOK, WorkerStates
      <3>2. QED
        BY <3>1 DEF CopiesSound, WorkerSound
    <2>5. QED
      BY <1>1, <2>1, <2>2, <2>3, <2>4 DEF Tick, TypeOK, CopiesSound
  <1>2. CASE Age
    BY <1>2 DEF Age, TypeOK, CopiesSound
  <1>3. CASE \E r \in Replicas : Crash(r)
    <2> PICK r \in Replicas : Crash(r)
      BY <1>3
    <2>1. worker' \in [Replicas -> WorkerStates] /\ \A x \in Replicas : WorkerSound(worker'[x])
      BY DEF Crash, TypeOK, CopiesSound, WorkerSound, IdleWorker
    <2>2. echo' \in [Sends -> EchoStates] /\ \A x \in Sends : Sound(echo'[x].copy)
      <3> DEFINE lost == [at |-> "done", copy |-> NoRow]
      <3>1. lost \in EchoStates /\ Sound(lost.copy)
        BY DEF EchoStates, Sound, NoRow
      <3>2. UNCHANGED echo \/ echo' = [i \in Sends |->
                                          IF echo[i].at \in {"none", "coming"} THEN echo[i] ELSE lost]
        BY DEF Crash
      <3> HIDE DEF lost
      <3>3. QED
        BY <3>1, <3>2 DEF TypeOK, CopiesSound
    <2>3. sender' \in SenderStates
      BY DEF Crash, TypeOK, SenderStates
    <2>4. crashes' \in 0..MaxCrashes
      BY BoundsAssumption DEF Crash, TypeOK
    <2>5. QED
      BY <2>1, <2>2, <2>3, <2>4 DEF Crash, TypeOK, CopiesSound
  <1>4. QED
    BY <1>1, <1>2, <1>3

\* Every step keeps the invariant.
LEMMA NextIInv == IInv /\ [Next]_vars => IInv'
  <1> SUFFICES ASSUME IInv, [Next]_vars PROVE IInv'
    OBVIOUS
  <1>1. CASE UNCHANGED vars
    BY <1>1 DEF vars, IInv, TypeOK, CopiesSound
  <1>2. CASE Next
    BY <1>2, SenderStepIInv, WorkerStepIInv, EchoStepIInv, AckIInv, OtherStepIInv DEF Next
  <1>3. QED
    BY <1>1, <1>2

\* The invariant of the module.
LEMMA AlwaysIInv == Spec => []IInv
  BY InitIInv, NextIInv, PTL DEF Spec

\* All variables keep their types; in particular no interleaving of stale saves
\* drives retryCount past MESSAGE_RETRY_MAX_ATTEMPTS.
THEOREM TypeCorrect == Spec => []TypeOK
  <1>1. IInv => TypeOK
    BY DEF IInv
  <1>2. QED
    BY AlwaysIInv, <1>1, PTL

\* However the stale copies of the sender, the scans and the echoes overwrite each
\* other, a failed row with a retry date has its payload and attempts left.
THEOREM ScheduledRowsCanRetry == Spec => []ScheduledCanRetry
  <1>1. IInv => ScheduledCanRetry
    BY DEF IInv, CopiesSound, Sound, ScheduledCanRetry
  <1>2. QED
    BY AlwaysIInv, <1>1, PTL

-----------------------------------------------------------------------------
(* The API call and the scans *)

\* While the API call has not finished there is nothing a scan would pick up, not
\* even in a copy that is still to be saved.
Apart ==
    /\ sender.at # "done" =>
           /\ ~aged /\ row.due = "never"
           /\ \A r \in Replicas : worker[r].at = "idle"
           /\ \A i \in Sends : echo[i].copy.due = "never"
    /\ sender.at = "idle" => row.status = "none" /\ \A i \in Sends : echo[i].at = "none"

\* The call starts with nothing to pick up.
LEMMA InitApart == Init => Apart
  BY DEF Init, Apart, NoRow, IdleWorker

\* The call writes no retry date before it is done.
LEMMA SenderStepApart ==
    ASSUME IInv, Apart, SenderStep
    PROVE  Apart'
  <1> USE DEF Apart, IInv, TypeOK
  <1>1. CASE SenderBegins
    BY <1>1 DEF SenderBegins, NewRow
  <1>2. CASE \E i \in Sends : SenderAccepted(i)
    BY <1>2 DEF SenderAccepted, Accept, EchoStates
  <1>3. CASE SenderRefused
    BY <1>3 DEF SenderRefused
  <1>4. CASE SenderMarksSent \/ SenderMarksFailed
    BY <1>4 DEF SenderMarksSent, SenderMarksFailed, SenderStates
  <1>5. QED
    BY <1>1, <1>2, <1>3, <1>4 DEF SenderStep

\* A scan moves only once the call is done: it finds neither a due row nor an aged one.
LEMMA WorkerStepApart ==
    ASSUME IInv, Apart, NEW r \in Replicas, WorkerStep(r)
    PROVE  Apart'
  <1>1. sender.at = "done"
    BY DEF Apart, WorkerStep, WorkerSends, Scan, Abandoned, Recover, NotReady, AtEngineCheck, Claim,
           WorkerAccepted, WorkerRefused, WorkerMarksSent, WorkerMarksFailed
  <1>2. sender' = sender
    BY DEF WorkerStep, WorkerSends, Scan, Recover, NotReady, Claim, WorkerAccepted, WorkerRefused,
           WorkerMarksSent, WorkerMarksFailed
  <1>3. QED
    BY <1>1, <1>2 DEF Apart

\* Echoes copy and save rows without a date while the call is under way.
LEMMA EchoStepApart ==
    ASSUME IInv, Apart, NEW i \in Sends, EchoStep(i)
    PROVE  Apart'
  <1> USE DEF Apart, IInv, TypeOK
  <1>1. sender.at # "idle"
    BY DEF EchoStep, EchoLooksUpId, EchoLooksUpUnsent, EchoSaves, EchoInserts, EchoDropped
  <1>2. CASE EchoLooksUpId(i) \/ EchoLooksUpUnsent(i) \/ EchoDropped(i) \/ EchoInserts(i)
    <2>1. /\ UNCHANGED <<row, aged, sender, worker>>
          /\ \E at \in {"matched", "done", "unmatched", "new"}, copy \in {row, NoRow} :
                 echo' = [echo EXCEPT ![i] = [at |-> at, copy |-> copy]]
      BY <1>2 DEF EchoLooksUpId, EchoLooksUpUnsent, EchoDropped, EchoInserts, EchoTo
    <2>2. QED
      BY <1>1, <2>1 DEF NoRow
  <1>3. CASE EchoSaves(i)
    <2>1. sender.at # "done" => row'.due = "never"
      BY <1>3 DEF EchoSaves, EchoStates, Rows
    <2>2. echo' = [echo EXCEPT ![i] = [at |-> "done", copy |-> NoRow]]
      BY <1>3 DEF EchoSaves, EchoTo
    <2>3. UNCHANGED <<aged, sender, worker>>
      BY <1>3 DEF EchoSaves
    <2>4. QED
      BY <1>1, <2>1, <2>2, <2>3 DEF NoRow
  <1>4. QED
    BY <1>2, <1>3 DEF EchoStep

\* Time does not pass during a call that is shorter than the waits.
LEMMA OtherStepApart ==
    ASSUME ~Slow, IInv, Apart,
           \/ Tick \/ Age \/ \E r \in Replicas : Crash(r)
           \/ \E i \in Sends, target \in {"delivered", "read", "failed"} : Ack(i, target)
           \/ UNCHANGED vars
    PROVE  Apart'
  <1> USE DEF Apart, IInv, TypeOK
  <1>1. CASE Tick
    BY <1>1 DEF Tick
  <1>2. CASE Age
    BY <1>2 DEF Age, Patient, SenderStates
  <1>3. CASE \E r \in Replicas : Crash(r)
    BY <1>3 DEF Crash, IdleWorker, NoRow
  <1>4. CASE \E i \in Sends, target \in {"delivered", "read", "failed"} : Ack(i, target)
    BY <1>4 DEF Ack, Rows
  <1>5. CASE UNCHANGED vars
    BY <1>5 DEF vars
  <1>6. QED
    BY <1>1, <1>2, <1>3, <1>4, <1>5

\* Every step keeps call and scans apart.
LEMMA NextApart ==
    ASSUME ~Slow
    PROVE  IInv /\ Apart /\ [Next]_vars => Apart'
  BY SenderStepApart, WorkerStepApart, EchoStepApart, OtherStepApart DEF Next

\* With one replica, and sends and saves shorter than the retry waits and the lease,
\* no row is handed to an engine while an earlier send of it is unanswered: for any
\* number of sends, attempts and crashes.
THEOREM SendsOneAtATime ==
    ASSUME ~Slow, Replicas = {Home}
    PROVE  Spec => []OneSendAtATime
  <1>1. Apart => OneSendAtATime
    BY DEF Apart, OneSendAtATime, OneRetryAtATime
  <1>2. Spec => []Apart
    BY AlwaysIInv, InitApart, NextApart, PTL DEF Spec
  <1>3. QED
    BY <1>1, <1>2, PTL
=============================================================================
