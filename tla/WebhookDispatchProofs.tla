----------------------- MODULE WebhookDispatchProofs ------------------------
(***************************************************************************)
(* The dispatch of one event, for any number of webhooks, retry counts,    *)
(* stalls and crashes: no webhook gets more POSTs than it is due, nobody   *)
(* is told two verdicts, and a verdict is the end of the delivery.         *)
(***************************************************************************)
EXTENDS WebhookDispatch, TLAPS

\* Webhooks the loop has not yet handed to the queue or to deliverWebhook.
Fresh(w) == at = "lookup" \/ w \in todo \/ (now = w /\ at \in {"before", "adding"})

\* One mode excludes the other, and the loop is at one webhook at a time.
LoopSound ==
    /\ queued => at \notin Directly
    /\ ~queued => at # "adding" /\ \A w \in Webhooks : job[w].at = "none"
    /\ now \notin todo
    /\ at = "lookup" => todo = {} /\ now = NoWebhook
    /\ \A w \in Webhooks :
           Fresh(w) => posts[w] = 0 /\ job[w].at = "none" /\ verdict[w] = {}

\* The worker holds the one active job; its error hook runs on the last attempt.
WorkerSound ==
    /\ worker.at # "idle" => job[worker.hook].at = "active"
    /\ \A w \in Webhooks : job[w].at = "active" => worker.at # "idle" /\ worker.hook = w
    /\ \A w \in Webhooks : job[w].at \notin {"completed", "failed"} => job[w].stalls <= MaxStalls
    /\ worker.at = "errorHook" => FinalAttempt(worker.hook)
    /\ worker.at = "recording" => posts[worker.hook] > 0

\* What deliverWebhook has posted so far.
DirectSpent ==
    /\ at = "posting" => posts[now] < attempt
    /\ at \in {"recording", "waiting"} => posts[now] <= attempt
    /\ at = "recording" => posts[now] > 0
    /\ at = "waiting" => attempt < budget[now]

\* An attempt of a job posts at most once; it is counted when it throws.
Unposted(w) == job[w].at \in {"waiting", "delayed"} \/ (job[w].at = "active" /\ worker.at = "posting")

JobSpent ==
    \A w \in Webhooks : job[w].at # "none" =>
        /\ posts[w] <= job[w].made + 1 + job[w].stalls
        /\ Unposted(w) \/ job[w].at = "failed" => posts[w] <= job[w].made + job[w].stalls
        /\ job[w].at # "failed" => job[w].made < Attempts(w)

\* No verdict while a delivery is open, except after a stall or a lost add().
Open(w) ==
    \/ now = w /\ at \in Directly
    \/ Unposted(w) \/ (job[w].at = "active" /\ worker.at = "recording")

SilentWhileOpen ==
    \A w \in Webhooks :
        Open(w) /\ job[w].stalls = 0 /\ w \notin unsure => verdict[w] = {}

IInv ==
    /\ TypeOK /\ LoopSound /\ WorkerSound /\ DirectSpent /\ JobSpent /\ SilentWhileOpen
    /\ PostsWithinBudget /\ OneVerdict

-----------------------------------------------------------------------------
(* Helpers *)

\* Every webhook has an attempt, and what deliverWebhook and BullMQ call a further one
\* is one of them.
LEMMA AttemptsCount ==
    ASSUME TypeOK, NEW w \in Webhooks
    PROVE  /\ budget[w] \in Nat /\ Attempts(w) \in Nat /\ Attempts(w) >= 1
           /\ \A n \in Nat : n < budget[w] => n < Attempts(w)
           /\ \A n \in Nat : n < Attempts(w) => 1 \in 1..Attempts(w) /\ n + 1 \in 1..Attempts(w)
  <1>1. budget[w] \in Nat
    BY BudgetsAssumption DEF TypeOK
  <1>2. Attempts(w) = IF 1 >= budget[w] THEN 1 ELSE budget[w]
    BY DEF Attempts, Largest
  <1>3. QED
    BY <1>1, <1>2

\* The configuration stays as it is.
LEMMA ConfigFixed ==
    ASSUME UNCHANGED config
    PROVE  queued' = queued /\ budget' = budget /\ \A w : Attempts(w)' = Attempts(w)
  BY DEF config, Attempts, Largest

\* A hook that fires is one verdict more on one webhook.
LEMMA FireEffect ==
    ASSUME TypeOK, NEW w \in Webhooks, NEW hook \in {"delivered", "error"}, Fire(w, hook)
    PROVE  /\ verdict' \in [Webhooks -> SUBSET {"delivered", "error"}]
           /\ verdict'[w] = verdict[w] \cup {hook}
           /\ \A v \in Webhooks : v # w => verdict'[v] = verdict[v]
  BY DEF TypeOK, Fire

\* A new job takes the place of none.
LEMMA NewJobEffect ==
    ASSUME TypeOK, NEW w \in Webhooks, job' = [job EXCEPT ![w] = NewJob]
    PROVE  /\ job' \in [Webhooks -> Jobs]
           /\ job'[w].at = "waiting" /\ job'[w].made = 0 /\ job'[w].stalls = 0
           /\ \A v \in Webhooks : v # w => job'[v] = job[v]
  <1>1. NewJob \in Jobs
    BY BoundsAssumption DEF NewJob, Jobs, JobStates
  <1>2. QED
    BY <1>1 DEF TypeOK, NewJob

\* A crash moves the active job only.
LEMMA StalledEffect ==
    ASSUME TypeOK, WorkerSound, NEW w \in Webhooks
    PROVE  /\ Stalled(job[w]) \in Jobs
           /\ Stalled(job[w]).made = job[w].made
           /\ job[w].at # "active" => Stalled(job[w]) = job[w]
           /\ job[w].at = "active" =>
                  /\ Stalled(job[w]).at = "waiting" => job[w].stalls < MaxStalls
                  /\ Stalled(job[w]).stalls = job[w].stalls + 1
                  /\ Stalled(job[w]).at \in {"waiting", "failed"}
  <1>1. job[w] \in Jobs
    BY DEF TypeOK
  <1>2. CASE job[w].at # "active"
    BY <1>1, <1>2 DEF Stalled
  <1>3. CASE job[w].at = "active"
    <2> DEFINE next == IF job[w].stalls < MaxStalls THEN "waiting" ELSE "failed"
    <2>1. Stalled(job[w]) = [job[w] EXCEPT !.stalls = job[w].stalls + 1, !.at = next]
      BY <1>3 DEF Stalled
    <2>2. next \in {"waiting", "failed"}
      OBVIOUS
    <2>2a. next = "waiting" => job[w].stalls < MaxStalls
      OBVIOUS
    <2>3. job[w].stalls + 1 \in 0..(MaxStalls + 1)
      BY <1>1, <1>3, BoundsAssumption DEF Jobs, WorkerSound
    <2> HIDE DEF next
    <2>4. QED
      BY <1>1, <1>3, <2>1, <2>2, <2>2a, <2>3 DEF Jobs, JobStates
  <1>4. QED
    BY <1>2, <1>3

\* What a job and its worker are after process() has thrown.
LEMMA JobThrowsEffect ==
    ASSUME TypeOK, NEW w \in Webhooks, JobThrows(w)
    PROVE  /\ job' \in [Webhooks -> Jobs]
           /\ job'[w].made = job[w].made + 1
           /\ job'[w].stalls = job[w].stalls
           /\ job'[w].at = IF job[w].made + 1 < budget[w] THEN "delayed" ELSE "failed"
           /\ \A v \in Webhooks : v # w => job'[v] = job[v]
           /\ worker' = [at |-> "idle", hook |-> NoWebhook]
  <1>1. job[w] \in Jobs
    BY DEF TypeOK
  <1>2. job'[w] = [job[w] EXCEPT !.made = @ + 1,
                                 !.at = IF job[w].made + 1 < budget[w] THEN "delayed" ELSE "failed"]
    BY DEF TypeOK, JobThrows
  <1>a. job[w].made \in Nat /\ job[w].made + 1 \in Nat
    BY <1>1 DEF Jobs
  <1>b. (IF job[w].made + 1 < budget[w] THEN "delayed" ELSE "failed") \in JobStates
    BY DEF JobStates
  <1>3. job'[w] \in Jobs
    BY <1>1, <1>2, <1>a, <1>b DEF Jobs
  <1>4. job' \in [Webhooks -> Jobs]
    BY <1>3 DEF TypeOK, JobThrows
  <1>5. QED
    BY <1>1, <1>2, <1>4 DEF JobThrows, IdleWorker, Jobs, TypeOK

\* The two outcomes of an attempt that failed.
LEMMA ProcessFailsEffect ==
    ASSUME TypeOK, WorkerSound, JobSpent, worker.at \in {"posting", "recording"}, ProcessFails
    PROVE  LET w == worker.hook
           IN  /\ w \in Webhooks /\ job[w].at = "active"
               /\ job' \in [Webhooks -> Jobs]
               /\ \A v \in Webhooks : v # w => job'[v] = job[v] /\ verdict'[v] = verdict[v]
               /\ job'[w].stalls = job[w].stalls
               /\ \/ /\ FinalAttempt(w)
                     /\ worker' = [at |-> "errorHook", hook |-> w]
                     /\ verdict'[w] = verdict[w] \cup {"error"}
                     /\ job' = job
                  \/ /\ worker' = [at |-> "idle", hook |-> NoWebhook]
                     /\ verdict' = verdict
                     /\ job'[w].made = job[w].made + 1
                     /\ job'[w].made < Attempts(w)
                     /\ job'[w].at = "delayed"
               /\ verdict' \in [Webhooks -> SUBSET {"delivered", "error"}]
  <1> DEFINE w == worker.hook
  <1>1. w \in Webhooks /\ job[w].at = "active" /\ job[w].made \in Nat /\ budget[w] \in Nat
    BY AttemptsCount DEF TypeOK, WorkerSound, Jobs
  <1>2. CASE FinalAttempt(w)
    <2>1. Fire(w, "error") /\ worker' = [worker EXCEPT !.at = "errorHook"] /\ job' = job
      BY <1>2 DEF ProcessFails, WorkerAt
    <2>2. worker' = [at |-> "errorHook", hook |-> w]
      BY <2>1 DEF TypeOK
    <2>3. QED
      BY <1>1, <1>2, <2>1, <2>2, FireEffect DEF TypeOK
  <1>3. CASE ~FinalAttempt(w)
    <2>1. JobThrows(w) /\ verdict' = verdict
      BY <1>3 DEF ProcessFails
    <2>2. job[w].made + 1 < budget[w]
      BY <1>1, <1>3 DEF FinalAttempt
    <2>3. job[w].made + 1 < Attempts(w)
      BY <1>1, <2>2, AttemptsCount
    <2>4. job'[w].made = job[w].made + 1 /\ job'[w].at = "delayed"
      BY <1>1, <2>1, <2>2, JobThrowsEffect
    <2>5. verdict' \in [Webhooks -> SUBSET {"delivered", "error"}]
      BY <2>1 DEF TypeOK
    <2>6. QED
      BY <1>1, <2>1, <2>3, <2>4, <2>5, JobThrowsEffect
  <1>4. QED
    BY <1>2, <1>3

\* Every webhook of the query is as fresh as before it.
LEMMA DispatchLooksUpIInv ==
    ASSUME IInv, DispatchLooksUp
    PROVE  IInv'
  <1>1. TypeOK'
    BY ConfigFixed DEF DispatchLooksUp, IInv, TypeOK, DispatchAwaits, Directly
  <1>2. LoopSound'
    BY NoWebhookAssumption DEF DispatchLooksUp, IInv, LoopSound, Fresh, Directly
  <1>3. WorkerSound'
    BY ConfigFixed DEF DispatchLooksUp, IInv, WorkerSound, FinalAttempt
  <1>4. DirectSpent'
    BY DEF DispatchLooksUp, DirectSpent
  <1>5. JobSpent'
    BY ConfigFixed DEF DispatchLooksUp, IInv, JobSpent, Unposted
  <1>6. SilentWhileOpen'
    BY DEF DispatchLooksUp, IInv, SilentWhileOpen, Open, Unposted, Directly
  <1>7. PostsWithinBudget'
    BY ConfigFixed DEF DispatchLooksUp, IInv, PostsWithinBudget
  <1>8. OneVerdict'
    BY DEF DispatchLooksUp, IInv, OneVerdict
  <1>9. QED
    BY <1>1, <1>2, <1>3, <1>4, <1>5, <1>6, <1>7, <1>8 DEF IInv

\* The webhook whose turn it is leaves todo as fresh as it was in it.
LEMMA DispatchTurnsIInv ==
    ASSUME IInv, DispatchTurns
    PROVE  IInv'
  <1>1. TypeOK'
    BY ConfigFixed DEF DispatchTurns, IInv, TypeOK, DispatchAwaits, Directly
  <1>2. LoopSound'
    BY ConfigFixed DEF DispatchTurns, IInv, LoopSound, Fresh, Directly
  <1>3. WorkerSound'
    BY ConfigFixed DEF DispatchTurns, IInv, WorkerSound, FinalAttempt
  <1>4. DirectSpent'
    BY DEF DispatchTurns, DirectSpent
  <1>5. JobSpent'
    BY ConfigFixed DEF DispatchTurns, IInv, JobSpent, Unposted
  <1>6. SilentWhileOpen'
    BY DEF DispatchTurns, IInv, SilentWhileOpen, Open, Unposted, Directly
  <1>7. PostsWithinBudget'
    BY ConfigFixed DEF DispatchTurns, IInv, PostsWithinBudget
  <1>8. OneVerdict'
    BY DEF DispatchTurns, IInv, OneVerdict
  <1>9. QED
    BY <1>1, <1>2, <1>3, <1>4, <1>5, <1>6, <1>7, <1>8 DEF IInv

\* A vetoed webhook is left behind untouched.
LEMMA DispatchVetoedIInv ==
    ASSUME IInv, DispatchVetoed
    PROVE  IInv'
  <1>1. TypeOK'
    BY ConfigFixed DEF DispatchVetoed, IInv, TypeOK, DispatchAwaits, Directly
  <1>2. LoopSound'
    BY ConfigFixed DEF DispatchVetoed, IInv, LoopSound, Fresh, Directly
  <1>3. WorkerSound'
    BY ConfigFixed DEF DispatchVetoed, IInv, WorkerSound, FinalAttempt
  <1>4. DirectSpent'
    BY DEF DispatchVetoed, DirectSpent
  <1>5. JobSpent'
    BY ConfigFixed DEF DispatchVetoed, IInv, JobSpent, Unposted
  <1>6. SilentWhileOpen'
    BY DEF DispatchVetoed, IInv, SilentWhileOpen, Open, Unposted, Directly
  <1>7. PostsWithinBudget'
    BY ConfigFixed DEF DispatchVetoed, IInv, PostsWithinBudget
  <1>8. OneVerdict'
    BY DEF DispatchVetoed, IInv, OneVerdict
  <1>9. QED
    BY <1>1, <1>2, <1>3, <1>4, <1>5, <1>6, <1>7, <1>8 DEF IInv

\* The first attempt: nothing has been posted to a fresh webhook.
LEMMA DispatchGoesOnIInv ==
    ASSUME IInv, DispatchGoesOn
    PROVE  IInv'
  <1>1. TypeOK'
    BY AttemptsCount, ConfigFixed DEF DispatchGoesOn, IInv, TypeOK, DispatchAwaits
  <1>2. LoopSound'
    BY ConfigFixed DEF DispatchGoesOn, IInv, LoopSound, Fresh, Directly
  <1>3. WorkerSound'
    BY ConfigFixed DEF DispatchGoesOn, IInv, WorkerSound, FinalAttempt
  <1>4. DirectSpent'
    BY DEF DispatchGoesOn, IInv, DirectSpent, TypeOK, LoopSound, Fresh
  <1>5. JobSpent'
    BY ConfigFixed DEF DispatchGoesOn, IInv, JobSpent, Unposted
  <1>6. SilentWhileOpen'
    BY DEF DispatchGoesOn, IInv, SilentWhileOpen, Open, Unposted, LoopSound, Fresh
  <1>7. PostsWithinBudget'
    BY ConfigFixed DEF DispatchGoesOn, IInv, PostsWithinBudget
  <1>8. OneVerdict'
    BY DEF DispatchGoesOn, IInv, OneVerdict
  <1>9. QED
    BY <1>1, <1>2, <1>3, <1>4, <1>5, <1>6, <1>7, <1>8 DEF IInv

\* The new job of a fresh webhook has used nothing of its budget.
LEMMA DispatchQueuesIInv ==
    ASSUME IInv, DispatchQueues
    PROVE  IInv'
  <1>a. /\ now \in Webhooks
        /\ job' \in [Webhooks -> Jobs]
        /\ job'[now].at = "waiting" /\ job'[now].made = 0 /\ job'[now].stalls = 0
        /\ \A v \in Webhooks : v # now => job'[v] = job[v]
    BY NewJobEffect DEF DispatchQueues, IInv, TypeOK
  <1>b. /\ verdict' \in [Webhooks -> SUBSET {"delivered", "error"}]
        /\ \A v \in Webhooks : v # now => verdict'[v] = verdict[v]
        /\ \/ verdict' = verdict /\ unsure' = unsure
           \/ verdict'[now] = verdict[now] \cup {"error"} /\ unsure' = unsure \cup {now}
    BY FireEffect DEF DispatchQueues, IInv, TypeOK
  <1>1. TypeOK'
    BY <1>a, <1>b, AttemptsCount, ConfigFixed DEF DispatchQueues, IInv, TypeOK,
       DispatchAwaits, Directly
  <1>2. LoopSound'
    BY <1>b, ConfigFixed DEF DispatchQueues, IInv, LoopSound, Fresh, Directly
  <1>3. WorkerSound'
    BY <1>a, ConfigFixed, BoundsAssumption DEF DispatchQueues, IInv, WorkerSound,
       FinalAttempt, LoopSound, Fresh
  <1>4. DirectSpent'
    BY DEF DispatchQueues, DirectSpent
  <1>5. JobSpent'
    BY <1>a, AttemptsCount, ConfigFixed DEF DispatchQueues, IInv, JobSpent, Unposted,
       LoopSound, Fresh
  <1>6. SilentWhileOpen'
    BY <1>b DEF DispatchQueues, IInv, SilentWhileOpen, Open, Unposted, LoopSound, Fresh
  <1>7. PostsWithinBudget'
    BY <1>a, AttemptsCount, ConfigFixed DEF DispatchQueues, IInv, PostsWithinBudget,
       LoopSound, Fresh
  <1>8. OneVerdict'
    BY <1>b DEF DispatchQueues, IInv, OneVerdict, LoopSound, Fresh
  <1>9. QED
    BY <1>1, <1>2, <1>3, <1>4, <1>5, <1>6, <1>7, <1>8 DEF IInv

\* The error hook is the first verdict on a fresh webhook, which leaves the loop.
LEMMA DispatchCannotQueueIInv ==
    ASSUME IInv, DispatchCannotQueue
    PROVE  IInv'
  <1>a. /\ verdict' \in [Webhooks -> SUBSET {"delivered", "error"}]
        /\ verdict'[now] = verdict[now] \cup {"error"}
        /\ \A v \in Webhooks : v # now => verdict'[v] = verdict[v]
    BY FireEffect DEF DispatchCannotQueue, IInv, TypeOK
  <1>1. TypeOK'
    BY <1>a, ConfigFixed DEF DispatchCannotQueue, IInv, TypeOK, DispatchAwaits, Directly
  <1>2. LoopSound'
    BY <1>a, ConfigFixed DEF DispatchCannotQueue, IInv, LoopSound, Fresh, Directly
  <1>3. WorkerSound'
    BY ConfigFixed DEF DispatchCannotQueue, IInv, WorkerSound, FinalAttempt
  <1>4. DirectSpent'
    BY DEF DispatchCannotQueue, DirectSpent
  <1>5. JobSpent'
    BY ConfigFixed DEF DispatchCannotQueue, IInv, JobSpent, Unposted
  <1>6. SilentWhileOpen'
    BY <1>a DEF DispatchCannotQueue, IInv, SilentWhileOpen, Open, Unposted, Directly,
       LoopSound, Fresh
  <1>7. PostsWithinBudget'
    BY ConfigFixed DEF DispatchCannotQueue, IInv, PostsWithinBudget
  <1>8. OneVerdict'
    BY <1>a DEF DispatchCannotQueue, IInv, OneVerdict, LoopSound, Fresh
  <1>9. QED
    BY <1>1, <1>2, <1>3, <1>4, <1>5, <1>6, <1>7, <1>8 DEF IInv

\* Back to the loop, with no delivery open.
LEMMA DispatchReportsIInv ==
    ASSUME IInv, DispatchReports
    PROVE  IInv'
  <1>1. TypeOK'
    BY ConfigFixed DEF DispatchReports, IInv, TypeOK, DispatchAwaits, Directly
  <1>2. LoopSound'
    BY ConfigFixed DEF DispatchReports, IInv, LoopSound, Fresh, Directly
  <1>3. WorkerSound'
    BY ConfigFixed DEF DispatchReports, IInv, WorkerSound, FinalAttempt
  <1>4. DirectSpent'
    BY DEF DispatchReports, DirectSpent
  <1>5. JobSpent'
    BY ConfigFixed DEF DispatchReports, IInv, JobSpent, Unposted
  <1>6. SilentWhileOpen'
    BY DEF DispatchReports, IInv, SilentWhileOpen, Open, Unposted, Directly
  <1>7. PostsWithinBudget'
    BY ConfigFixed DEF DispatchReports, IInv, PostsWithinBudget
  <1>8. OneVerdict'
    BY DEF DispatchReports, IInv, OneVerdict
  <1>9. QED
    BY <1>1, <1>2, <1>3, <1>4, <1>5, <1>6, <1>7, <1>8 DEF IInv

\* One POST in an attempt; the verdict comes only when none is left.
LEMMA DirectPostsIInv ==
    ASSUME IInv, DirectPosts
    PROVE  IInv'
  <1>a. /\ now \in Webhooks
        /\ verdict' \in [Webhooks -> SUBSET {"delivered", "error"}]
        /\ \A v \in Webhooks : v # now => verdict'[v] = verdict[v]
        /\ \/ at' = "waiting" /\ attempt < budget[now] /\ verdict' = verdict
           \/ at' = "hook" /\ verdict'[now] = verdict[now] \cup {"error"}
           \/ at' = "recording" /\ verdict' = verdict
    BY FireEffect DEF DirectPosts, AttemptFails, MayRetry, IInv, TypeOK, Directly
  <1>b. /\ posts' \in [Webhooks -> Nat]
        /\ posts'[now] = posts[now] + 1
        /\ \A v \in Webhooks : v # now => posts'[v] = posts[v]
    BY DEF DirectPosts, IInv, TypeOK, Directly
  <1>1. TypeOK'
    BY <1>a, <1>b, ConfigFixed DEF DirectPosts, IInv, TypeOK, DispatchAwaits, Directly
  <1>2. LoopSound'
    BY <1>a, ConfigFixed DEF DirectPosts, IInv, LoopSound, Fresh, Directly
  <1>3. WorkerSound'
    BY ConfigFixed DEF DirectPosts, IInv, WorkerSound, FinalAttempt, TypeOK
  <1>4. DirectSpent'
    BY <1>a, ConfigFixed DEF DirectPosts, IInv, DirectSpent, TypeOK
  <1>5. JobSpent'
    BY DEF DirectPosts, IInv, JobSpent, LoopSound, Directly
  <1>6. SilentWhileOpen'
    BY <1>a DEF DirectPosts, IInv, SilentWhileOpen, Open, Unposted, Directly, LoopSound
  <1>7. PostsWithinBudget'
    BY AttemptsCount, ConfigFixed DEF DirectPosts, IInv, PostsWithinBudget, DirectSpent,
       TypeOK, Directly, Jobs
  <1>8. OneVerdict'
    BY <1>a, <1>b DEF DirectPosts, IInv, OneVerdict, SilentWhileOpen, Open, Directly, TypeOK
  <1>9. QED
    BY <1>1, <1>2, <1>3, <1>4, <1>5, <1>6, <1>7, <1>8 DEF IInv

\* An attempt without a POST.
LEMMA DirectBlockedIInv ==
    ASSUME IInv, DirectBlocked
    PROVE  IInv'
  <1>a. /\ now \in Webhooks
        /\ verdict' \in [Webhooks -> SUBSET {"delivered", "error"}]
        /\ \A v \in Webhooks : v # now => verdict'[v] = verdict[v]
        /\ \/ at' = "waiting" /\ attempt < budget[now] /\ verdict' = verdict
           \/ at' = "hook" /\ verdict'[now] = verdict[now] \cup {"error"}
    BY FireEffect DEF DirectBlocked, AttemptFails, MayRetry, IInv, TypeOK, Directly
  <1>1. TypeOK'
    BY <1>a, ConfigFixed DEF DirectBlocked, IInv, TypeOK, DispatchAwaits, Directly
  <1>2. LoopSound'
    BY <1>a, ConfigFixed DEF DirectBlocked, IInv, LoopSound, Fresh, Directly
  <1>3. WorkerSound'
    BY ConfigFixed DEF DirectBlocked, IInv, WorkerSound, FinalAttempt
  <1>4. DirectSpent'
    BY <1>a, ConfigFixed DEF DirectBlocked, IInv, DirectSpent, TypeOK
  <1>5. JobSpent'
    BY ConfigFixed DEF DirectBlocked, IInv, JobSpent, Unposted
  <1>6. SilentWhileOpen'
    BY <1>a DEF DirectBlocked, IInv, SilentWhileOpen, Open, Unposted, Directly, LoopSound
  <1>7. PostsWithinBudget'
    BY ConfigFixed DEF DirectBlocked, IInv, PostsWithinBudget
  <1>8. OneVerdict'
    BY <1>a DEF DirectBlocked, IInv, OneVerdict, SilentWhileOpen, Open, Directly
  <1>9. QED
    BY <1>1, <1>2, <1>3, <1>4, <1>5, <1>6, <1>7, <1>8 DEF IInv

\* The record and the hook come together, after a POST.
LEMMA DirectRecordsIInv ==
    ASSUME IInv, DirectRecords
    PROVE  IInv'
  <1>a. /\ verdict' \in [Webhooks -> SUBSET {"delivered", "error"}]
        /\ verdict'[now] = verdict[now] \cup {"delivered"}
        /\ \A v \in Webhooks : v # now => verdict'[v] = verdict[v]
    BY FireEffect DEF DirectRecords, IInv, TypeOK, Directly
  <1>1. TypeOK'
    BY <1>a, ConfigFixed DEF DirectRecords, IInv, TypeOK, DispatchAwaits, Directly
  <1>2. LoopSound'
    BY <1>a DEF DirectRecords, IInv, LoopSound, Fresh, Directly
  <1>3. WorkerSound'
    BY ConfigFixed DEF DirectRecords, IInv, WorkerSound, FinalAttempt
  <1>4. DirectSpent'
    BY DEF DirectRecords, DirectSpent
  <1>5. JobSpent'
    BY ConfigFixed DEF DirectRecords, IInv, JobSpent, Unposted
  <1>6. SilentWhileOpen'
    BY DEF DirectRecords, IInv, SilentWhileOpen, Open, Unposted, Directly, LoopSound
  <1>7. PostsWithinBudget'
    BY ConfigFixed DEF DirectRecords, IInv, PostsWithinBudget
  <1>8. OneVerdict'
    BY <1>a DEF DirectRecords, IInv, OneVerdict, SilentWhileOpen, Open, Directly,
       DirectSpent, LoopSound
  <1>9. QED
    BY <1>1, <1>2, <1>3, <1>4, <1>5, <1>6, <1>7, <1>8 DEF IInv

\* The attempt's POST is made and the attempt counts as failed.
LEMMA DirectCannotRecordIInv ==
    ASSUME IInv, DirectCannotRecord
    PROVE  IInv'
  <1>a. /\ now \in Webhooks
        /\ verdict' \in [Webhooks -> SUBSET {"delivered", "error"}]
        /\ \A v \in Webhooks : v # now => verdict'[v] = verdict[v]
        /\ \/ at' = "waiting" /\ attempt < budget[now] /\ verdict' = verdict
           \/ at' = "hook" /\ verdict'[now] = verdict[now] \cup {"error"}
    BY FireEffect DEF DirectCannotRecord, AttemptFails, MayRetry, IInv, TypeOK, Directly
  <1>1. TypeOK'
    BY <1>a, ConfigFixed DEF DirectCannotRecord, IInv, TypeOK, DispatchAwaits, Directly
  <1>2. LoopSound'
    BY <1>a, ConfigFixed DEF DirectCannotRecord, IInv, LoopSound, Fresh, Directly
  <1>3. WorkerSound'
    BY ConfigFixed DEF DirectCannotRecord, IInv, WorkerSound, FinalAttempt
  <1>4. DirectSpent'
    BY <1>a, ConfigFixed DEF DirectCannotRecord, IInv, DirectSpent
  <1>5. JobSpent'
    BY ConfigFixed DEF DirectCannotRecord, IInv, JobSpent, Unposted
  <1>6. SilentWhileOpen'
    BY <1>a DEF DirectCannotRecord, IInv, SilentWhileOpen, Open, Unposted, Directly,
       LoopSound
  <1>7. PostsWithinBudget'
    BY ConfigFixed DEF DirectCannotRecord, IInv, PostsWithinBudget
  <1>8. OneVerdict'
    BY <1>a DEF DirectCannotRecord, IInv, OneVerdict, SilentWhileOpen, Open, Directly
  <1>9. QED
    BY <1>1, <1>2, <1>3, <1>4, <1>5, <1>6, <1>7, <1>8 DEF IInv

\* The next attempt is within the budget.
LEMMA DirectRetriesIInv ==
    ASSUME IInv, DirectRetries
    PROVE  IInv'
  <1>1. TypeOK'
    BY AttemptsCount, ConfigFixed DEF DirectRetries, IInv, TypeOK, DispatchAwaits,
       Directly, DirectSpent
  <1>2. LoopSound'
    BY ConfigFixed DEF DirectRetries, IInv, LoopSound, Fresh, Directly
  <1>3. WorkerSound'
    BY ConfigFixed DEF DirectRetries, IInv, WorkerSound, FinalAttempt
  <1>4. DirectSpent'
    BY DEF DirectRetries, IInv, DirectSpent, TypeOK, Directly
  <1>5. JobSpent'
    BY ConfigFixed DEF DirectRetries, IInv, JobSpent, Unposted
  <1>6. SilentWhileOpen'
    BY DEF DirectRetries, IInv, SilentWhileOpen, Open, Unposted, Directly
  <1>7. PostsWithinBudget'
    BY ConfigFixed DEF DirectRetries, IInv, PostsWithinBudget
  <1>8. OneVerdict'
    BY DEF DirectRetries, IInv, OneVerdict
  <1>9. QED
    BY <1>1, <1>2, <1>3, <1>4, <1>5, <1>6, <1>7, <1>8 DEF IInv

\* An idle worker holds no job, so the one it takes is its only active one.
LEMMA WorkerTakesIInv ==
    ASSUME IInv, NEW w \in Webhooks, WorkerTakes(w)
    PROVE  IInv'
  <1>a. /\ job' \in [Webhooks -> Jobs]
        /\ job'[w].at = "active" /\ job'[w].made = job[w].made /\ job'[w].stalls = job[w].stalls
        /\ \A v \in Webhooks : v # w => job'[v] = job[v]
    BY DEF WorkerTakes, IInv, TypeOK, Jobs, JobStates
  <1>1. TypeOK'
    BY <1>a, ConfigFixed DEF WorkerTakes, IInv, TypeOK, WorkerAwaits
  <1>2. LoopSound'
    BY ConfigFixed DEF WorkerTakes, IInv, LoopSound, Fresh
  <1>3. WorkerSound'
    BY <1>a DEF WorkerTakes, IInv, WorkerSound
  <1>4. DirectSpent'
    BY ConfigFixed DEF WorkerTakes, IInv, DirectSpent
  <1>5. JobSpent'
    BY ConfigFixed DEF WorkerTakes, IInv, JobSpent, Unposted, WorkerSound
  <1>6. SilentWhileOpen'
    BY DEF WorkerTakes, IInv, SilentWhileOpen, Open, Unposted, WorkerSound
  <1>7. PostsWithinBudget'
    BY ConfigFixed DEF WorkerTakes, IInv, PostsWithinBudget
  <1>8. OneVerdict'
    BY DEF WorkerTakes, IInv, OneVerdict
  <1>9. QED
    BY <1>1, <1>2, <1>3, <1>4, <1>5, <1>6, <1>7, <1>8 DEF IInv

\* The one POST of the job's attempt.
LEMMA WorkerPostsIInv ==
    ASSUME IInv, WorkerPosts
    PROVE  IInv'
  <1>a. LET w == worker.hook
        IN  /\ w \in Webhooks /\ job[w].at = "active"
            /\ job' \in [Webhooks -> Jobs]
            /\ \A v \in Webhooks : v # w => job'[v] = job[v] /\ verdict'[v] = verdict[v]
            /\ job'[w].stalls = job[w].stalls
            /\ \/ /\ FinalAttempt(w)
                  /\ worker' = [at |-> "errorHook", hook |-> w]
                  /\ verdict'[w] = verdict[w] \cup {"error"}
                  /\ job' = job
               \/ /\ worker' = [at |-> "idle", hook |-> NoWebhook]
                  /\ verdict' = verdict
                  /\ job'[w].made = job[w].made + 1
                  /\ job'[w].made < Attempts(w)
                  /\ job'[w].at = "delayed"
               \/ worker' = [at |-> "recording", hook |-> w] /\ job' = job /\ verdict' = verdict
            /\ verdict' \in [Webhooks -> SUBSET {"delivered", "error"}]
    BY ProcessFailsEffect DEF WorkerPosts, WorkerAt, WorkerSound, TypeOK, IInv
  <1>b. /\ posts' \in [Webhooks -> Nat]
        /\ posts'[worker.hook] = posts[worker.hook] + 1
        /\ \A v \in Webhooks : v # worker.hook => posts'[v] = posts[v]
    BY DEF WorkerPosts, IInv, TypeOK
  <1>1. TypeOK'
    <2>1. \A w \in Webhooks : job'[w].made <= Attempts(w)'
      <3> TAKE w \in Webhooks
      <3>1. job[w].made \in Nat /\ job[w].made + 1 \in Nat /\ Attempts(w) \in Nat /\ job[w].made <= Attempts(w)
        BY AttemptsCount DEF IInv, TypeOK, Jobs
      <3>2. Attempts(w)' = Attempts(w)
        BY ConfigFixed DEF WorkerPosts
      <3>3. QED
        BY <1>a, <3>1, <3>2
    <2>2. worker' \in [at : WorkerAwaits, hook : Webhooks \cup {NoWebhook}] /\ (worker'.at # "idle" => worker'.hook \in Webhooks)
      BY <1>a DEF WorkerAwaits
    <2>3. queued' \in BOOLEAN /\ budget' \in [Webhooks -> Budgets] /\ (at' \in Directly => attempt' \in 1..Attempts(now'))
      BY ConfigFixed DEF WorkerPosts, IInv, TypeOK
    <2>4. \A w \in Webhooks : Attempts(w)' = Attempts(w)
      BY ConfigFixed DEF WorkerPosts
    <2>5. QED
      BY <1>a, <1>b, <2>1, <2>2, <2>3, <2>4 DEF WorkerPosts, IInv, TypeOK
  <1>2. LoopSound'
    BY <1>a, ConfigFixed DEF WorkerPosts, IInv, LoopSound, Fresh
  <1>3. WorkerSound'
    BY <1>a, <1>b, ConfigFixed DEF WorkerPosts, IInv, WorkerSound, FinalAttempt, TypeOK,
       Fresh
  <1>4. DirectSpent'
    BY <1>a DEF WorkerPosts, IInv, DirectSpent, LoopSound, Directly
  <1>5. JobSpent'
    BY <1>a, <1>b, ConfigFixed DEF WorkerPosts, IInv, JobSpent, Unposted, TypeOK, Jobs
  <1>6. SilentWhileOpen'
    BY <1>a DEF WorkerPosts, IInv, SilentWhileOpen, Open, Unposted, LoopSound
  <1>7. PostsWithinBudget'
    BY <1>a, AttemptsCount, ConfigFixed DEF WorkerPosts, IInv, PostsWithinBudget,
       JobSpent, Unposted, TypeOK, Jobs
  <1>8. OneVerdict'
    BY <1>a, <1>b DEF WorkerPosts, IInv, OneVerdict, SilentWhileOpen, Open, Unposted, TypeOK
  <1>9. QED
    BY <1>1, <1>2, <1>3, <1>4, <1>5, <1>6, <1>7, <1>8 DEF IInv

\* An attempt of the job without a POST.
LEMMA WorkerBlockedIInv ==
    ASSUME IInv, WorkerBlocked
    PROVE  IInv'
  <1>a. LET w == worker.hook
        IN  /\ w \in Webhooks /\ job[w].at = "active"
            /\ job' \in [Webhooks -> Jobs]
            /\ \A v \in Webhooks : v # w => job'[v] = job[v] /\ verdict'[v] = verdict[v]
            /\ job'[w].stalls = job[w].stalls
            /\ \/ /\ FinalAttempt(w)
                  /\ worker' = [at |-> "errorHook", hook |-> w]
                  /\ verdict'[w] = verdict[w] \cup {"error"}
                  /\ job' = job
               \/ /\ worker' = [at |-> "idle", hook |-> NoWebhook]
                  /\ verdict' = verdict
                  /\ job'[w].made = job[w].made + 1
                  /\ job'[w].made < Attempts(w)
                  /\ job'[w].at = "delayed"
            /\ verdict' \in [Webhooks -> SUBSET {"delivered", "error"}]
    BY ProcessFailsEffect DEF WorkerBlocked, IInv
  <1>1. TypeOK'
    <2>1. \A w \in Webhooks : job'[w].made <= Attempts(w)'
      <3> TAKE w \in Webhooks
      <3>1. job[w].made \in Nat /\ job[w].made + 1 \in Nat /\ Attempts(w) \in Nat /\ job[w].made <= Attempts(w)
        BY AttemptsCount DEF IInv, TypeOK, Jobs
      <3>2. Attempts(w)' = Attempts(w)
        BY ConfigFixed DEF WorkerBlocked
      <3>3. QED
        BY <1>a, <3>1, <3>2
    <2>2. worker' \in [at : WorkerAwaits, hook : Webhooks \cup {NoWebhook}] /\ (worker'.at # "idle" => worker'.hook \in Webhooks)
      BY <1>a DEF WorkerAwaits
    <2>3. queued' \in BOOLEAN /\ budget' \in [Webhooks -> Budgets] /\ (at' \in Directly => attempt' \in 1..Attempts(now'))
      BY ConfigFixed DEF WorkerBlocked, IInv, TypeOK
    <2>4. \A w \in Webhooks : Attempts(w)' = Attempts(w)
      BY ConfigFixed DEF WorkerBlocked
    <2>5. QED
      BY <1>a, <2>1, <2>2, <2>3, <2>4 DEF WorkerBlocked, IInv, TypeOK
  <1>2. LoopSound'
    BY <1>a, ConfigFixed DEF WorkerBlocked, IInv, LoopSound, Fresh
  <1>3. WorkerSound'
    BY <1>a, ConfigFixed DEF WorkerBlocked, IInv, WorkerSound, FinalAttempt
  <1>4. DirectSpent'
    BY ConfigFixed DEF WorkerBlocked, IInv, DirectSpent
  <1>5. JobSpent'
    BY <1>a, ConfigFixed DEF WorkerBlocked, IInv, JobSpent, Unposted, TypeOK, Jobs
  <1>6. SilentWhileOpen'
    BY <1>a DEF WorkerBlocked, IInv, SilentWhileOpen, Open, Unposted, LoopSound
  <1>7. PostsWithinBudget'
    BY <1>a, ConfigFixed DEF WorkerBlocked, IInv, PostsWithinBudget
  <1>8. OneVerdict'
    BY <1>a DEF WorkerBlocked, IInv, OneVerdict, SilentWhileOpen, Open, Unposted
  <1>9. QED
    BY <1>1, <1>2, <1>3, <1>4, <1>5, <1>6, <1>7, <1>8 DEF IInv

\* The record and the hook come together, after the attempt's POST.
LEMMA WorkerRecordsIInv ==
    ASSUME IInv, WorkerRecords
    PROVE  IInv'
  <1>a. /\ verdict' \in [Webhooks -> SUBSET {"delivered", "error"}]
        /\ verdict'[worker.hook] = verdict[worker.hook] \cup {"delivered"}
        /\ \A v \in Webhooks : v # worker.hook => verdict'[v] = verdict[v]
    BY FireEffect DEF WorkerRecords, IInv, TypeOK
  <1>b. worker' = [at |-> "hook", hook |-> worker.hook]
    BY DEF WorkerRecords, WorkerAt, IInv, TypeOK
  <1>1. TypeOK'
    BY <1>a, <1>b, ConfigFixed DEF WorkerRecords, IInv, TypeOK, WorkerAwaits
  <1>2. LoopSound'
    BY <1>a, ConfigFixed DEF WorkerRecords, IInv, LoopSound, Fresh, WorkerSound
  <1>3. WorkerSound'
    BY <1>b DEF WorkerRecords, IInv, WorkerSound
  <1>4. DirectSpent'
    BY ConfigFixed DEF WorkerRecords, IInv, DirectSpent
  <1>5. JobSpent'
    BY <1>b, ConfigFixed DEF WorkerRecords, IInv, JobSpent, Unposted
  <1>6. SilentWhileOpen'
    BY <1>a, <1>b DEF WorkerRecords, IInv, SilentWhileOpen, Open, Unposted, WorkerSound,
       LoopSound
  <1>7. PostsWithinBudget'
    BY ConfigFixed DEF WorkerRecords, IInv, PostsWithinBudget
  <1>8. OneVerdict'
    BY <1>a DEF WorkerRecords, IInv, OneVerdict, SilentWhileOpen, Open, WorkerSound
  <1>9. QED
    BY <1>1, <1>2, <1>3, <1>4, <1>5, <1>6, <1>7, <1>8 DEF IInv

\* The attempt's POST is made and the attempt counts as failed.
LEMMA WorkerCannotRecordIInv ==
    ASSUME IInv, WorkerCannotRecord
    PROVE  IInv'
  <1>a. LET w == worker.hook
        IN  /\ w \in Webhooks /\ job[w].at = "active"
            /\ job' \in [Webhooks -> Jobs]
            /\ \A v \in Webhooks : v # w => job'[v] = job[v] /\ verdict'[v] = verdict[v]
            /\ job'[w].stalls = job[w].stalls
            /\ \/ /\ FinalAttempt(w)
                  /\ worker' = [at |-> "errorHook", hook |-> w]
                  /\ verdict'[w] = verdict[w] \cup {"error"}
                  /\ job' = job
               \/ /\ worker' = [at |-> "idle", hook |-> NoWebhook]
                  /\ verdict' = verdict
                  /\ job'[w].made = job[w].made + 1
                  /\ job'[w].made < Attempts(w)
                  /\ job'[w].at = "delayed"
            /\ verdict' \in [Webhooks -> SUBSET {"delivered", "error"}]
    BY ProcessFailsEffect DEF WorkerCannotRecord, IInv
  <1>1. TypeOK'
    BY <1>a, AttemptsCount, ConfigFixed DEF WorkerCannotRecord, IInv, TypeOK,
       WorkerAwaits, Directly, WorkerSound, Jobs
  <1>2. LoopSound'
    BY <1>a, ConfigFixed DEF WorkerCannotRecord, IInv, LoopSound, Fresh
  <1>3. WorkerSound'
    BY <1>a, ConfigFixed DEF WorkerCannotRecord, IInv, WorkerSound, FinalAttempt
  <1>4. DirectSpent'
    BY ConfigFixed DEF WorkerCannotRecord, IInv, DirectSpent
  <1>5. JobSpent'
    BY <1>a, ConfigFixed DEF WorkerCannotRecord, IInv, JobSpent, Unposted, TypeOK, Jobs
  <1>6. SilentWhileOpen'
    BY <1>a DEF WorkerCannotRecord, IInv, SilentWhileOpen, Open, Unposted, LoopSound
  <1>7. PostsWithinBudget'
    BY <1>a, ConfigFixed DEF WorkerCannotRecord, IInv, PostsWithinBudget
  <1>8. OneVerdict'
    BY <1>a DEF WorkerCannotRecord, IInv, OneVerdict, SilentWhileOpen, Open
  <1>9. QED
    BY <1>1, <1>2, <1>3, <1>4, <1>5, <1>6, <1>7, <1>8 DEF IInv

\* A completed job is not open.
LEMMA WorkerCompletesIInv ==
    ASSUME IInv, WorkerCompletes
    PROVE  IInv'
  <1>a. LET w == worker.hook
        IN  /\ w \in Webhooks
            /\ job' \in [Webhooks -> Jobs]
            /\ job'[w].at = "completed" /\ job'[w].made = job[w].made /\ job'[w].stalls = job[w].stalls
            /\ \A v \in Webhooks : v # w => job'[v] = job[v]
    BY DEF WorkerCompletes, IInv, TypeOK, Jobs, JobStates
  <1>1. TypeOK'
    BY <1>a, ConfigFixed DEF WorkerCompletes, IdleWorker, IInv, TypeOK, WorkerAwaits
  <1>2. LoopSound'
    BY ConfigFixed DEF WorkerCompletes, IInv, LoopSound, Fresh, WorkerSound
  <1>3. WorkerSound'
    BY <1>a DEF WorkerCompletes, IdleWorker, IInv, WorkerSound
  <1>4. DirectSpent'
    BY ConfigFixed DEF WorkerCompletes, IInv, DirectSpent
  <1>5. JobSpent'
    BY <1>a, ConfigFixed DEF WorkerCompletes, IInv, JobSpent, Unposted, WorkerSound
  <1>6. SilentWhileOpen'
    BY DEF WorkerCompletes, IdleWorker, IInv, SilentWhileOpen, Open, Unposted
  <1>7. PostsWithinBudget'
    BY ConfigFixed DEF WorkerCompletes, IInv, PostsWithinBudget
  <1>8. OneVerdict'
    BY DEF WorkerCompletes, IInv, OneVerdict
  <1>9. QED
    BY <1>1, <1>2, <1>3, <1>4, <1>5, <1>6, <1>7, <1>8 DEF IInv

\* The last attempt is counted: the job fails and is not open.
LEMMA WorkerGivesUpIInv ==
    ASSUME IInv, WorkerGivesUp
    PROVE  IInv'
  <1>a. LET w == worker.hook
        IN  /\ w \in Webhooks
            /\ job' \in [Webhooks -> Jobs]
            /\ job'[w].at = "failed" /\ job'[w].made = job[w].made + 1 /\ job'[w].stalls = job[w].stalls
            /\ job'[w].made <= Attempts(w)
            /\ \A v \in Webhooks : v # w => job'[v] = job[v]
            /\ worker' = [at |-> "idle", hook |-> NoWebhook]
    <2>1. worker.hook \in Webhooks /\ FinalAttempt(worker.hook) /\ TypeOK
      BY DEF WorkerGivesUp, IInv, TypeOK, WorkerSound
    <2>2. job[worker.hook].made \in Nat /\ budget[worker.hook] \in Nat
      BY <2>1, AttemptsCount DEF TypeOK, Jobs
    <2>3. ~(job[worker.hook].made + 1 < budget[worker.hook])
      BY <2>1, <2>2 DEF FinalAttempt
    <2>4. JobThrows(worker.hook)
      BY DEF WorkerGivesUp
    <2>5. job[worker.hook].made + 1 <= Attempts(worker.hook)
      BY <2>1, <2>2, AttemptsCount DEF WorkerGivesUp, IInv, WorkerSound, JobSpent
    <2>6. QED
      BY <2>1, <2>3, <2>4, <2>5, JobThrowsEffect
  <1>1. TypeOK'
    BY <1>a, ConfigFixed DEF WorkerGivesUp, IInv, TypeOK, WorkerAwaits
  <1>2. LoopSound'
    BY <1>a, ConfigFixed DEF WorkerGivesUp, IInv, LoopSound, Fresh, WorkerSound
  <1>3. WorkerSound'
    BY <1>a DEF IInv, WorkerSound
  <1>4. DirectSpent'
    BY ConfigFixed DEF WorkerGivesUp, IInv, DirectSpent
  <1>5. JobSpent'
    BY <1>a, ConfigFixed DEF WorkerGivesUp, IInv, JobSpent, Unposted, TypeOK, WorkerSound,
       Jobs
  <1>6. SilentWhileOpen'
    BY <1>a DEF WorkerGivesUp, IInv, SilentWhileOpen, Open, Unposted
  <1>7. PostsWithinBudget'
    BY <1>a, ConfigFixed DEF WorkerGivesUp, IInv, PostsWithinBudget
  <1>8. OneVerdict'
    BY <1>a DEF WorkerGivesUp, IInv, OneVerdict
  <1>9. QED
    BY <1>1, <1>2, <1>3, <1>4, <1>5, <1>6, <1>7, <1>8 DEF IInv

\* A delayed job is waiting again with its attempts as they were.
LEMMA JobDueIInv ==
    ASSUME IInv, NEW w \in Webhooks, JobDue(w)
    PROVE  IInv'
  <1>a. /\ job' \in [Webhooks -> Jobs]
        /\ job'[w].at = "waiting" /\ job'[w].made = job[w].made /\ job'[w].stalls = job[w].stalls
        /\ \A v \in Webhooks : v # w => job'[v] = job[v]
    BY DEF JobDue, IInv, TypeOK, Jobs, JobStates
  <1>1. TypeOK'
    BY <1>a, ConfigFixed DEF JobDue, IInv, TypeOK
  <1>2. LoopSound'
    BY ConfigFixed DEF JobDue, IInv, LoopSound, Fresh
  <1>3. WorkerSound'
    BY ConfigFixed DEF JobDue, IInv, WorkerSound, FinalAttempt
  <1>4. DirectSpent'
    BY ConfigFixed DEF JobDue, IInv, DirectSpent
  <1>5. JobSpent'
    BY ConfigFixed DEF JobDue, IInv, JobSpent, Unposted
  <1>6. SilentWhileOpen'
    BY DEF JobDue, IInv, SilentWhileOpen, Open, Unposted
  <1>7. PostsWithinBudget'
    BY ConfigFixed DEF JobDue, IInv, PostsWithinBudget
  <1>8. OneVerdict'
    BY DEF JobDue, IInv, OneVerdict
  <1>9. QED
    BY <1>1, <1>2, <1>3, <1>4, <1>5, <1>6, <1>7, <1>8 DEF IInv

\* The active job alone moves; its stall pays for the POST that is not counted.
LEMMA CrashIInv ==
    ASSUME IInv, Crash
    PROVE  IInv'
  <1>a. /\ job' \in [Webhooks -> Jobs]
        /\ \A w \in Webhooks :
               /\ job[w].stalls \in Nat /\ job'[w].made = job[w].made
               /\ job[w].at # "active" => job'[w] = job[w]
               /\ job[w].at = "active" =>
                      /\ job'[w].stalls = job[w].stalls + 1
                      /\ job'[w].at \in {"waiting", "failed"}
                      /\ job'[w].at = "waiting" => job[w].stalls < MaxStalls
    BY StalledEffect DEF Crash, IInv, TypeOK, Jobs
  <1>b. /\ worker' = [at |-> "idle", hook |-> NoWebhook] /\ at' \in {"done", "gone"}
        /\ posts' = posts /\ recorded' = recorded /\ verdict' = verdict /\ unsure' = unsure
        /\ \A w : Attempts(w)' = Attempts(w)
    BY ConfigFixed DEF Crash, IdleWorker
  <1>1. TypeOK'
    BY <1>a, <1>b, ConfigFixed, BoundsAssumption DEF Crash, IInv, TypeOK, DispatchAwaits,
       WorkerAwaits, Directly
  <1>2. LoopSound'
    BY <1>a, ConfigFixed DEF Crash, IInv, LoopSound, Fresh, Directly
  <1>3. WorkerSound'
    <2> SUFFICES ASSUME NEW w \in Webhooks PROVE /\ job'[w].at # "active"
                                                 /\ job'[w].at \notin {"completed", "failed"} => job'[w].stalls <= MaxStalls
      BY <1>b DEF WorkerSound
    <2>1. CASE job[w].at = "active"
      <3>1. /\ job[w].stalls \in Nat /\ job'[w].stalls = job[w].stalls + 1 /\ job'[w].made = job[w].made
            /\ job'[w].at \in {"waiting", "failed"}
            /\ job'[w].at = "waiting" => job[w].stalls < MaxStalls
        BY <1>a, <2>1
      <3>2. QED
        BY <3>1, BoundsAssumption
    <2>2. CASE job[w].at # "active"
      BY <1>a, <2>2 DEF IInv, WorkerSound
    <2>3. QED
      BY <2>1, <2>2
  <1>4. DirectSpent'
    BY <1>b DEF DirectSpent
  <1>5. JobSpent'
    <2> SUFFICES ASSUME NEW w \in Webhooks PROVE JobSpent!(w)'
      BY DEF JobSpent
    <2>1. CASE job[w].at = "active"
      <3>1. /\ job[w].stalls \in Nat /\ job'[w].stalls = job[w].stalls + 1 /\ job'[w].made = job[w].made
            /\ job'[w].at \in {"waiting", "failed"}
            /\ job'[w].at = "waiting" => job[w].stalls < MaxStalls
        BY <1>a, <2>1
      <3>2. QED
        BY <3>1, <1>b, <2>1 DEF IInv, JobSpent, TypeOK, Jobs
    <2>2. CASE job[w].at # "active"
      BY <1>a, <1>b, <2>2 DEF IInv, JobSpent, Unposted
    <2>3. QED
      BY <2>1, <2>2
  <1>6. SilentWhileOpen'
    <2> SUFFICES ASSUME NEW w \in Webhooks PROVE SilentWhileOpen!(w)'
      BY DEF SilentWhileOpen
    <2>1. CASE job[w].at = "active"
      <3>1. /\ job[w].stalls \in Nat /\ job'[w].stalls = job[w].stalls + 1 /\ job'[w].made = job[w].made
            /\ job'[w].at \in {"waiting", "failed"}
            /\ job'[w].at = "waiting" => job[w].stalls < MaxStalls
        BY <1>a, <2>1
      <3>2. QED
        BY <3>1
    <2>2. CASE job[w].at # "active"
      BY <1>a, <1>b DEF IInv, SilentWhileOpen, Open, Directly, Unposted
    <2>3. QED
      BY <2>1, <2>2
  <1>7. PostsWithinBudget'
    <2> SUFFICES ASSUME NEW w \in Webhooks PROVE PostsWithinBudget!(w)'
      BY DEF PostsWithinBudget
    <2>1. CASE job[w].at = "active"
      <3>1. /\ job[w].stalls \in Nat /\ job'[w].stalls = job[w].stalls + 1 /\ job'[w].made = job[w].made
            /\ job'[w].at \in {"waiting", "failed"}
            /\ job'[w].at = "waiting" => job[w].stalls < MaxStalls
        BY <1>a, <2>1
      <3>2. QED
        BY <3>1, <1>b, AttemptsCount DEF IInv, PostsWithinBudget, TypeOK
    <2>2. CASE job[w].at # "active"
      BY <1>a, <1>b, <2>2 DEF IInv, PostsWithinBudget
    <2>3. QED
      BY <2>1, <2>2
  <1>8. OneVerdict'
    <2> SUFFICES ASSUME NEW w \in Webhooks PROVE OneVerdict!(w)'
      BY DEF OneVerdict
    <2>1. CASE job[w].at = "active"
      <3>1. /\ job[w].stalls \in Nat /\ job'[w].stalls = job[w].stalls + 1 /\ job'[w].made = job[w].made
            /\ job'[w].at \in {"waiting", "failed"}
            /\ job'[w].at = "waiting" => job[w].stalls < MaxStalls
        BY <1>a, <2>1
      <3>2. QED
        BY <3>1, <1>b, <2>1 DEF IInv, OneVerdict
    <2>2. CASE job[w].at # "active"
      BY <1>a, <1>b DEF IInv, OneVerdict
    <2>3. QED
      BY <2>1, <2>2
  <1>9. QED
    BY <1>1, <1>2, <1>3, <1>4, <1>5, <1>6, <1>7, <1>8 DEF IInv

\* The state after the event has fired.
LEMMA InitIInv == Init => IInv
  <1> SUFFICES ASSUME Init PROVE IInv
    OBVIOUS
  <1> USE DEF Init, IdleWorker
  <1>1. TypeOK
    <2>1. \A w \in Webhooks : budget[w] \in Nat /\ Attempts(w) >= 1 /\ Attempts(w) \in Nat
      <3> TAKE w \in Webhooks
      <3>1. budget[w] \in Nat
        BY BudgetsAssumption
      <3>2. QED
        BY <3>1 DEF Attempts, Largest
    <2>2. job \in [Webhooks -> Jobs]
      BY BoundsAssumption DEF Jobs, JobStates
    <2>3. QED
      BY <2>1, <2>2, BoundsAssumption, NoWebhookAssumption DEF TypeOK, DispatchAwaits,
         WorkerAwaits, Directly
  <1>2. LoopSound /\ WorkerSound /\ DirectSpent
    BY BoundsAssumption DEF LoopSound, Fresh, WorkerSound, DirectSpent, Directly
  <1>3. JobSpent /\ SilentWhileOpen /\ OneVerdict
    BY DEF JobSpent, SilentWhileOpen, Open, Unposted, Directly, OneVerdict
  <1>4. PostsWithinBudget
    <2> SUFFICES ASSUME NEW w \in Webhooks PROVE posts[w] <= Attempts(w) + job[w].stalls
      BY DEF PostsWithinBudget
    <2>1. Attempts(w) \in Nat /\ posts[w] = 0 /\ job[w].stalls = 0
      BY <1>1, AttemptsCount
    <2>2. QED
      BY <2>1
  <1>5. QED
    BY <1>1, <1>2, <1>3, <1>4 DEF IInv

\* Every step keeps the invariant.
LEMMA NextIInv == IInv /\ [Next]_vars => IInv'
  <1> SUFFICES ASSUME IInv, [Next]_vars PROVE IInv'
    OBVIOUS
  <1>1. CASE DispatchStep
    BY <1>1, DispatchLooksUpIInv, DispatchTurnsIInv, DispatchVetoedIInv, DispatchGoesOnIInv,
       DispatchQueuesIInv, DispatchCannotQueueIInv, DispatchReportsIInv, DirectPostsIInv,
       DirectBlockedIInv, DirectRecordsIInv, DirectCannotRecordIInv, DirectRetriesIInv DEF DispatchStep
  <1>2. CASE WorkerStep
    BY <1>2, WorkerTakesIInv, WorkerPostsIInv, WorkerBlockedIInv, WorkerRecordsIInv,
       WorkerCannotRecordIInv, WorkerCompletesIInv, WorkerGivesUpIInv DEF WorkerStep
  <1>3. CASE (\E w \in Webhooks : JobDue(w)) \/ Crash
    BY <1>3, JobDueIInv, CrashIInv
  <1>4. CASE UNCHANGED vars
    <2> USE <1>4 DEF vars, config
    <2>1. TypeOK'
      BY DEF IInv, TypeOK, Attempts, Largest
    <2>2. LoopSound' /\ WorkerSound' /\ DirectSpent'
      BY DEF IInv, LoopSound, Fresh, WorkerSound, FinalAttempt, DirectSpent
    <2>3. JobSpent' /\ SilentWhileOpen'
      BY DEF IInv, JobSpent, SilentWhileOpen, Open, Unposted, Attempts, Largest
    <2>4. PostsWithinBudget' /\ OneVerdict'
      BY DEF IInv, PostsWithinBudget, OneVerdict, Attempts, Largest
    <2>5. QED
      BY <2>1, <2>2, <2>3, <2>4 DEF IInv
  <1>5. QED
    BY <1>1, <1>2, <1>3, <1>4 DEF Next

\* The invariant of the module.
LEMMA AlwaysIInv == Spec => []IInv
  BY InitIInv, NextIInv, PTL DEF Spec

\* No attempt is numbered beyond the budget, whichever way a delivery fails.
THEOREM TypeCorrect == Spec => []TypeOK
  <1>1. IInv => TypeOK
    BY DEF IInv
  <1>2. QED
    BY AlwaysIInv, <1>1, PTL

\* For any webhooks, retry counts and crashes, the POSTs a webhook gets for an event
\* exceed its retry count by no more than the times its job stalled.
THEOREM BudgetIsKept == Spec => []PostsWithinBudget
  <1>1. IInv => PostsWithinBudget
    BY DEF IInv
  <1>2. QED
    BY AlwaysIInv, <1>1, PTL

\* A delivery that nothing stalled is reported in one way, and as delivered only
\* with a POST and a record behind it.
THEOREM OneVerdictOnly == Spec => []OneVerdict
  <1>1. IInv => OneVerdict
    BY DEF IInv
  <1>2. QED
    BY AlwaysIInv, <1>1, PTL

\* A step that posts finds the delivery open, so that no verdict has been published.
LEMMA PostFindsNoVerdict ==
    ASSUME IInv, [Next]_vars, NEW w \in Webhooks,
           verdict[w] # {}, job[w].stalls = 0, w \notin unsure
    PROVE  posts'[w] = posts[w]
  <1>1. CASE DirectPosts
    <2>1. w # now
      BY <1>1 DEF DirectPosts, IInv, SilentWhileOpen, Open, Directly
    <2>2. QED
      BY <1>1, <2>1 DEF DirectPosts, IInv, TypeOK
  <1>2. CASE WorkerPosts
    <2>1. w # worker.hook
      BY <1>2 DEF WorkerPosts, IInv, WorkerSound, SilentWhileOpen, Open, Unposted
    <2>2. QED
      BY <1>2, <2>1 DEF WorkerPosts, IInv, TypeOK
  <1>3. CASE UNCHANGED posts
    BY <1>3
  <1>4. QED
    <2>1. DispatchStep => DirectPosts \/ UNCHANGED posts
      BY DEF DispatchStep, DispatchLooksUp, DispatchTurns, DispatchVetoed, DispatchGoesOn,
             DispatchQueues, DispatchCannotQueue, DispatchReports, DirectBlocked, DirectRecords,
             DirectCannotRecord, DirectRetries
    <2>2. WorkerStep => WorkerPosts \/ UNCHANGED posts
      BY DEF WorkerStep, WorkerTakes, WorkerBlocked, WorkerRecords, WorkerCannotRecord,
             WorkerCompletes, WorkerGivesUp
    <2>3. (\E v \in Webhooks : JobDue(v)) \/ Crash \/ UNCHANGED vars => UNCHANGED posts
      BY DEF JobDue, Crash, vars
    <2>4. QED
      BY <1>1, <1>2, <1>3, <2>1, <2>2, <2>3 DEF Next

\* Once a verdict is published the webhook hears no more of the event, unless its job
\* has stalled or its add() had failed.
THEOREM VerdictsAreLast == Spec => VerdictIsLast
  <1>1. IInv /\ [Next]_vars =>
            [\A w \in Webhooks :
                 /\ verdict[w] # {} /\ job[w].stalls = 0 /\ w \notin unsure
                 => posts'[w] = posts[w]]_vars
    BY PostFindsNoVerdict
  <1>2. QED
    BY AlwaysIInv, <1>1, PTL DEF Spec, VerdictIsLast
=============================================================================
