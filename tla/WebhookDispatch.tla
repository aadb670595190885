-------------------------- MODULE WebhookDispatch ---------------------------
(***************************************************************************)
(* One event on its way to the webhooks of a session: WebhookService       *)
(* dispatches it to one webhook after the other, either directly with      *)
(* retries of its own or as BullMQ jobs that WebhookProcessor works off.   *)
(* The queue outlives the process, the dispatch does not.  Each step is    *)
(* the code between two awaits.                                            *)
(***************************************************************************)
EXTENDS Naturals

CONSTANTS
    Webhooks,   \* the session's webhooks
    NoWebhook,
    Budgets,    \* values of webhook.retryCount (0..5 in the DTOs)
    MaxStalls,  \* BullMQ's maxStalledCount
    MaxCrashes  \* bound: crashes of the process

ASSUME NoWebhookAssumption == NoWebhook \notin Webhooks
ASSUME BudgetsAssumption == Budgets \subseteq Nat
ASSUME BoundsAssumption == MaxStalls \in Nat /\ MaxCrashes \in Nat

VARIABLES
    queued,   \* queueEnabled: is there a queue
    budget,   \* webhook.retryCount of each webhook
    at,       \* the await dispatch is suspended in
    todo,     \* matching webhooks the loop has not come to
    now,      \* the webhook the loop is at
    attempt,  \* deliverWebhook's attempt
    job,      \* the BullMQ job of each webhook
    worker,   \* WebhookProcessor.process: its await and its webhook (concurrency 1)
    posts,    \* POSTs made for each webhook
    recorded, \* webhooks whose lastTriggeredAt has been set
    verdict,  \* hooks fired for each webhook: webhook:delivered, webhook:error
    unsure,   \* webhooks whose queue.add() failed although the job is stored
    crashes   \* crashes so far

config == <<queued, budget>>
vars == <<config, at, todo, now, attempt, job, worker, posts, recorded, verdict, unsure, crashes>>

DispatchAwaits == {"lookup", "loop", "before", "adding", "posting", "recording",
                   "waiting", "hook", "done", "gone"}
WorkerAwaits == {"idle", "posting", "recording", "hook", "errorHook"}
JobStates == {"none", "waiting", "delayed", "active", "completed", "failed"}

Jobs == [at : JobStates, made : Nat, stalls : 0..(MaxStalls + 1)]

Largest(m, n) == IF m >= n THEN m ELSE n

\* The first attempt is made whatever retryCount says.
Attempts(w) == Largest(1, budget[w])

Directly == {"posting", "recording", "waiting"}

TypeOK ==
    /\ queued \in BOOLEAN
    /\ budget \in [Webhooks -> Budgets]
    /\ at \in DispatchAwaits
    /\ todo \subseteq Webhooks
    /\ now \in Webhooks \cup {NoWebhook}
    /\ at \in {"before", "adding", "hook"} \cup Directly => now \in Webhooks
    /\ attempt \in Nat
    /\ at \in Directly => attempt \in 1..Attempts(now)
    /\ job \in [Webhooks -> Jobs]
    /\ \A w \in Webhooks : job[w].made <= Attempts(w)
    /\ worker \in [at : WorkerAwaits, hook : Webhooks \cup {NoWebhook}]
    /\ worker.at # "idle" => worker.hook \in Webhooks
    /\ posts \in [Webhooks -> Nat]
    /\ recorded \subseteq Webhooks
    /\ verdict \in [Webhooks -> SUBSET {"delivered", "error"}]
    /\ unsure \subseteq Webhooks
    /\ crashes \in 0..MaxCrashes

-----------------------------------------------------------------------------
(* WebhookService.dispatch *)

Fire(w, hook) == verdict' = [verdict EXCEPT ![w] = @ \cup {hook}]

\* find() resolves to the active webhooks, some of which want the event; if it
\* rejects, dispatch returns.  What happens to a webhook's row later on changes
\* nothing for this event.
DispatchLooksUp ==
    /\ at = "lookup"
    /\ \E matching \in SUBSET Webhooks : todo' = matching
    /\ at' = "loop"
    /\ UNCHANGED <<config, now, attempt, job, worker, posts, recorded, verdict, unsure, crashes>>

\* The next webhook, in the order of the table, which is any: webhook:before.
DispatchTurns ==
    /\ at = "loop"
    /\ IF todo = {}
         THEN /\ at' = "done"
              /\ now' = NoWebhook
              /\ UNCHANGED todo
         ELSE \E w \in todo :
                  /\ at' = "before"
                  /\ now' = w
                  /\ todo' = todo \ {w}
    /\ UNCHANGED <<config, attempt, job, worker, posts, recorded, verdict, unsure, crashes>>

\* A plugin keeps the event from this webhook.
DispatchVetoed ==
    /\ at = "before"
    /\ at' = "loop"
    /\ UNCHANGED <<config, todo, now, attempt, job, worker, posts, recorded, verdict, unsure, crashes>>

DispatchGoesOn ==
    /\ at = "before"
    /\ at' = IF queued THEN "adding" ELSE "posting"
    /\ attempt' = 1
    /\ UNCHANGED <<config, todo, now, job, worker, posts, recorded, verdict, unsure, crashes>>

NewJob == [at |-> "waiting", made |-> 0, stalls |-> 0]

\* Redis stores the job; add() resolves, or the connection breaks before it does.
DispatchQueues ==
    /\ at = "adding"
    /\ job' = [job EXCEPT ![now] = NewJob]
    /\ \/ at' = "hook" /\ UNCHANGED <<verdict, unsure>>
       \/ /\ at' = "hook"
          /\ Fire(now, "error")
          /\ unsure' = unsure \cup {now}
    /\ UNCHANGED <<config, todo, now, attempt, worker, posts, recorded, crashes>>

DispatchCannotQueue ==
    /\ at = "adding"
    /\ Fire(now, "error")
    /\ at' = "hook"
    /\ UNCHANGED <<config, todo, now, attempt, job, worker, posts, recorded, unsure, crashes>>

\* The hooks after the delivery, or after its failure, have run; none rejects.
DispatchReports ==
    /\ at = "hook"
    /\ at' = "loop"
    /\ UNCHANGED <<config, todo, now, attempt, job, worker, posts, recorded, verdict, unsure, crashes>>

-----------------------------------------------------------------------------
(* deliverWebhook, without a queue *)

\* Mutant: the limit counts retries.
MayRetry_OneMore(w, n) == n <= budget[w]

\* Is another attempt left after attempt n?
MayRetry(w, n) == n < budget[w]

\* Mutant: a failed delivery ends the loop.
AttemptFails_EndsLoop ==
    IF MayRetry(now, attempt)
      THEN at' = "waiting" /\ UNCHANGED verdict
      ELSE at' = "done" /\ Fire(now, "error")

\* The catch block of an attempt: another one after a delay, or the error hook.
AttemptFails ==
    IF MayRetry(now, attempt)
      THEN at' = "waiting" /\ UNCHANGED verdict
      ELSE at' = "hook" /\ Fire(now, "error")

\* Mutant: the hook fires on the answer, before it is recorded.
DirectPosts_EarlyHook ==
    /\ at = "posting"
    /\ posts' = [posts EXCEPT ![now] = @ + 1]
    /\ \/ at' = "recording" /\ Fire(now, "delivered")
       \/ AttemptFails
    /\ UNCHANGED <<config, todo, now, attempt, job, worker, recorded, unsure, crashes>>

\* The POST is answered with 2xx, or refused, timed out, answered otherwise.
DirectPosts ==
    /\ at = "posting"
    /\ posts' = [posts EXCEPT ![now] = @ + 1]
    /\ \/ at' = "recording" /\ UNCHANGED verdict
       \/ AttemptFails
    /\ UNCHANGED <<config, todo, now, attempt, job, worker, recorded, unsure, crashes>>

\* assertSafeFetchUrl throws: nothing is posted, the attempt counts.
DirectBlocked ==
    /\ at = "posting"
    /\ AttemptFails
    /\ UNCHANGED <<config, todo, now, attempt, job, worker, posts, recorded, unsure, crashes>>

\* lastTriggeredAt is set, then webhook:delivered fires.
DirectRecords ==
    /\ at = "recording"
    /\ recorded' = recorded \cup {now}
    /\ Fire(now, "delivered")
    /\ at' = "hook"
    /\ UNCHANGED <<config, todo, now, attempt, job, worker, posts, unsure, crashes>>

\* The update rejects inside the same try: the event counts as not delivered.
DirectCannotRecord ==
    /\ at = "recording"
    /\ AttemptFails
    /\ UNCHANGED <<config, todo, now, attempt, job, worker, posts, recorded, unsure, crashes>>

DirectRetries ==
    /\ at = "waiting"
    /\ attempt' = attempt + 1
    /\ at' = "posting"
    /\ UNCHANGED <<config, todo, now, job, worker, posts, recorded, verdict, unsure, crashes>>

-----------------------------------------------------------------------------
(* WebhookProcessor.process and what BullMQ does around it *)

WorkerAt(await) == worker' = [worker EXCEPT !.at = await]
IdleWorker == [at |-> "idle", hook |-> NoWebhook]

WorkerTakes(w) ==
    /\ worker.at = "idle"
    /\ job[w].at = "waiting"
    /\ job' = [job EXCEPT ![w].at = "active"]
    /\ worker' = [at |-> "posting", hook |-> w]
    /\ UNCHANGED <<config, at, todo, now, attempt, posts, recorded, verdict, unsure, crashes>>

\* Mutant: the final attempt is taken for one with another to come.
FinalAttempt_OneLate(w) == job[w].made + 1 > budget[w]

\* isFinalAttempt
FinalAttempt(w) == job[w].made + 1 >= budget[w]

\* Mutant: BullMQ is given one attempt more.
JobThrows_OneMore(w) ==
    /\ job' = [job EXCEPT ![w].made = @ + 1,
                          ![w].at = IF job[w].made < budget[w] THEN "delayed" ELSE "failed"]
    /\ worker' = IdleWorker

\* process() throws: BullMQ counts the attempt and delays the next one, if any.
JobThrows(w) ==
    /\ job' = [job EXCEPT ![w].made = @ + 1,
                          ![w].at = IF job[w].made + 1 < budget[w] THEN "delayed" ELSE "failed"]
    /\ worker' = IdleWorker

\* The catch block: the error hook is awaited on the final attempt only.
ProcessFails ==
    IF FinalAttempt(worker.hook)
      THEN Fire(worker.hook, "error") /\ WorkerAt("errorHook") /\ UNCHANGED job
      ELSE JobThrows(worker.hook) /\ UNCHANGED verdict

WorkerPosts ==
    /\ worker.at = "posting"
    /\ posts' = [posts EXCEPT ![worker.hook] = @ + 1]
    /\ \/ WorkerAt("recording") /\ UNCHANGED <<job, verdict>>
       \/ ProcessFails
    /\ UNCHANGED <<config, at, todo, now, attempt, recorded, unsure, crashes>>

WorkerBlocked ==
    /\ worker.at = "posting"
    /\ ProcessFails
    /\ UNCHANGED <<config, at, todo, now, attempt, posts, recorded, unsure, crashes>>

WorkerRecords ==
    /\ worker.at = "recording"
    /\ recorded' = recorded \cup {worker.hook}
    /\ Fire(worker.hook, "delivered")
    /\ WorkerAt("hook")
    /\ UNCHANGED <<config, at, todo, now, attempt, job, posts, unsure, crashes>>

WorkerCannotRecord ==
    /\ worker.at = "recording"
    /\ ProcessFails
    /\ UNCHANGED <<config, at, todo, now, attempt, posts, recorded, unsure, crashes>>

\* The hook has run and process() returns.
WorkerCompletes ==
    /\ worker.at = "hook"
    /\ job' = [job EXCEPT ![worker.hook].at = "completed"]
    /\ worker' = IdleWorker
    /\ UNCHANGED <<config, at, todo, now, attempt, posts, recorded, verdict, unsure, crashes>>

WorkerGivesUp ==
    /\ worker.at = "errorHook"
    /\ JobThrows(worker.hook)
    /\ UNCHANGED <<config, at, todo, now, attempt, posts, recorded, verdict, unsure, crashes>>

\* The backoff of a delayed job is over.
JobDue(w) ==
    /\ job[w].at = "delayed"
    /\ job' = [job EXCEPT ![w].at = "waiting"]
    /\ UNCHANGED <<config, at, todo, now, attempt, worker, posts, recorded, verdict, unsure, crashes>>

\* A job whose worker died goes back to the queue with its attempts as they were;
\* after MaxStalls times BullMQ fails it without a call of process().
Stalled(j) ==
    IF j.at # "active" THEN j
    ELSE [j EXCEPT !.stalls = @ + 1, !.at = IF j.stalls < MaxStalls THEN "waiting" ELSE "failed"]

\* Crash and restart: the dispatch is forgotten, the queue is not.
Crash ==
    /\ crashes < MaxCrashes
    /\ crashes' = crashes + 1
    /\ at' = IF at = "done" THEN at ELSE "gone"
    /\ job' = [w \in Webhooks |-> Stalled(job[w])]
    /\ worker' = IdleWorker
    /\ UNCHANGED <<config, todo, now, attempt, posts, recorded, verdict, unsure>>

Init ==
    /\ queued \in BOOLEAN
    /\ budget \in [Webhooks -> Budgets]
    /\ at = "lookup"
    /\ todo = {}
    /\ now = NoWebhook
    /\ attempt = 1
    /\ job = [w \in Webhooks |-> [at |-> "none", made |-> 0, stalls |-> 0]]
    /\ worker = IdleWorker
    /\ posts = [w \in Webhooks |-> 0]
    /\ recorded = {}
    /\ verdict = [w \in Webhooks |-> {}]
    /\ unsure = {}
    /\ crashes = 0

DispatchStep ==
    \/ DispatchLooksUp \/ DispatchTurns \/ DispatchVetoed \/ DispatchGoesOn
    \/ DispatchQueues \/ DispatchCannotQueue \/ DispatchReports
    \/ DirectPosts \/ DirectBlocked \/ DirectRecords \/ DirectCannotRecord \/ DirectRetries

WorkerStep ==
    \/ \E w \in Webhooks : WorkerTakes(w)
    \/ WorkerPosts \/ WorkerBlocked \/ WorkerRecords \/ WorkerCannotRecord
    \/ WorkerCompletes \/ WorkerGivesUp

Next == DispatchStep \/ WorkerStep \/ (\E w \in Webhooks : JobDue(w)) \/ Crash

Spec == Init /\ [][Next]_vars

\* Every await settles (requests time out), the worker takes what is waiting and
\* a backoff ends.
FairSpec ==
    /\ Spec
    /\ WF_vars(DispatchStep)
    /\ WF_vars(WorkerStep)
    /\ \A w \in Webhooks : WF_vars(JobDue(w))

-----------------------------------------------------------------------------
(* Properties *)

\* "attempts: webhook.retryCount", "attempt < webhook.retryCount": a webhook never
\* gets more POSTs for an event than its retry count allows, one if that is zero;
\* only a worker that died in the middle of a job adds one.
PostsWithinBudget == \A w \in Webhooks : posts[w] <= Attempts(w) + job[w].stalls

\* "After webhook delivery failed (all retries exhausted)", "After webhook
\* successfully delivered": once a verdict on a delivery has been published no
\* further POST contradicts it -- unless the worker died before the job was closed,
\* or the queue took a job whose add() had failed.
VerdictIsLast ==
    [][\A w \in Webhooks :
           /\ verdict[w] # {} /\ job[w].stalls = 0 /\ w \notin unsure
           => posts'[w] = posts[w]]_vars

\* A webhook reported as delivered was recorded, and nobody is told both ways.
OneVerdict ==
    \A w \in Webhooks :
        /\ "delivered" \in verdict[w] => w \in recorded /\ posts[w] > 0
        /\ job[w].stalls = 0 /\ w \notin unsure => verdict[w] # {"delivered", "error"}

\* One webhook's failure keeps the event from no other webhook: every matching one
\* comes to a verdict or is vetoed, as long as the process that dispatches lives.
EveryoneServed ==
    \A w \in Webhooks :
        /\ w \in todo ~> (at = "gone" \/ w \notin todo)
        /\ (now = w /\ at \in {"adding", "posting"}) ~>
               (at = "gone" \/ verdict[w] # {} \/ job[w].at # "none")

\* What the queue holds is answered for, across crashes: a verdict is published,
\* unless its worker died more than MaxStalls times.
JobAnswered ==
    \A w \in Webhooks :
        job[w].at # "none" ~> (verdict[w] # {} \/ job[w].stalls > MaxStalls)
=============================================================================
