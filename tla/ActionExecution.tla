------------------------- MODULE ActionExecution -------------------------
(***************************************************************************)
(* One action of a matched rule, from the row and the BullMQ job that      *)
(* EventProcessingService creates for it, through ActionExecutionWorker    *)
(* and WebhooksService, to the dead letter that the worker's 'failed'      *)
(* listener records.                                                       *)
(*                                                                         *)
(* Every await of the code is a step of its own, so the runs of process(), *)
(* the listeners and the API interleave as they do on Node's event loop.   *)
(* Postgres rows and Redis jobs survive a crash; runs, listeners and       *)
(* outstanding queue additions do not.                                     *)
(***************************************************************************)
EXTENDS Naturals, FiniteSets

CONSTANTS
    Executions,   \* the ActionExecution rows that may be created
    Webhooks,     \* those whose actionType is CALL_WEBHOOK
    Concurrency,  \* process() invocations a worker runs at a time
    MaxAttempts,  \* job.opts.attempts
    MaxStalled,   \* BullMQ's maxStalledCount
    Budget,       \* how often each bounded occurrence may happen
    Total         \* how many of them may happen together

\* "refused": a statement fails and is not applied.  "unacked": it is applied
\* but its reply is lost.  "crash": the process dies and is restarted.
\* "lock": a job lock expires under a live run.  "retry": POST /:id/retry.
Occurrences == {"refused", "unacked", "crash", "lock", "retry"}

ASSUME ConstantsAssumption ==
    /\ Webhooks \subseteq Executions
    /\ Concurrency \in Nat \ {0}
    /\ MaxAttempts \in Nat \ {0}
    /\ MaxStalled \in Nat
    /\ Budget \in [Occurrences -> Nat]
    /\ Total \in Nat

VARIABLES
    exec,       \* ActionExecution rows: status and attemptCount
    adding,     \* rows created whose actionQueue.add is still awaited
    job,        \* the BullMQ job of each execution, in Redis
    runs,       \* process() invocations in progress
    handlers,   \* onActionJobFailed invocations in progress
    failed,     \* executions with a FailedExecution row
    dlq,        \* executions with a job in the dead-letter queue
    calls,      \* attempts whose request reached the webhook's target
    answered,   \* attempts whose request the target answered
    deliveries, \* attempts that have a WebhookDelivery row
    counted,    \* attempts that incremented successCount / failureCount
    spent       \* how often each bounded occurrence has happened

rows  == <<exec, failed, deliveries, counted>>
redis == <<job, dlq>>
world == <<calls, answered>>
vars  == <<exec, adding, job, runs, handlers, failed, dlq, calls, answered,
           deliveries, counted, spent>>

Statuses  == {"ABSENT", "PENDING", "PROCESSING", "SUCCESS", "FAILED",
              "PERMANENTLY_FAILED"}
JobStates == {"none", "waiting", "active", "delayed", "completed", "failed"}
RunPCs    == {"begin", "act", "store", "storeError", "succeed",
              "countSuccess", "resolve", "fail", "countFailure", "reject"}
HandlerPCs == {"find", "existing", "create", "update", "enqueue"}

Runs     == [exec : Executions, attempt : Nat, pc : RunPCs]
Handlers == [exec : Executions, attempt : Nat, pc : HandlerPCs]

TypeOK ==
    /\ exec \in [Executions -> [status : Statuses, attemptCount : Nat]]
    /\ adding \subseteq Executions
    /\ job \in [Executions -> [state : JobStates, attempts : Nat,
                               stalled : Nat, lock : Nat]]
    /\ runs \subseteq Runs
    /\ handlers \subseteq Handlers
    /\ failed \subseteq Executions
    /\ dlq \subseteq Executions
    /\ calls \in [Executions -> SUBSET Nat]
    /\ answered \in [Executions -> SUBSET Nat]
    /\ deliveries \in [Executions -> SUBSET Nat]
    /\ counted \in [Executions -> [success : SUBSET Nat, failure : SUBSET Nat]]
    /\ spent \in [Occurrences -> Nat]

Init ==
    /\ exec = [e \in Executions |-> [status |-> "ABSENT", attemptCount |-> 0]]
    /\ adding = {}
    /\ job = [e \in Executions |-> [state |-> "none", attempts |-> 0,
                                    stalled |-> 0, lock |-> 0]]
    /\ runs = {} /\ handlers = {} /\ failed = {} /\ dlq = {}
    /\ calls = [e \in Executions |-> {}]
    /\ answered = [e \in Executions |-> {}]
    /\ deliveries = [e \in Executions |-> {}]
    /\ counted = [e \in Executions |-> [success |-> {}, failure |-> {}]]
    /\ spent = [k \in Occurrences |-> 0]

Spent == spent["refused"] + spent["unacked"] + spent["crash"] + spent["lock"]
         + spent["retry"]

Spend(k) == /\ spent[k] < Budget[k]
            /\ Spent < Total
            /\ spent' = [spent EXCEPT ![k] = @ + 1]

-----------------------------------------------------------------------------
(* EventProcessingService.queueRuleActions, for one action.                *)

CreateExecution(e) ==
    /\ exec[e].status = "ABSENT"
    /\ exec' = [exec EXCEPT ![e] = [status |-> "PENDING", attemptCount |-> 0]]
    /\ adding' = adding \cup {e}
    /\ UNCHANGED <<redis, runs, handlers, failed, world, deliveries, counted, spent>>

EnqueueAction(e) ==
    /\ e \in adding
    /\ adding' = adding \ {e}
    /\ \/ /\ job' = [job EXCEPT ![e] = [state |-> "waiting", attempts |-> 0,
                                        stalled |-> 0, lock |-> 0]]
          /\ UNCHANGED spent
       \/ UNCHANGED job /\ Spend("refused")
    /\ UNCHANGED <<rows, runs, handlers, dlq, world>>

-----------------------------------------------------------------------------
(* BullMQ's worker takes a job: attemptsMade is incremented and the lock   *)
(* is taken for this attempt.                                              *)

Start(e) ==
    LET attempt == job[e].attempts + 1 IN
    /\ job[e].state = "waiting"
    /\ Cardinality(runs) < Concurrency
    /\ job' = [job EXCEPT ![e] = [state |-> "active", attempts |-> attempt,
                                  stalled |-> job[e].stalled, lock |-> attempt]]
    /\ runs' = runs \cup {[exec |-> e, attempt |-> attempt, pc |-> "begin"]}
    /\ UNCHANGED <<rows, adding, handlers, dlq, world, spent>>

-----------------------------------------------------------------------------
(* ActionExecutionWorker.process                                           *)

Goto(r, pc) == runs' = (runs \ {r}) \cup {[r EXCEPT !.pc = pc]}

\* Where a rejected statement of process() leads: to the catch block from
\* inside the try, to BullMQ from inside the catch block.
OnError(pc) == IF pc \in {"begin", "succeed", "countSuccess"}
               THEN "fail" ELSE "reject"

\* prisma.actionExecution.update
UpdateExecution(r, status, count, next) ==
    LET row == [status |-> status, attemptCount |-> count]
        written == [exec EXCEPT ![r.exec] = row] IN
    /\ \/ exec' = written /\ Goto(r, next) /\ UNCHANGED spent
       \/ exec' = written /\ Goto(r, OnError(r.pc)) /\ Spend("unacked")
       \/ exec' = exec /\ Goto(r, OnError(r.pc)) /\ Spend("refused")
    /\ UNCHANGED <<adding, redis, handlers, failed, world, deliveries, counted>>

\* prisma.automationRule.update: increment successCount or failureCount
UpdateRule(r, stats, next) ==
    LET written == [counted EXCEPT ![r.exec] = stats] IN
    /\ \/ counted' = written /\ Goto(r, next) /\ UNCHANGED spent
       \/ counted' = written /\ Goto(r, OnError(r.pc)) /\ Spend("unacked")
       \/ counted' = counted /\ Goto(r, OnError(r.pc)) /\ Spend("refused")
    /\ UNCHANGED <<exec, adding, redis, handlers, failed, world, deliveries>>

\* job.data.attemptCount is the 0 that queueRuleActions put there.
Begin(r) == r.pc = "begin" /\ UpdateExecution(r, "PROCESSING", 0 + 1, "act")

\* The placeholders for email and notification cannot fail.
ActPlaceholder(r) ==
    /\ r.pc = "act"
    /\ r.exec \notin Webhooks
    /\ Goto(r, "succeed")
    /\ UNCHANGED <<rows, adding, redis, handlers, world, spent>>

\* The target answers.  validateStatus accepts every status code, so an answer
\* of 4xx or 5xx is a success like any other.
CallAnswered(r) ==
    /\ r.pc = "act"
    /\ r.exec \in Webhooks
    /\ calls' = [calls EXCEPT ![r.exec] = @ \cup {r.attempt}]
    /\ answered' = [answered EXCEPT ![r.exec] = @ \cup {r.attempt}]
    /\ Goto(r, "store")
    /\ UNCHANGED <<rows, adding, redis, handlers, spent>>

\* Mutant: no timeout is configured and the request is awaited for ever.
CallHangs(r) ==
    /\ r.pc = "act"
    /\ r.exec \in Webhooks
    /\ calls' = [calls EXCEPT ![r.exec] = @ \cup {r.attempt}]
    /\ Goto(r, "hanging")
    /\ UNCHANGED <<rows, adding, redis, handlers, answered, spent>>

\* Timeout, refused connection or a reset: the target may have the request.
CallUnanswered(r) ==
    /\ r.pc = "act"
    /\ r.exec \in Webhooks
    /\ \/ calls' = [calls EXCEPT ![r.exec] = @ \cup {r.attempt}]
       \/ UNCHANGED calls
    /\ Goto(r, "storeError")
    /\ UNCHANGED <<rows, adding, redis, handlers, answered, spent>>

\* Mutant: handleWebhookError returns instead of throwing.
StoreDeliveryNoThrow(r) ==
    /\ r.pc \in {"store", "storeError"}
    /\ deliveries' = [deliveries EXCEPT ![r.exec] = @ \cup {r.attempt}]
    /\ Goto(r, "succeed")
    /\ UNCHANGED <<exec, adding, redis, handlers, failed, world, counted, spent>>

\* Mutant: only deliveries that were answered are stored.
StoreDeliveryAnswered(r) ==
    /\ r.pc \in {"store", "storeError"}
    /\ deliveries' = IF r.pc = "store"
                     THEN [deliveries EXCEPT ![r.exec] = @ \cup {r.attempt}]
                     ELSE deliveries
    /\ Goto(r, IF r.pc = "store" THEN "succeed" ELSE "fail")
    /\ UNCHANGED <<exec, adding, redis, handlers, failed, world, counted, spent>>

\* storeDelivery swallows the error of its insert.
StoreDelivery(r) ==
    /\ r.pc \in {"store", "storeError"}
    /\ \/ /\ deliveries' = [deliveries EXCEPT ![r.exec] = @ \cup {r.attempt}]
          /\ UNCHANGED spent
       \/ UNCHANGED deliveries /\ Spend("refused")
    /\ Goto(r, IF r.pc = "store" THEN "succeed" ELSE "fail")
    /\ UNCHANGED <<exec, adding, redis, handlers, failed, world, counted>>

\* Mutant: the status of a finished event is written into the execution row.
SucceedAsCompleted(r) ==
    /\ r.pc = "succeed"
    /\ UpdateExecution(r, "COMPLETED", exec[r.exec].attemptCount, "countSuccess")

Succeed(r) ==
    /\ r.pc = "succeed"
    /\ UpdateExecution(r, "SUCCESS", exec[r.exec].attemptCount, "countSuccess")

\* Mutant: a statement after the increment throws inside the try block.
CountSuccessThrows(r) ==
    /\ r.pc = "countSuccess"
    /\ UpdateRule(r, [counted[r.exec] EXCEPT !.success = @ \cup {r.attempt}],
                  "fail")

CountSuccess(r) ==
    /\ r.pc = "countSuccess"
    /\ UpdateRule(r, [counted[r.exec] EXCEPT !.success = @ \cup {r.attempt}],
                  "resolve")

Fail(r) ==
    /\ r.pc = "fail"
    /\ UpdateExecution(r, "FAILED", exec[r.exec].attemptCount, "countFailure")

CountFailure(r) ==
    /\ r.pc = "countFailure"
    /\ UpdateRule(r, [counted[r.exec] EXCEPT !.failure = @ \cup {r.attempt}],
                  "reject")

-----------------------------------------------------------------------------
(* BullMQ settles the attempt.  Without the lock it only reports an error. *)

HoldsLock(r) == job[r.exec].lock = r.attempt

Settle(e, state) ==
    job' = [job EXCEPT ![e] = [state |-> state, attempts |-> job[e].attempts,
                               stalled |-> job[e].stalled, lock |-> 0]]

\* Mutant: the listener does not look at attemptsMade.
OnEveryFailure(e, attemptsMade) ==
    handlers' = handlers \cup {[exec |-> e, attempt |-> attemptsMade, pc |-> "find"]}

\* Mutant: the listener's comparison is off by one.
OnActionJobFailedLate(e, attemptsMade) ==
    handlers' = IF attemptsMade <= MaxAttempts THEN handlers
                ELSE handlers \cup {[exec |-> e, attempt |-> attemptsMade,
                                     pc |-> "find"]}

\* @OnWorkerEvent('failed'): every failed attempt calls the listener, which
\* returns at once while attempts remain.
OnActionJobFailed(e, attemptsMade) ==
    handlers' = IF attemptsMade < MaxAttempts THEN handlers
                ELSE handlers \cup {[exec |-> e, attempt |-> attemptsMade,
                                     pc |-> "find"]}

Resolve(r) ==
    /\ r.pc = "resolve"
    /\ IF HoldsLock(r) THEN Settle(r.exec, "completed") ELSE UNCHANGED job
    /\ runs' = runs \ {r}
    /\ UNCHANGED <<rows, adding, handlers, dlq, world, spent>>

\* Mutant: BullMQ's comparison is off by one.
RejectLate(r) ==
    /\ r.pc = "reject"
    /\ IF HoldsLock(r)
       THEN /\ Settle(r.exec, IF r.attempt <= MaxAttempts THEN "delayed" ELSE "failed")
            /\ OnActionJobFailed(r.exec, r.attempt)
       ELSE UNCHANGED <<job, handlers>>
    /\ runs' = runs \ {r}
    /\ UNCHANGED <<rows, adding, dlq, world, spent>>

Reject(r) ==
    /\ r.pc = "reject"
    /\ IF HoldsLock(r)
       THEN /\ Settle(r.exec, IF r.attempt < MaxAttempts THEN "delayed" ELSE "failed")
            /\ OnActionJobFailed(r.exec, r.attempt)
       ELSE UNCHANGED <<job, handlers>>
    /\ runs' = runs \ {r}
    /\ UNCHANGED <<rows, adding, dlq, world, spent>>

\* The backoff delay is over.
Promote(e) ==
    /\ job[e].state = "delayed"
    /\ Settle(e, "waiting")
    /\ UNCHANGED <<rows, adding, runs, handlers, dlq, world, spent>>

\* The stalled checker finds an active job without a lock.
RecoverStalled(e) ==
    LET stalled == job[e].stalled + 1
        state   == IF stalled > MaxStalled THEN "failed" ELSE "waiting" IN
    /\ job[e].state = "active"
    /\ job[e].lock = 0
    /\ job' = [job EXCEPT ![e] = [state |-> state, attempts |-> job[e].attempts,
                                  stalled |-> stalled, lock |-> 0]]
    /\ IF state = "failed" THEN OnActionJobFailed(e, job[e].attempts)
                           ELSE UNCHANGED handlers
    /\ UNCHANGED <<rows, adding, runs, dlq, world, spent>>

\* The lock could not be renewed in time; the run does not notice.
LoseLock(e) ==
    /\ job[e].state = "active"
    /\ job[e].lock # 0
    /\ Spend("lock")
    /\ Settle(e, "active")
    /\ UNCHANGED <<rows, adding, runs, handlers, dlq, world>>

-----------------------------------------------------------------------------
(* ActionExecutionWorker.onActionJobFailed, from its first await on.       *)

Continue(h, pc) == handlers' = (handlers \ {h}) \cup {[h EXCEPT !.pc = pc]}
Return(h)       == handlers' = handlers \ {h}

FindExecution(h) ==
    /\ h.pc = "find"
    /\ IF exec[h.exec].status \in {"ABSENT", "SUCCESS"}
       THEN Return(h) ELSE Continue(h, "existing")
    /\ UNCHANGED <<rows, adding, redis, runs, world, spent>>

\* Mutant: the status is updated before the FailedExecution row is created.
FindFailedUpdateFirst(h) ==
    /\ h.pc = "existing"
    /\ IF h.exec \in failed THEN Return(h) ELSE Continue(h, "update")
    /\ UNCHANGED <<rows, adding, redis, runs, world, spent>>

FindFailed(h) ==
    /\ h.pc = "existing"
    /\ IF h.exec \in failed THEN Return(h) ELSE Continue(h, "create")
    /\ UNCHANGED <<rows, adding, redis, runs, world, spent>>

CreateFailed(h) ==
    /\ h.pc = "create"
    /\ failed' = failed \cup {h.exec}
    /\ Continue(h, "update")
    /\ UNCHANGED <<exec, deliveries, counted, adding, redis, runs, world, spent>>

MarkPermanentlyFailed(h) ==
    /\ h.pc = "update"
    /\ exec' = [exec EXCEPT ![h.exec] =
                  [status |-> "PERMANENTLY_FAILED",
                   attemptCount |-> exec[h.exec].attemptCount]]
    /\ Continue(h, "enqueue")
    /\ UNCHANGED <<failed, deliveries, counted, adding, redis, runs, world, spent>>

EnqueueDeadLetter(h) ==
    /\ h.pc = "enqueue"
    /\ dlq' = dlq \cup {h.exec}
    /\ Return(h)
    /\ UNCHANGED <<rows, adding, job, runs, world, spent>>

-----------------------------------------------------------------------------
(* The process dies and is restarted; the locks of its jobs expire.  This  *)
(* is also what a rejected statement of the listener does: nothing awaits  *)
(* the listener's promise, so the rejection is unhandled.                  *)

Crash ==
    /\ Spend("crash")
    /\ adding' = {} /\ runs' = {} /\ handlers' = {}
    /\ job' = [e \in Executions |->
                 [state |-> job[e].state, attempts |-> job[e].attempts,
                  stalled |-> job[e].stalled, lock |-> 0]]
    /\ UNCHANGED <<rows, dlq, world>>

\* ExecutionsService.retryExecution: the row is reset, no job is added.
RetryExecution(e) ==
    /\ exec[e].status # "ABSENT"
    /\ Spend("retry")
    /\ exec' = [exec EXCEPT ![e] = [status |-> "PENDING", attemptCount |-> 0]]
    /\ UNCHANGED <<failed, deliveries, counted, adding, redis, runs, handlers, world>>

RunStep(r) ==
    \/ Begin(r) \/ ActPlaceholder(r) \/ CallAnswered(r) \/ CallUnanswered(r)
    \/ StoreDelivery(r) \/ Succeed(r) \/ CountSuccess(r)
    \/ Fail(r) \/ CountFailure(r) \/ Resolve(r) \/ Reject(r)

HandlerStep(h) ==
    \/ FindExecution(h) \/ FindFailed(h) \/ CreateFailed(h)
    \/ MarkPermanentlyFailed(h) \/ EnqueueDeadLetter(h)

QueueStep(e) == Start(e) \/ Promote(e) \/ RecoverStalled(e)

Next ==
    \/ \E e \in Executions : \/ CreateExecution(e) \/ EnqueueAction(e)
                             \/ QueueStep(e) \/ LoseLock(e) \/ RetryExecution(e)
    \/ \E r \in runs : RunStep(r)
    \/ \E h \in handlers : HandlerStep(h)
    \/ Crash

\* Node runs every promise that is ready, BullMQ takes every job it may, its
\* timers fire, and its stalled checker runs periodically.
Fairness ==
    \A e \in Executions :
        /\ WF_vars(EnqueueAction(e))
        /\ WF_vars(QueueStep(e))
        /\ WF_vars(\E r \in runs : r.exec = e /\ RunStep(r))
        /\ WF_vars(\E h \in handlers : h.exec = e /\ HandlerStep(h))

Spec == Init /\ [][Next]_vars
FairSpec == Spec /\ Fairness
-----------------------------------------------------------------------------
(* Properties of the code                                                  *)

RunsOf(e) == {r \in runs : r.exec = e}

\* However crashes, lost locks, failing statements and manual retries fall,
\* the target of a webhook receives a bounded number of requests per action:
\* every start is counted in Redis before the run begins, so only a stall, of
\* which BullMQ tolerates MaxStalled, adds a call to the configured attempts.
CallsBounded ==
    \A e \in Executions : Cardinality(calls[e]) <= MaxAttempts + MaxStalled

\* A FailedExecution row appears only for a job that BullMQ has given up and
\* that was started at least MaxAttempts times; no late run, manual retry or
\* recovered stall makes a dead letter of an action that still has a future.
DeadLetterExhausted ==
    \A e \in failed : job[e].state = "failed" /\ job[e].attempts >= MaxAttempts

\* FailedExecution.executionId is unique and the listener checks, then creates
\* in a later step: at most one listener ever records an execution, so the
\* constraint is never violated and one dead letter is written.
SoleRecorder ==
    /\ \A h1, h2 \in handlers : h1.exec = h2.exec => h1 = h2
    /\ \A h \in handlers : h.pc = "create" => h.exec \notin failed

\* PERMANENTLY_FAILED and the dead-letter job are written after the
\* FailedExecution row: wherever the listener is cut short, an operator who
\* sees either finds the row.
FinalFailureRecorded ==
    \A e \in Executions :
        exec[e].status = "PERMANENTLY_FAILED" \/ e \in dlq => e \in failed

\* A webhook action whose job BullMQ completed, or whose row says SUCCESS, was
\* answered by its target in some attempt.
SuccessWasAnswered ==
    \A e \in Webhooks :
        job[e].state = "completed" \/ exec[e].status = "SUCCESS" => answered[e] # {}

\* Every request that reached a target has a WebhookDelivery row, unless its
\* insert is next, failed, or was cut off by a crash.
AuditTrail ==
    spent["crash"] = 0 =>
        \A e \in Executions :
            LET due == {r.attempt : r \in {q \in RunsOf(e) :
                                             q.pc \in {"store", "storeError"}}} IN
            Cardinality((calls[e] \ deliveries[e]) \ due) <= spent["refused"]

\* The rule's successCount and failureCount never both count one attempt,
\* unless the reply to the first increment was lost.
OneOutcomePerAttempt ==
    \A e \in Executions :
        Cardinality(counted[e].success \cap counted[e].failure) <= spent["unacked"]

\* A run that holds its lock is the newest start of its action and no other
\* run can settle the job: verdicts of BullMQ are never stale.
LockHolderIsNewest ==
    \A r \in runs : HoldsLock(r) =>
        /\ job[r.exec].state = "active"
        /\ r.attempt = job[r.exec].attempts
        /\ \A q \in RunsOf(r.exec) : HoldsLock(q) => q = r

\* The inductive invariant behind the properties above.
AddingInv ==
    \A e \in Executions :
        /\ e \in adding => job[e].state = "none"
        /\ exec[e].status = "ABSENT" => job[e].state = "none" /\ e \notin adding

JobInv ==
    \A e \in Executions :
        /\ job[e].lock \in {0, job[e].attempts}
        /\ job[e].lock # 0 => job[e].state = "active"
        /\ job[e].attempts <= MaxAttempts + MaxStalled
        /\ job[e].state = "none" => job[e].attempts = 0
        /\ job[e].state = "active" => job[e].attempts <= MaxAttempts + job[e].stalled
        /\ job[e].state \in {"waiting", "delayed"} =>
              job[e].attempts < MaxAttempts + job[e].stalled
        /\ job[e].state \in {"waiting", "delayed", "active"} =>
              job[e].stalled <= MaxStalled
        /\ job[e].state \in {"active", "completed", "failed"} => job[e].attempts > 0
        /\ calls[e] \subseteq 1 .. job[e].attempts

RunInv ==
    /\ \A r \in runs : r.attempt \in 1 .. job[r.exec].attempts
    /\ \A r, q \in runs : r.exec = q.exec /\ r.attempt = q.attempt => r = q

HandlerInv ==
    \A h \in handlers :
        /\ job[h.exec].state = "failed"
        /\ job[h.exec].attempts >= MaxAttempts
        /\ h.pc \in {"update", "enqueue"} => h.exec \in failed

IInv ==
    /\ TypeOK /\ AddingInv /\ JobInv /\ RunInv /\ HandlerInv
    /\ SoleRecorder /\ DeadLetterExhausted /\ FinalFailureRecorded

\* A job that BullMQ completed or failed is never run or settled again.
TerminalJobStays ==
    [][\A e \in Executions :
         job[e].state \in {"completed", "failed"} => job'[e] = job[e]]_vars

\* Whatever happens, a job that was added is completed or failed in the end.
EnqueuedTerminates ==
    \A e \in Executions :
        job[e].state # "none" ~> job[e].state \in {"completed", "failed"}

\* Unless the process crashes, a lock is lost or an operator resets the row,
\* the rows agree in the end whatever statements of process() fail: SUCCESS,
\* or PERMANENTLY_FAILED with the FailedExecution row and the dead-letter job.
Disrupted == \E k \in {"crash", "lock", "retry"} : spent[k] > 0

Settled(e) ==
    \/ exec[e].status = "SUCCESS"
    \/ exec[e].status = "PERMANENTLY_FAILED" /\ e \in failed /\ e \in dlq

EveryActionSettles ==
    \A e \in Executions :
        job[e].state # "none" ~> [](Settled(e) \/ Disrupted)

\* The queue, its worker and its listener implement the abstract promise: the
\* job's state is the verdict and its attemptsMade the number of tries.
Phase(e) == CASE job[e].state = "none"      -> "absent"
              [] job[e].state = "completed" -> "delivered"
              [] job[e].state = "failed"    -> "dead"
              [] OTHER                      -> "open"

Promise == INSTANCE BoundedRetry WITH
    Actions  <- Executions,
    Enough   <- MaxAttempts,
    Limit    <- MaxAttempts + MaxStalled,
    phase    <- [e \in Executions |-> Phase(e)],
    tries    <- [e \in Executions |-> job[e].attempts],
    recorded <- failed

KeepsPromise == Promise!SafeSpec

-----------------------------------------------------------------------------
(* What the repository says and the code does not do (see README)          *)

\* executions.service.ts: "Execution queued for retry"; schema.prisma:
\* PENDING is "Waiting to be processed".
PendingIsProcessed ==
    \A e \in Executions :
        exec[e].status = "PENDING" /\ job[e].state # "none"
            ~> exec[e].status # "PENDING"
=============================================================================
