---------------------- MODULE ActionExecutionProofs ----------------------
(***************************************************************************)
(* Theorems about ActionExecution, for every set of executions, every      *)
(* Concurrency, MaxAttempts and MaxStalled, and every budget of faults.    *)
(***************************************************************************)
EXTENDS ActionExecution, FiniteSetTheorems, TLAPS

-----------------------------------------------------------------------------
(* Types *)

LEMMA InitType == Init => TypeOK
  BY DEF Init, TypeOK, Statuses, JobStates, Occurrences

LEMMA SpendType ==
  ASSUME TypeOK, NEW k \in Occurrences, Spend(k)
  PROVE  spent' \in [Occurrences -> Nat]
  BY DEF TypeOK, Spend

\* A job that is settled keeps its type.
LEMMA SettleType ==
  ASSUME TypeOK, NEW e \in Executions, NEW state \in JobStates, Settle(e, state)
  PROVE  job' \in [Executions -> [state : JobStates, attempts : Nat,
                                 stalled : Nat, lock : Nat]]
<1> DEFINE new == [state |-> state, attempts |-> job[e].attempts,
                   stalled |-> job[e].stalled, lock |-> 0]
<1>1. new \in [state : JobStates, attempts : Nat, stalled : Nat, lock : Nat]
  BY DEF TypeOK
<1>2. job' = [job EXCEPT ![e] = new]
  BY DEF Settle
<1> QED
  BY <1>1, <1>2 DEF TypeOK

LEMMA GotoType ==
  ASSUME TypeOK, NEW r \in runs, NEW pc \in RunPCs, Goto(r, pc)
  PROVE  runs' \subseteq Runs
  BY DEF TypeOK, Goto, Runs

LEMMA UpdateExecutionType ==
  ASSUME TypeOK, NEW r \in runs, NEW status \in Statuses, NEW count \in Nat,
         NEW next \in RunPCs, UpdateExecution(r, status, count, next)
  PROVE  TypeOK'
<1>1. r.exec \in Executions /\ OnError(r.pc) \in RunPCs
  BY DEF TypeOK, Runs, OnError, RunPCs
<1>2. exec' \in [Executions -> [status : Statuses, attemptCount : Nat]]
  BY <1>1 DEF UpdateExecution, TypeOK
<1>3. runs' \subseteq Runs
  BY <1>1, GotoType DEF UpdateExecution
<1>4. spent' \in [Occurrences -> Nat]
  BY SpendType DEF UpdateExecution, Occurrences, TypeOK
<1> QED
  BY <1>2, <1>3, <1>4 DEF TypeOK, UpdateExecution, redis, world

LEMMA UpdateRuleType ==
  ASSUME TypeOK, NEW r \in runs, NEW next \in RunPCs,
         NEW stats \in [success : SUBSET Nat, failure : SUBSET Nat],
         UpdateRule(r, stats, next)
  PROVE  TypeOK'
<1>1. r.exec \in Executions /\ OnError(r.pc) \in RunPCs
  BY DEF TypeOK, Runs, OnError, RunPCs
<1>2. counted' \in [Executions -> [success : SUBSET Nat, failure : SUBSET Nat]]
  BY <1>1 DEF UpdateRule, TypeOK
<1>3. runs' \subseteq Runs
  BY <1>1, GotoType DEF UpdateRule
<1>4. spent' \in [Occurrences -> Nat]
  BY SpendType DEF UpdateRule, Occurrences, TypeOK
<1> QED
  BY <1>2, <1>3, <1>4 DEF TypeOK, UpdateRule, redis, world

LEMMA RunStepType ==
  ASSUME TypeOK, NEW r \in runs, RunStep(r)
  PROVE  TypeOK'
<1>0. r \in Runs /\ r.exec \in Executions /\ r.attempt \in Nat /\ MaxAttempts \in Nat
  BY ConstantsAssumption DEF TypeOK, Runs
<1>1. CASE Begin(r)
  BY <1>1, UpdateExecutionType DEF Begin, Statuses, RunPCs
<1>2. CASE ActPlaceholder(r)
  <2>1. runs' \subseteq Runs
    BY <1>2, GotoType DEF ActPlaceholder, RunPCs
  <2> QED
    BY <1>2, <2>1 DEF ActPlaceholder, TypeOK, rows, redis, world
<1>3. CASE CallAnswered(r)
  <2>1. runs' \subseteq Runs
    BY <1>3, GotoType DEF CallAnswered, RunPCs
  <2> QED
    BY <1>0, <1>3, <2>1 DEF CallAnswered, TypeOK, rows, redis
<1>4. CASE CallUnanswered(r)
  <2>1. runs' \subseteq Runs
    BY <1>4, GotoType DEF CallUnanswered, RunPCs
  <2>2. calls' \in [Executions -> SUBSET Nat]
    <3>1. [calls EXCEPT ![r.exec] = @ \cup {r.attempt}] \in [Executions -> SUBSET Nat]
      BY <1>0 DEF TypeOK
    <3> QED
      BY <1>4, <3>1 DEF CallUnanswered, TypeOK
  <2> QED
    BY <1>4, <2>1, <2>2 DEF CallUnanswered, TypeOK, rows, redis
<1>5. CASE StoreDelivery(r)
  <2>1. runs' \subseteq Runs
    BY <1>5, GotoType DEF StoreDelivery, RunPCs
  <2>2. spent' \in [Occurrences -> Nat]
    BY <1>5, SpendType DEF StoreDelivery, Occurrences, TypeOK
  <2>3. deliveries' \in [Executions -> SUBSET Nat]
    <3>1. [deliveries EXCEPT ![r.exec] = @ \cup {r.attempt}]
            \in [Executions -> SUBSET Nat]
      BY <1>0 DEF TypeOK
    <3> QED
      BY <1>5, <3>1 DEF StoreDelivery, TypeOK
  <2> QED
    BY <1>5, <2>1, <2>2, <2>3 DEF StoreDelivery, TypeOK, redis, world
<1>6. CASE Succeed(r)
  <2>1. exec[r.exec].attemptCount \in Nat
    BY <1>0 DEF TypeOK
  <2> QED
    BY <1>6, <2>1, UpdateExecutionType DEF Succeed, Statuses, RunPCs
<1>7. CASE CountSuccess(r)
  <2>1. [counted[r.exec] EXCEPT !.success = @ \cup {r.attempt}]
          \in [success : SUBSET Nat, failure : SUBSET Nat]
    BY <1>0 DEF TypeOK
  <2> QED
    BY <1>7, <2>1, UpdateRuleType DEF CountSuccess, RunPCs
<1>8. CASE Fail(r)
  <2>1. exec[r.exec].attemptCount \in Nat
    BY <1>0 DEF TypeOK
  <2> QED
    BY <1>8, <2>1, UpdateExecutionType DEF Fail, Statuses, RunPCs
<1>9. CASE CountFailure(r)
  <2>1. [counted[r.exec] EXCEPT !.failure = @ \cup {r.attempt}]
          \in [success : SUBSET Nat, failure : SUBSET Nat]
    BY <1>0 DEF TypeOK
  <2> QED
    BY <1>9, <2>1, UpdateRuleType DEF CountFailure, RunPCs
<1>10. CASE Resolve(r)
  <2>1. job' \in [Executions -> [state : JobStates, attempts : Nat,
                                 stalled : Nat, lock : Nat]]
    <3>1. job' = job \/ Settle(r.exec, "completed")
      BY <1>10 DEF Resolve
    <3> QED
      BY <1>0, <3>1, SettleType DEF TypeOK, JobStates
  <2> QED
    BY <1>10, <2>1 DEF Resolve, TypeOK, rows, world
<1>11. CASE Reject(r)
  <2>0. \/ UNCHANGED job
        \/ Settle(r.exec, "delayed")
        \/ Settle(r.exec, "failed")
    BY <1>11 DEF Reject
  <2>1. job' \in [Executions -> [state : JobStates, attempts : Nat,
                                 stalled : Nat, lock : Nat]]
    BY <1>0, <2>0, SettleType DEF TypeOK, JobStates
  <2>2. handlers' \subseteq Handlers
    BY <1>0, <1>11 DEF Reject, OnActionJobFailed, TypeOK, Handlers, HandlerPCs
  <2> QED
    BY <1>11, <2>1, <2>2 DEF Reject, TypeOK, rows, world
<1> QED
  BY <1>1, <1>2, <1>3, <1>4, <1>5, <1>6, <1>7, <1>8, <1>9, <1>10, <1>11 DEF RunStep

LEMMA HandlerStepType ==
  ASSUME TypeOK, NEW h \in handlers, HandlerStep(h)
  PROVE  TypeOK'
<1>0. h \in Handlers /\ h.exec \in Executions
  BY DEF TypeOK, Handlers
<1>1. ASSUME NEW pc \in HandlerPCs, Continue(h, pc)
      PROVE  handlers' \subseteq Handlers
  BY <1>0, <1>1 DEF Continue, Handlers, TypeOK
<1>2. CASE FindExecution(h)
  BY <1>1, <1>2 DEF FindExecution, Return, TypeOK, HandlerPCs, rows, redis, world
<1>3. CASE FindFailed(h)
  BY <1>1, <1>3 DEF FindFailed, Return, TypeOK, HandlerPCs, rows, redis, world
<1>4. CASE CreateFailed(h)
  BY <1>0, <1>1, <1>4 DEF CreateFailed, TypeOK, HandlerPCs, redis, world
<1>5. CASE MarkPermanentlyFailed(h)
  <2>1. handlers' \subseteq Handlers
    BY <1>1, <1>5 DEF MarkPermanentlyFailed, HandlerPCs
  <2>2. exec' \in [Executions -> [status : Statuses, attemptCount : Nat]]
    BY <1>0, <1>5 DEF MarkPermanentlyFailed, TypeOK, Statuses
  <2> QED
    BY <1>5, <2>1, <2>2 DEF MarkPermanentlyFailed, TypeOK, redis, world
<1>6. CASE EnqueueDeadLetter(h)
  BY <1>0, <1>6 DEF EnqueueDeadLetter, Return, TypeOK, rows, world
<1> QED
  BY <1>2, <1>3, <1>4, <1>5, <1>6 DEF HandlerStep

LEMMA QueueStepType ==
  ASSUME TypeOK, NEW e \in Executions, QueueStep(e) \/ LoseLock(e)
  PROVE  TypeOK'
<1> DEFINE Jobs == [state : JobStates, attempts : Nat, stalled : Nat, lock : Nat]
<1>0. job[e] \in Jobs /\ MaxAttempts \in Nat /\ MaxStalled \in Nat
  BY ConstantsAssumption DEF TypeOK
<1>1. ASSUME NEW state \in JobStates, Settle(e, state)
      PROVE  job' \in [Executions -> Jobs]
  BY <1>0, <1>1 DEF Settle, TypeOK
<1>2. CASE Start(e)
  <2>1. job' \in [Executions -> Jobs]
    BY <1>0, <1>2 DEF Start, TypeOK, JobStates
  <2>2. runs' \subseteq Runs
    BY <1>0, <1>2 DEF Start, TypeOK, Runs, RunPCs
  <2> QED
    BY <1>2, <2>1, <2>2 DEF Start, TypeOK, rows, world
<1>3. CASE Promote(e)
  BY <1>1, <1>3 DEF Promote, TypeOK, JobStates, rows, world
<1>4. CASE RecoverStalled(e)
  <2>1. job' \in [Executions -> Jobs]
    BY <1>0, <1>4 DEF RecoverStalled, TypeOK, JobStates
  <2>2. handlers' \subseteq Handlers
    BY <1>0, <1>4 DEF RecoverStalled, OnActionJobFailed, TypeOK, Handlers, HandlerPCs
  <2> QED
    BY <1>4, <2>1, <2>2 DEF RecoverStalled, TypeOK, rows, world
<1>5. CASE LoseLock(e)
  <2>1. spent' \in [Occurrences -> Nat]
    BY <1>5, SpendType DEF LoseLock, Occurrences
  <2> QED
    BY <1>1, <1>5, <2>1 DEF LoseLock, TypeOK, JobStates, rows, world
<1> QED
  BY <1>2, <1>3, <1>4, <1>5 DEF QueueStep

LEMMA NextType == TypeOK /\ [Next]_vars => TypeOK'
<1> SUFFICES ASSUME TypeOK, [Next]_vars PROVE TypeOK'
  OBVIOUS
<1>1. CASE UNCHANGED vars
  BY <1>1 DEF vars, TypeOK
<1>2. ASSUME NEW e \in Executions, CreateExecution(e)
      PROVE  TypeOK'
  <2>1. exec' \in [Executions -> [status : Statuses, attemptCount : Nat]]
    BY <1>2 DEF CreateExecution, TypeOK, Statuses
  <2> QED
    BY <1>2, <2>1 DEF CreateExecution, TypeOK, redis, world
<1>3. ASSUME NEW e \in Executions, EnqueueAction(e)
      PROVE  TypeOK'
  <2>1. job' \in [Executions -> [state : JobStates, attempts : Nat,
                                 stalled : Nat, lock : Nat]]
    <3>1. \/ job' = job
          \/ job' = [job EXCEPT ![e] = [state |-> "waiting", attempts |-> 0,
                                       stalled |-> 0, lock |-> 0]]
      BY <1>3 DEF EnqueueAction
    <3>2. [state |-> "waiting", attempts |-> 0, stalled |-> 0, lock |-> 0]
             \in [state : JobStates, attempts : Nat, stalled : Nat, lock : Nat]
      BY DEF JobStates
    <3> QED
      BY <3>1, <3>2 DEF TypeOK
  <2>2. spent' \in [Occurrences -> Nat]
    BY <1>3, SpendType DEF EnqueueAction, Occurrences, TypeOK
  <2> QED
    BY <1>3, <2>1, <2>2 DEF EnqueueAction, TypeOK, rows, world
<1>4. ASSUME NEW e \in Executions, RetryExecution(e)
      PROVE  TypeOK'
  <2>1. exec' \in [Executions -> [status : Statuses, attemptCount : Nat]]
    BY <1>4 DEF RetryExecution, TypeOK, Statuses
  <2>2. spent' \in [Occurrences -> Nat]
    BY <1>4, SpendType DEF RetryExecution, Occurrences
  <2> QED
    BY <1>4, <2>1, <2>2 DEF RetryExecution, TypeOK, redis, world
<1>5. CASE Crash
  <2>1. spent' \in [Occurrences -> Nat]
    BY <1>5, SpendType DEF Crash, Occurrences
  <2>2. job' \in [Executions -> [state : JobStates, attempts : Nat,
                                 stalled : Nat, lock : Nat]]
    BY <1>5 DEF Crash, TypeOK
  <2> QED
    BY <1>5, <2>1, <2>2 DEF Crash, TypeOK, rows, world
<1> QED
  BY <1>1, <1>2, <1>3, <1>4, <1>5, RunStepType, HandlerStepType, QueueStepType
  DEF Next

\* Every variable keeps its type.
THEOREM TypeCorrect == Spec => []TypeOK
  BY InitType, NextType, PTL DEF Spec

-----------------------------------------------------------------------------
(* The inductive invariant *)

Parts == /\ AddingInv /\ JobInv /\ RunInv /\ HandlerInv
         /\ SoleRecorder /\ DeadLetterExhausted /\ FinalFailureRecorded

LEMMA InitInv == Init => IInv
<1> SUFFICES ASSUME Init PROVE IInv
  OBVIOUS
<1>1. TypeOK
  BY InitType
<1>2. AddingInv /\ RunInv /\ HandlerInv
  BY DEF Init, AddingInv, RunInv, HandlerInv
<1>3. JobInv
  BY ConstantsAssumption DEF Init, JobInv
<1>4. SoleRecorder /\ DeadLetterExhausted /\ FinalFailureRecorded
  BY DEF Init, SoleRecorder, DeadLetterExhausted, FinalFailureRecorded
<1> QED
  BY <1>1, <1>2, <1>3, <1>4 DEF IInv

\* What the invariant says of a run and of the job whose lock it may hold.
LEMMA RunFacts ==
  ASSUME IInv, NEW r \in runs
  PROVE  /\ r.exec \in Executions
         /\ r.attempt \in Nat /\ r.attempt > 0
         /\ r.attempt <= job[r.exec].attempts
         /\ job[r.exec].attempts \in Nat /\ job[r.exec].stalled \in Nat
         /\ HoldsLock(r) => /\ job[r.exec].state = "active"
                            /\ job[r.exec].attempts = r.attempt
<1>1. r.exec \in Executions /\ r.attempt \in Nat
  BY DEF IInv, TypeOK, Runs
<1>2. job[r.exec].attempts \in Nat /\ job[r.exec].stalled \in Nat /\ job[r.exec].lock \in Nat
  BY <1>1 DEF IInv, TypeOK
<1>3. r.attempt \in 1 .. job[r.exec].attempts
  BY DEF IInv, RunInv
<1> QED
  BY <1>1, <1>2, <1>3 DEF IInv, JobInv, HoldsLock

\* The runs of process() may move on, or end, without disturbing each other.
LEMMA RunsMove ==
  ASSUME IInv, NEW r \in runs, NEW pc \in RunPCs,
         Goto(r, pc) \/ runs' = runs \ {r},
         \A e \in Executions : job'[e].attempts = job[e].attempts
  PROVE  RunInv'
<1> DEFINE moved == [r EXCEPT !.pc = pc]
<1>1. /\ r \in Runs /\ moved.exec = r.exec /\ moved.attempt = r.attempt
      /\ \A q \in runs : q.exec \in Executions
  BY DEF IInv, TypeOK, Runs
<1>2. \A q \in runs' : q = moved \/ (q \in runs /\ q # r)
  BY DEF Goto
<1>3. \A q \in runs' : q.attempt \in 1 .. job'[q.exec].attempts
  <2>1. ASSUME NEW q \in runs
        PROVE  q.attempt \in 1 .. job'[q.exec].attempts
    <3>1. q.exec \in Executions /\ job'[q.exec].attempts = job[q.exec].attempts
      BY <1>1
    <3> QED
      BY <3>1 DEF IInv, RunInv
  <2> QED
    BY <1>1, <1>2, <2>1
<1>4. ASSUME NEW q \in runs', NEW p \in runs', q.exec = p.exec, q.attempt = p.attempt
      PROVE  q = p
  <2>0. \A o, n \in runs : o.exec = n.exec /\ o.attempt = n.attempt => o = n
    BY DEF IInv, RunInv
  <2> HIDE DEF moved
  <2>1. CASE q = moved /\ p = moved
    BY <2>1
  <2>2. CASE q = moved /\ p \in runs /\ p # r
    BY <1>1, <1>4, <2>0, <2>2
  <2>3. CASE p = moved /\ q \in runs /\ q # r
    BY <1>1, <1>4, <2>0, <2>3
  <2>4. CASE q \in runs /\ p \in runs
    BY <1>4, <2>0, <2>4
  <2> QED
    BY <1>2, <2>1, <2>2, <2>3, <2>4
<1> QED
  BY <1>3, <1>4 DEF RunInv

\* The statements of process() before it settles.
LEMMA QuietStep ==
  ASSUME IInv, NEW r \in runs, NEW pc \in RunPCs, Goto(r, pc),
         UNCHANGED <<adding, job, handlers, failed, dlq>>,
         \A e \in Executions :
            /\ \/ exec'[e].status = exec[e].status
               \/ exec'[e].status \in {"PROCESSING", "SUCCESS", "FAILED"}
            /\ calls'[e] \subseteq calls[e] \cup (IF e = r.exec THEN {r.attempt} ELSE {})
  PROVE  Parts'
<1>1. AddingInv'
  BY DEF IInv, AddingInv
<1>2. JobInv'
  <2> SUFFICES ASSUME NEW e \in Executions PROVE calls'[e] \subseteq 1 .. job[e].attempts
    BY DEF IInv, JobInv
  <2>1. calls[e] \subseteq 1 .. job[e].attempts
    BY DEF IInv, JobInv
  <2>2. r.attempt \in 1 .. job[r.exec].attempts
    BY DEF IInv, RunInv
  <2> QED
    BY <2>1, <2>2
<1>3. RunInv'
  BY RunsMove
<1>4. HandlerInv'
  BY DEF IInv, HandlerInv
<1>5. SoleRecorder' /\ DeadLetterExhausted'
  BY DEF IInv, SoleRecorder, DeadLetterExhausted
<1>6. FinalFailureRecorded'
  BY DEF IInv, FinalFailureRecorded
<1> QED
  BY <1>1, <1>2, <1>3, <1>4, <1>5, <1>6 DEF Parts

LEMMA UpdateExecutionInv ==
  ASSUME IInv, NEW r \in runs, NEW status \in {"PROCESSING", "SUCCESS", "FAILED"},
         NEW count, NEW next \in RunPCs, UpdateExecution(r, status, count, next)
  PROVE  Parts'
<1>1. OnError(r.pc) \in RunPCs
  BY DEF OnError, RunPCs
<1>2. \E pc \in RunPCs : Goto(r, pc)
  BY <1>1 DEF UpdateExecution
<1>3. ASSUME NEW e \in Executions
      PROVE  \/ exec'[e].status = exec[e].status
             \/ exec'[e].status \in {"PROCESSING", "SUCCESS", "FAILED"}
  BY <1>3 DEF UpdateExecution, IInv, TypeOK
<1>4. calls' = calls /\ UNCHANGED <<adding, job, handlers, failed, dlq>>
  BY DEF UpdateExecution, redis, world
<1> QED
  BY <1>2, <1>3, <1>4, QuietStep

LEMMA UpdateRuleInv ==
  ASSUME IInv, NEW r \in runs, NEW stats, NEW next \in RunPCs,
         UpdateRule(r, stats, next)
  PROVE  Parts'
<1>1. OnError(r.pc) \in RunPCs
  BY DEF OnError, RunPCs
<1>2. \E pc \in RunPCs : Goto(r, pc)
  BY <1>1 DEF UpdateRule
<1>3. exec' = exec /\ calls' = calls /\ UNCHANGED <<adding, job, handlers, failed, dlq>>
  BY DEF UpdateRule, redis, world
<1> QED
  BY <1>2, <1>3, QuietStep

\* A step that takes the live job of e to another record, and calls the
\* listener when that record is failed.
LEMMA JobStep ==
  ASSUME IInv, NEW e \in Executions,
         job[e].state \in {"active", "waiting", "delayed"},
         \A d \in Executions : d # e => job'[d] = job[d],
         job'[e].attempts \in Nat, job'[e].state # "none",
         handlers' # handlers =>
            job'[e].state = "failed" /\ OnActionJobFailed(e, job'[e].attempts),
         exec' = exec, adding' = adding, failed' = failed, dlq' = dlq
  PROVE  AddingInv' /\ HandlerInv' /\ SoleRecorder'
         /\ DeadLetterExhausted' /\ FinalFailureRecorded'
<1>0. /\ \A h \in handlers : h.exec \in Executions /\ h.exec # e
      /\ failed \subseteq Executions /\ e \notin failed
  BY DEF IInv, TypeOK, Handlers, HandlerInv, DeadLetterExhausted
<1>1. AddingInv'
  BY <1>0 DEF IInv, AddingInv
<1>2. \A h \in handlers' : \/ h \in handlers
                           \/ /\ h = [exec |-> e, attempt |-> job'[e].attempts, pc |-> "find"]
                              /\ job'[e].state = "failed" /\ ~(job'[e].attempts < MaxAttempts)
  BY DEF OnActionJobFailed
<1>3. HandlerInv'
  <2> SUFFICES ASSUME NEW h \in handlers'
               PROVE  /\ job'[h.exec].state = "failed"
                      /\ job'[h.exec].attempts >= MaxAttempts
                      /\ h.pc \in {"update", "enqueue"} => h.exec \in failed'
    BY DEF HandlerInv
  <2>1. CASE h \in handlers
    BY <1>0, <2>1 DEF IInv, HandlerInv
  <2>2. CASE h \notin handlers
    BY <1>0, <1>2, <2>2, ConstantsAssumption
  <2> QED
    BY <2>1, <2>2
<1>4. SoleRecorder'
  <2>1. \A h1, h2 \in handlers' : h1.exec = h2.exec => h1 = h2
    BY <1>0, <1>2 DEF IInv, SoleRecorder
  <2>2. \A h \in handlers' : h.pc = "create" => h.exec \notin failed'
    BY <1>2 DEF IInv, SoleRecorder
  <2> QED
    BY <2>1, <2>2 DEF SoleRecorder
<1>5. DeadLetterExhausted' /\ FinalFailureRecorded'
  BY <1>0 DEF IInv, DeadLetterExhausted, FinalFailureRecorded
<1> QED
  BY <1>1, <1>3, <1>4, <1>5

LEMMA ResolveInv ==
  ASSUME IInv, NEW r \in runs, Resolve(r)
  PROVE  Parts'
<1> DEFINE e == r.exec
           new == [state |-> "completed", attempts |-> job[e].attempts,
                   stalled |-> job[e].stalled, lock |-> 0]
<1>0. e \in Executions /\ job[e].attempts \in Nat /\ job[e].stalled \in Nat
  BY RunFacts
<1>1. CASE HoldsLock(r)
  <2>1. job' = [job EXCEPT ![e] = new] /\ job[e].state = "active"
    BY <1>1, RunFacts DEF Resolve, Settle
  <2>2. \A d \in Executions : job'[d] = IF d = e THEN new ELSE job[d]
    BY <2>1 DEF IInv, TypeOK
  <2>3. JobInv'
    BY <2>1, <2>2, <1>0 DEF IInv, JobInv, Resolve, world
  <2>4. RunInv'
    BY <2>2, RunsMove DEF Resolve, RunPCs
  <2>5. exec' = exec /\ adding' = adding /\ failed' = failed /\ dlq' = dlq /\ handlers' = handlers
    BY DEF Resolve, rows
  <2>6. AddingInv' /\ HandlerInv' /\ SoleRecorder' /\ DeadLetterExhausted' /\ FinalFailureRecorded'
    BY <1>0, <2>1, <2>2, <2>5, JobStep
  <2> QED
    BY <2>3, <2>4, <2>6 DEF Parts
<1>2. CASE ~HoldsLock(r)
  <2>1. job' = job /\ UNCHANGED <<exec, adding, failed, dlq, handlers, calls>>
    BY <1>2 DEF Resolve, rows, world
  <2>2. RunInv'
    BY <2>1, RunsMove DEF Resolve, RunPCs
  <2> QED
    BY <2>1, <2>2 DEF Parts, IInv, AddingInv, JobInv, HandlerInv, SoleRecorder,
                      DeadLetterExhausted, FinalFailureRecorded
<1> QED
  BY <1>1, <1>2

LEMMA RejectInv ==
  ASSUME IInv, NEW r \in runs, Reject(r)
  PROVE  Parts'
<1> DEFINE e == r.exec
           state == IF r.attempt < MaxAttempts THEN "delayed" ELSE "failed"
           new == [state |-> state, attempts |-> job[e].attempts,
                   stalled |-> job[e].stalled, lock |-> 0]
<1>0. /\ e \in Executions /\ job[e].attempts \in Nat /\ job[e].stalled \in Nat
      /\ MaxAttempts \in Nat /\ MaxStalled \in Nat /\ r.attempt \in Nat
  BY RunFacts, ConstantsAssumption
<1>1. CASE HoldsLock(r)
  <2>1. /\ job' = [job EXCEPT ![e] = new] /\ job[e].state = "active"
        /\ job[e].attempts = r.attempt
        /\ OnActionJobFailed(e, new.attempts)
    BY <1>1, RunFacts DEF Reject, Settle
  <2>2. \A d \in Executions : job'[d] = IF d = e THEN new ELSE job[d]
    BY <2>1 DEF IInv, TypeOK
  <2>3. JobInv'
    <3>1. calls' = calls
      BY DEF Reject, world
    <3>2. /\ job[e].attempts <= MaxAttempts + MaxStalled
          /\ job[e].stalled <= MaxStalled
          /\ job[e].attempts > 0
      BY <1>0, <2>1 DEF IInv, JobInv
    <3>3. r.attempt < MaxAttempts => job[e].attempts < MaxAttempts + job[e].stalled
      BY <1>0, <2>1
    <3>4. /\ new.state \in {"delayed", "failed"} /\ new.lock = 0
          /\ new.attempts = job[e].attempts /\ new.stalled = job[e].stalled
          /\ new.state = "delayed" => r.attempt < MaxAttempts
      OBVIOUS
    <3> HIDE DEF new
    <3> QED
      BY <1>0, <2>2, <3>1, <3>2, <3>3, <3>4 DEF IInv, JobInv
  <2>4. RunInv'
    BY <2>2, RunsMove DEF Reject, RunPCs
  <2>5. exec' = exec /\ adding' = adding /\ failed' = failed /\ dlq' = dlq
    BY DEF Reject, rows
  <2>6. handlers' # handlers =>
           job'[e].state = "failed" /\ OnActionJobFailed(e, job'[e].attempts)
    BY <1>0, <2>1, <2>2 DEF OnActionJobFailed
  <2>7. AddingInv' /\ HandlerInv' /\ SoleRecorder' /\ DeadLetterExhausted' /\ FinalFailureRecorded'
    BY <1>0, <2>1, <2>2, <2>5, <2>6, JobStep
  <2> QED
    BY <2>3, <2>4, <2>7 DEF Parts
<1>2. CASE ~HoldsLock(r)
  <2>1. job' = job /\ UNCHANGED <<exec, adding, failed, dlq, handlers, calls>>
    BY <1>2 DEF Reject, rows, world
  <2>2. RunInv'
    BY <2>1, RunsMove DEF Reject, RunPCs
  <2> QED
    BY <2>1, <2>2 DEF Parts, IInv, AddingInv, JobInv, HandlerInv, SoleRecorder,
                      DeadLetterExhausted, FinalFailureRecorded
<1> QED
  BY <1>1, <1>2

LEMMA RunStepInv ==
  ASSUME IInv, NEW r \in runs, RunStep(r)
  PROVE  Parts'
<1>1. CASE Begin(r)
  BY <1>1, UpdateExecutionInv DEF Begin, RunPCs
<1>2. CASE Succeed(r)
  BY <1>2, UpdateExecutionInv DEF Succeed, RunPCs
<1>3. CASE Fail(r)
  BY <1>3, UpdateExecutionInv DEF Fail, RunPCs
<1>4. CASE CountSuccess(r)
  BY <1>4, UpdateRuleInv DEF CountSuccess, RunPCs
<1>5. CASE CountFailure(r)
  BY <1>5, UpdateRuleInv DEF CountFailure, RunPCs
<1>6. CASE ActPlaceholder(r) \/ StoreDelivery(r) \/ CallAnswered(r) \/ CallUnanswered(r)
  <2>1. \E pc \in RunPCs : Goto(r, pc)
    BY <1>6 DEF ActPlaceholder, StoreDelivery, CallAnswered, CallUnanswered, RunPCs
  <2>2. exec' = exec /\ UNCHANGED <<adding, job, handlers, failed, dlq>>
    BY <1>6 DEF ActPlaceholder, StoreDelivery, CallAnswered, CallUnanswered, rows, redis
  <2>3. calls' = calls \/ calls' = [calls EXCEPT ![r.exec] = @ \cup {r.attempt}]
    BY <1>6 DEF ActPlaceholder, StoreDelivery, CallAnswered, CallUnanswered, world
  <2>4. \A e \in Executions :
           calls'[e] \subseteq calls[e] \cup (IF e = r.exec THEN {r.attempt} ELSE {})
    <3> SUFFICES ASSUME NEW e \in Executions
                 PROVE  calls'[e] \subseteq
                          calls[e] \cup (IF e = r.exec THEN {r.attempt} ELSE {})
      OBVIOUS
    <3>1. calls \in [Executions -> SUBSET Nat]
      BY DEF IInv, TypeOK
    <3>2. CASE e = r.exec
      BY <2>3, <3>1, <3>2
    <3>3. CASE e # r.exec
      BY <2>3, <3>1, <3>3
    <3> QED
      BY <3>2, <3>3
  <2> QED
    BY <2>1, <2>2, <2>4, QuietStep
<1> QED
  BY <1>1, <1>2, <1>3, <1>4, <1>5, <1>6, ResolveInv, RejectInv DEF RunStep

LEMMA HandlerStepInv ==
  ASSUME IInv, NEW h \in handlers, HandlerStep(h)
  PROVE  Parts'
<1>0. /\ h \in Handlers /\ h.exec \in Executions
      /\ job[h.exec].state = "failed" /\ job[h.exec].attempts >= MaxAttempts
      /\ \A g \in handlers : g.exec = h.exec => g = h
  BY DEF IInv, TypeOK, Handlers, HandlerInv, SoleRecorder
<1>1. adding' = adding /\ job' = job /\ runs' = runs /\ calls' = calls
  BY DEF HandlerStep, FindExecution, FindFailed, CreateFailed, MarkPermanentlyFailed,
         EnqueueDeadLetter, redis, world
<1>2. AddingInv' /\ JobInv' /\ RunInv'
  <2>1. \/ exec' = exec
        \/ exec' = [exec EXCEPT ![h.exec] =
                      [status |-> "PERMANENTLY_FAILED",
                       attemptCount |-> exec[h.exec].attemptCount]]
    BY DEF HandlerStep, FindExecution, FindFailed, CreateFailed,
           MarkPermanentlyFailed, EnqueueDeadLetter, rows
  <2>2. ASSUME NEW e \in Executions, exec'[e].status = "ABSENT"
        PROVE  exec[e].status = "ABSENT"
    <3>1. exec \in [Executions -> [status : Statuses, attemptCount : Nat]]
      BY DEF IInv, TypeOK
    <3> QED
      BY <1>0, <2>1, <2>2, <3>1
  <2> QED
    BY <1>1, <2>2 DEF IInv, AddingInv, JobInv, RunInv
<1>3. /\ failed \subseteq failed'
      /\ failed' \subseteq failed \cup {h.exec}
      /\ h.pc # "create" => failed' = failed
  BY DEF HandlerStep, FindExecution, FindFailed, CreateFailed, MarkPermanentlyFailed,
         EnqueueDeadLetter, rows
<1>4. DeadLetterExhausted'
  BY <1>0, <1>1, <1>3 DEF IInv, DeadLetterExhausted
<1>5. /\ \A g \in handlers' : g.exec # h.exec => g \in handlers
      /\ \A g \in handlers' : g.exec = h.exec =>
            /\ g.pc = "create" => h.exec \notin failed'
            /\ g.pc \in {"update", "enqueue"} => h.exec \in failed'
      /\ \A g1, g2 \in handlers' : g1.exec = h.exec /\ g2.exec = h.exec => g1 = g2
  <2> DEFINE Ready(pc) == /\ pc = "create" => h.exec \notin failed'
                          /\ pc \in {"update", "enqueue"} => h.exec \in failed'
  <2>1. ASSUME NEW pc \in HandlerPCs
        PROVE  [h EXCEPT !.pc = pc].exec = h.exec /\ [h EXCEPT !.pc = pc].pc = pc
    BY <1>0 DEF Handlers
  <2>2. \/ Return(h)
        \/ \E pc \in HandlerPCs : Continue(h, pc) /\ Ready(pc)
    <3>1. CASE FindExecution(h)
      BY <3>1 DEF FindExecution, HandlerPCs
    <3>2. CASE FindFailed(h)
      BY <3>2 DEF FindFailed, HandlerPCs, rows
    <3>3. CASE CreateFailed(h)
      BY <3>3 DEF CreateFailed, HandlerPCs
    <3>4. CASE MarkPermanentlyFailed(h)
      BY <3>4 DEF MarkPermanentlyFailed, HandlerPCs, IInv, HandlerInv
    <3>5. CASE EnqueueDeadLetter(h)
      BY <3>5 DEF EnqueueDeadLetter
    <3> QED
      BY <3>1, <3>2, <3>3, <3>4, <3>5 DEF HandlerStep
  <2>3. CASE Return(h)
    <3>1. \A g \in handlers' : g \in handlers /\ g.exec # h.exec
      BY <1>0, <2>3 DEF Return
    <3> QED
      BY <3>1
  <2>4. CASE \E pc \in HandlerPCs : Continue(h, pc) /\ Ready(pc)
    <3>1. PICK pc \in HandlerPCs : Continue(h, pc) /\ Ready(pc)
      BY <2>4
    <3>2. \A g \in handlers' : \/ g \in handlers /\ g.exec # h.exec
                              \/ g = [h EXCEPT !.pc = pc]
      BY <1>0, <3>1 DEF Continue
    <3> QED
      BY <2>1, <3>1, <3>2
  <2> QED
    BY <2>2, <2>3, <2>4
<1>6. HandlerInv'
  BY <1>0, <1>1, <1>3, <1>5 DEF IInv, HandlerInv
<1>7. SoleRecorder'
  <2>1. \A g1, g2 \in handlers' : g1.exec = g2.exec => g1 = g2
    BY <1>5 DEF IInv, SoleRecorder
  <2>2. \A g \in handlers' : g.pc = "create" => g.exec \notin failed'
    BY <1>3, <1>5 DEF IInv, SoleRecorder
  <2> QED
    BY <2>1, <2>2 DEF SoleRecorder
<1>8. FinalFailureRecorded'
  <2>1. \A e \in Executions : exec'[e].status = "PERMANENTLY_FAILED" =>
           exec[e].status = "PERMANENTLY_FAILED" \/ (e = h.exec /\ h.pc = "update")
    BY <1>0 DEF HandlerStep, FindExecution, FindFailed, CreateFailed,
                MarkPermanentlyFailed, EnqueueDeadLetter, rows, IInv, TypeOK
  <2>2. \A e \in dlq' : e \in dlq \/ (e = h.exec /\ h.pc = "enqueue")
    BY DEF HandlerStep, FindExecution, FindFailed, CreateFailed,
           MarkPermanentlyFailed, EnqueueDeadLetter, redis
  <2>3. h.pc \in {"update", "enqueue"} => h.exec \in failed
    BY DEF IInv, HandlerInv
  <2> QED
    BY <1>3, <2>1, <2>2, <2>3 DEF IInv, FinalFailureRecorded
<1> QED
  BY <1>2, <1>4, <1>6, <1>7, <1>8 DEF Parts

LEMMA QueueStepInv ==
  ASSUME IInv, NEW e \in Executions, QueueStep(e) \/ LoseLock(e)
  PROVE  Parts'
<1>0. /\ job[e].attempts \in Nat /\ job[e].stalled \in Nat /\ job[e].lock \in Nat
      /\ MaxAttempts \in Nat /\ MaxStalled \in Nat
      /\ \A r \in runs : r.exec \in Executions /\ r.attempt \in Nat
      /\ job \in [Executions -> [state : JobStates, attempts : Nat,
                                 stalled : Nat, lock : Nat]]
  BY ConstantsAssumption DEF IInv, TypeOK, Runs
<1>1. /\ job[e].state \in {"active", "waiting", "delayed"}
      /\ \A d \in Executions : d # e => job'[d] = job[d]
      /\ job'[e].attempts \in Nat /\ job'[e].attempts >= job[e].attempts
      /\ job'[e].state \in {"active", "waiting", "failed"}
  <2>1. CASE Start(e)
    BY <1>0, <2>1 DEF Start
  <2>2. CASE Promote(e) \/ LoseLock(e)
    BY <1>0, <2>2 DEF Promote, LoseLock, Settle
  <2>3. CASE RecoverStalled(e)
    BY <1>0, <2>3 DEF RecoverStalled
  <2> QED
    BY <2>1, <2>2, <2>3 DEF QueueStep
<1>2. /\ exec' = exec /\ adding' = adding /\ failed' = failed /\ dlq' = dlq
      /\ calls' = calls
  BY DEF QueueStep, Start, Promote, RecoverStalled, LoseLock, rows, world
<1>3. handlers' # handlers =>
         job'[e].state = "failed" /\ OnActionJobFailed(e, job'[e].attempts)
  <2>1. CASE RecoverStalled(e)
    BY <1>0, <2>1 DEF RecoverStalled
  <2>2. CASE ~RecoverStalled(e)
    BY <2>2 DEF QueueStep, Start, Promote, LoseLock
  <2> QED
    BY <2>1, <2>2
<1>4. AddingInv' /\ HandlerInv' /\ SoleRecorder' /\ DeadLetterExhausted' /\ FinalFailureRecorded'
  BY <1>1, <1>2, <1>3, JobStep
<1>5. JobInv'
  <2>1. calls[e] \subseteq 1 .. job[e].attempts
    BY DEF IInv, JobInv
  <2>2. CASE Start(e)
    <3>1. job'[e] = [state |-> "active", attempts |-> job[e].attempts + 1,
                     stalled |-> job[e].stalled, lock |-> job[e].attempts + 1]
      BY <1>0, <2>2 DEF Start
    <3>2. job[e].state = "waiting"
      BY <2>2 DEF Start
    <3>3. calls[e] \subseteq 1 .. job[e].attempts + 1
      BY <1>0, <2>1
    <3> QED
      BY <1>0, <1>1, <1>2, <3>1, <3>2, <3>3 DEF IInv, JobInv
  <2>3. CASE Promote(e)
    <3>1. /\ job'[e] = [state |-> "waiting", attempts |-> job[e].attempts,
                        stalled |-> job[e].stalled, lock |-> 0]
          /\ job[e].state = "delayed"
      BY <1>0, <2>3 DEF Promote, Settle
    <3> QED
      BY <1>0, <1>1, <1>2, <3>1 DEF IInv, JobInv
  <2>4. CASE LoseLock(e)
    <3>1. /\ job'[e] = [state |-> "active", attempts |-> job[e].attempts,
                        stalled |-> job[e].stalled, lock |-> 0]
          /\ job[e].state = "active"
      BY <1>0, <2>4 DEF LoseLock, Settle
    <3> QED
      BY <1>0, <1>1, <1>2, <3>1 DEF IInv, JobInv
  <2>5. CASE RecoverStalled(e)
    <3>1. /\ job'[e].attempts = job[e].attempts
          /\ job'[e].stalled = job[e].stalled + 1
          /\ job'[e].lock = 0
          /\ job'[e].state = IF job[e].stalled + 1 > MaxStalled THEN "failed" ELSE "waiting"
          /\ job[e].state = "active"
      BY <1>0, <2>5 DEF RecoverStalled
    <3> QED
      BY <1>0, <1>1, <1>2, <3>1 DEF IInv, JobInv
  <2> QED
    BY <2>2, <2>3, <2>4, <2>5 DEF QueueStep
<1>6. RunInv'
  <2>1. CASE Start(e)
    <3> DEFINE new == [exec |-> e, attempt |-> job[e].attempts + 1, pc |-> "begin"]
    <3>1. runs' = runs \cup {new} /\ job'[e].attempts = job[e].attempts + 1
      BY <1>0, <2>1 DEF Start
    <3>2. \A r \in runs : r.exec = e => r.attempt < new.attempt
      BY <1>0 DEF IInv, RunInv
    <3>3. \A r \in runs' : r.attempt \in 1 .. job'[r.exec].attempts
      <4> SUFFICES ASSUME NEW r \in runs' PROVE r.attempt \in 1 .. job'[r.exec].attempts
        OBVIOUS
      <4>1. CASE r \in runs /\ r.exec = e
        BY <1>0, <3>1, <4>1 DEF IInv, RunInv
      <4>2. CASE r \in runs /\ r.exec # e
        BY <1>0, <1>1, <4>2 DEF IInv, RunInv
      <4>3. CASE r \notin runs
        BY <1>0, <3>1, <4>3
      <4> QED
        BY <4>1, <4>2, <4>3
    <3>4. \A r, q \in runs' : r.exec = q.exec /\ r.attempt = q.attempt => r = q
      BY <1>0, <3>1, <3>2 DEF IInv, RunInv
    <3> QED
      BY <3>3, <3>4 DEF RunInv
  <2>2. CASE ~Start(e)
    <3>1. runs' = runs /\ job'[e].attempts = job[e].attempts
      BY <1>0, <2>2 DEF QueueStep, Promote, RecoverStalled, LoseLock, Settle
    <3>2. \A r \in runs : job'[r.exec].attempts = job[r.exec].attempts
      BY <1>0, <1>1, <3>1
    <3> QED
      BY <3>1, <3>2 DEF IInv, RunInv
  <2> QED
    BY <2>1, <2>2
<1> QED
  BY <1>4, <1>5, <1>6 DEF Parts

\* A crash leaves the jobs of Redis alone, but for their locks.
LEMMA CrashJobs ==
  ASSUME Crash, NEW e \in Executions
  PROVE  /\ job'[e].state = job[e].state /\ job'[e].attempts = job[e].attempts
         /\ job'[e].stalled = job[e].stalled /\ job'[e].lock = 0
<1>1. job'[e] = [state |-> job[e].state, attempts |-> job[e].attempts,
                 stalled |-> job[e].stalled, lock |-> 0]
  BY DEF Crash
<1> QED
  BY <1>1

LEMMA NextInv == IInv /\ [Next]_vars => IInv'
<1> SUFFICES ASSUME IInv, [Next]_vars PROVE Parts'
  BY NextType DEF IInv, Parts
<1>1. CASE UNCHANGED vars
  BY <1>1 DEF vars, Parts, IInv, AddingInv, JobInv, RunInv, HandlerInv, SoleRecorder,
              DeadLetterExhausted, FinalFailureRecorded
<1>2. ASSUME NEW e \in Executions, CreateExecution(e)
      PROVE  Parts'
  <2>1. job' = job /\ runs' = runs /\ handlers' = handlers /\ failed' = failed
        /\ dlq' = dlq /\ calls' = calls
    BY <1>2 DEF CreateExecution, redis, world
  <2>2. AddingInv' /\ FinalFailureRecorded'
    BY <1>2, <2>1 DEF CreateExecution, IInv, TypeOK, AddingInv, FinalFailureRecorded
  <2> QED
    BY <2>1, <2>2 DEF Parts, IInv, JobInv, RunInv, HandlerInv, SoleRecorder,
                      DeadLetterExhausted
<1>3. ASSUME NEW e \in Executions, EnqueueAction(e)
      PROVE  Parts'
  <2>1. /\ exec' = exec /\ runs' = runs /\ handlers' = handlers /\ failed' = failed
        /\ dlq' = dlq /\ calls' = calls /\ adding' = adding \ {e}
        /\ job[e].state = "none" /\ job[e].attempts = 0
        /\ exec[e].status # "ABSENT"
    BY <1>3 DEF EnqueueAction, rows, world, IInv, AddingInv, JobInv
  <2>2. CASE job' = job
    BY <2>1, <2>2 DEF Parts, IInv, AddingInv, JobInv, RunInv, HandlerInv, SoleRecorder,
                      DeadLetterExhausted, FinalFailureRecorded
  <2>3. CASE job' = [job EXCEPT ![e] = [state |-> "waiting", attempts |-> 0,
                                        stalled |-> 0, lock |-> 0]]
    <3>1. /\ \A d \in Executions : d # e => job'[d] = job[d]
          /\ job'[e] = [state |-> "waiting", attempts |-> 0, stalled |-> 0, lock |-> 0]
          /\ MaxAttempts \in Nat \ {0} /\ MaxStalled \in Nat
      BY <2>3, ConstantsAssumption DEF IInv, TypeOK
    <3>2. AddingInv' /\ JobInv'
      BY <2>1, <3>1 DEF IInv, AddingInv, JobInv
    <3>3. RunInv'
      <4>1. \A r \in runs : r.exec \in Executions /\ job'[r.exec].attempts = job[r.exec].attempts
        BY <2>1, <3>1 DEF IInv, TypeOK, Runs
      <4> QED
        BY <2>1, <4>1 DEF IInv, RunInv
    <3>4. HandlerInv' /\ SoleRecorder' /\ DeadLetterExhausted' /\ FinalFailureRecorded'
      <4>1. \A h \in handlers : h.exec \in Executions /\ h.exec # e
        BY <2>1 DEF IInv, TypeOK, Handlers, HandlerInv
      <4>2. failed \subseteq Executions /\ e \notin failed
        BY <2>1 DEF IInv, TypeOK, DeadLetterExhausted
      <4> QED
        BY <2>1, <3>1, <4>1, <4>2 DEF IInv, HandlerInv, SoleRecorder,
                                      DeadLetterExhausted, FinalFailureRecorded
    <3> QED
      BY <3>2, <3>3, <3>4 DEF Parts
  <2> QED
    BY <1>3, <2>2, <2>3 DEF EnqueueAction
<1>4. ASSUME NEW e \in Executions, RetryExecution(e)
      PROVE  Parts'
  <2>1. job' = job /\ runs' = runs /\ handlers' = handlers /\ failed' = failed
        /\ dlq' = dlq /\ calls' = calls /\ adding' = adding
    BY <1>4 DEF RetryExecution, redis, world
  <2>2. AddingInv' /\ FinalFailureRecorded'
    BY <1>4, <2>1 DEF RetryExecution, IInv, TypeOK, AddingInv, FinalFailureRecorded
  <2> QED
    BY <2>1, <2>2 DEF Parts, IInv, JobInv, RunInv, HandlerInv, SoleRecorder,
                      DeadLetterExhausted
<1>5. CASE Crash
  <2>1. /\ exec' = exec /\ runs' = {} /\ handlers' = {} /\ adding' = {}
        /\ failed' = failed /\ dlq' = dlq /\ calls' = calls
        /\ failed \subseteq Executions
    BY <1>5 DEF Crash, rows, world, IInv, TypeOK
  <2>2. \A e \in Executions :
           /\ job'[e].state = job[e].state /\ job'[e].attempts = job[e].attempts
           /\ job'[e].stalled = job[e].stalled /\ job'[e].lock = 0
    BY <1>5, CrashJobs
  <2>3. AddingInv' /\ RunInv' /\ HandlerInv' /\ SoleRecorder'
    <3>1. AddingInv'
      <4>1. \A e \in Executions :
               exec[e].status = "ABSENT" => job[e].state = "none"
        BY DEF IInv, AddingInv
      <4> QED
        BY <2>1, <2>2, <4>1 DEF AddingInv
    <3>2. RunInv' /\ HandlerInv' /\ SoleRecorder'
      BY <2>1 DEF RunInv, HandlerInv, SoleRecorder
    <3> QED
      BY <3>1, <3>2
  <2>4. JobInv'
    BY <2>1, <2>2 DEF IInv, JobInv
  <2>5. DeadLetterExhausted' /\ FinalFailureRecorded'
    BY <2>1, <2>2 DEF IInv, DeadLetterExhausted, FinalFailureRecorded
  <2> QED
    BY <2>3, <2>4, <2>5 DEF Parts
<1> QED
  BY <1>1, <1>2, <1>3, <1>4, <1>5, RunStepInv, HandlerStepInv, QueueStepInv DEF Next

\* The strengthened invariant holds in every reachable state.
THEOREM Inductive == Spec => []IInv
  BY InitInv, NextInv, PTL DEF Spec

-----------------------------------------------------------------------------
(* The properties *)

\* However crashes, lost locks, failing statements and manual retries fall, no
\* webhook target gets more than MaxAttempts + MaxStalled requests per action.
THEOREM CallsAreBounded == Spec => []CallsBounded
<1>1. IInv => CallsBounded
  <2> SUFFICES ASSUME IInv, NEW e \in Executions
               PROVE  Cardinality(calls[e]) <= MaxAttempts + MaxStalled
    BY DEF CallsBounded
  <2> DEFINE n == job[e].attempts
  <2>1. /\ n \in Nat /\ MaxAttempts + MaxStalled \in Nat
        /\ n <= MaxAttempts + MaxStalled
        /\ calls[e] \subseteq 1 .. n
    BY ConstantsAssumption DEF IInv, TypeOK, JobInv
  <2> HIDE DEF n
  <2>2. IsFiniteSet(1 .. n) /\ Cardinality(1 .. n) = n
    <3>1. /\ IsFiniteSet(1 .. n)
          /\ Cardinality(1 .. n) = IF 1 > n THEN 0 ELSE n - 1 + 1
      BY <2>1, FS_Interval
    <3> QED
      BY <2>1, <3>1
  <2>3. IsFiniteSet(calls[e]) /\ Cardinality(calls[e]) <= Cardinality(1 .. n)
    BY <2>1, <2>2, FS_Subset
  <2>4. Cardinality(calls[e]) \in Nat
    BY <2>3, FS_CardinalityType
  <2> QED
    BY <2>1, <2>2, <2>3, <2>4
<1> QED
  BY <1>1, Inductive, PTL

\* A FailedExecution row is only ever written for a job that BullMQ gave up
\* after at least MaxAttempts starts.
THEOREM DeadLetterIsExhausted == Spec => []DeadLetterExhausted
<1>1. IInv => DeadLetterExhausted
  BY DEF IInv
<1> QED
  BY <1>1, Inductive, PTL

\* At most one 'failed' listener works on an execution and the unique
\* constraint on FailedExecution.executionId is never violated.
THEOREM RecorderIsSole == Spec => []SoleRecorder
<1>1. IInv => SoleRecorder
  BY DEF IInv
<1> QED
  BY <1>1, Inductive, PTL

\* PERMANENTLY_FAILED or a dead-letter job implies the FailedExecution row.
THEOREM FinalFailureIsRecorded == Spec => []FinalFailureRecorded
<1>1. IInv => FinalFailureRecorded
  BY DEF IInv
<1> QED
  BY <1>1, Inductive, PTL

\* Only the newest start of an action can settle its job.
THEOREM HolderIsNewest == Spec => []LockHolderIsNewest
<1>1. IInv => LockHolderIsNewest
  <2> SUFFICES ASSUME IInv, NEW r \in runs, HoldsLock(r)
               PROVE  /\ job[r.exec].state = "active"
                      /\ r.attempt = job[r.exec].attempts
                      /\ \A q \in RunsOf(r.exec) : HoldsLock(q) => q = r
    BY DEF LockHolderIsNewest
  <2>1. job[r.exec].state = "active" /\ r.attempt = job[r.exec].attempts
    BY RunFacts
  <2>2. \A q \in RunsOf(r.exec) : HoldsLock(q) => q = r
    BY DEF RunsOf, HoldsLock, IInv, RunInv
  <2> QED
    BY <2>1, <2>2
<1> QED
  BY <1>1, Inductive, PTL

\* A job that is completed or failed is never run or settled again, even by a
\* run that lost its lock and ends late.
THEOREM TerminalStays == Spec => TerminalJobStays
<1>1. ASSUME IInv, [Next]_vars
      PROVE  [\A e \in Executions :
                job[e].state \in {"completed", "failed"} => job'[e] = job[e]]_vars
  <2> SUFFICES ASSUME Next, NEW e \in Executions,
                      job[e].state \in {"completed", "failed"}
               PROVE  job'[e] = job[e]
    BY <1>1
  <2>0. /\ job \in [Executions -> [state : JobStates, attempts : Nat,
                                   stalled : Nat, lock : Nat]]
        /\ job[e].lock = 0
    BY <1>1 DEF IInv, TypeOK, JobInv
  <2>1. ASSUME NEW d \in Executions, QueueStep(d) \/ LoseLock(d)
        PROVE  job'[e] = job[e]
    BY <2>0, <2>1 DEF QueueStep, Start, Promote, RecoverStalled, LoseLock, Settle
  <2>2. ASSUME NEW d \in Executions, EnqueueAction(d)
        PROVE  job'[e] = job[e]
    <3>1. d # e
      BY <1>1, <2>2 DEF EnqueueAction, IInv, AddingInv
    <3> QED
      BY <2>0, <2>2, <3>1 DEF EnqueueAction
  <2>3. ASSUME NEW d \in Executions, CreateExecution(d) \/ RetryExecution(d)
        PROVE  job'[e] = job[e]
    BY <2>3 DEF CreateExecution, RetryExecution, redis
  <2>4. ASSUME NEW r \in runs, RunStep(r)
        PROVE  job'[e] = job[e]
    <3>1. HoldsLock(r) => r.exec # e
      BY <1>1, RunFacts
    <3>2. job' = job \/ (HoldsLock(r) /\ \E state : Settle(r.exec, state))
      BY <2>4 DEF RunStep, Begin, ActPlaceholder, CallAnswered, CallUnanswered,
                  StoreDelivery, Succeed, CountSuccess, Fail, CountFailure, Resolve,
                  Reject, UpdateExecution, UpdateRule, redis
    <3> QED
      BY <2>0, <3>1, <3>2 DEF Settle
  <2>5. ASSUME NEW h \in handlers, HandlerStep(h)
        PROVE  job'[e] = job[e]
    BY <2>5 DEF HandlerStep, FindExecution, FindFailed, CreateFailed,
                MarkPermanentlyFailed, EnqueueDeadLetter, redis
  <2>6. CASE Crash
    BY <2>0, <2>6 DEF Crash
  <2> QED
    BY <2>1, <2>2, <2>3, <2>4, <2>5, <2>6 DEF Next
<1> QED
  BY <1>1, Inductive, PTL DEF Spec, TerminalJobStays

-----------------------------------------------------------------------------
(* Every step of the queue, its worker and its listener is a step of the   *)
(* abstract promise, or none.                                              *)

LEMMA SamePhase ==
  ASSUME IInv, job' = job, failed' = failed
  PROVE  UNCHANGED Promise!vars
  BY DEF Promise!vars, Phase

\* A live job moves on without a verdict and without a new start.
LEMMA OpenJobStep ==
  ASSUME IInv, NEW e \in Executions, failed' = failed,
         \A d \in Executions : d # e => job'[d] = job[d],
         job[e].state \in {"waiting", "active", "delayed"},
         job'[e].state \in {"waiting", "active", "delayed"},
         job'[e].attempts = job[e].attempts
  PROVE  UNCHANGED Promise!vars
<1>1. \A d \in Executions : Phase(d)' = Phase(d) /\ job'[d].attempts = job[d].attempts
  BY DEF Phase
<1> QED
  BY <1>1 DEF Promise!vars

LEMMA VerdictStep ==
  ASSUME IInv, NEW e \in Executions, failed' = failed,
         \A d \in Executions : d # e => job'[d] = job[d],
         job[e].state = "active",
         job'[e].state \in {"completed", "failed"},
         job'[e].attempts = job[e].attempts
  PROVE  Promise!Next
<1> DEFINE verdict == IF job'[e].state = "completed" THEN "delivered" ELSE "dead"
<1>1. \A d \in Executions : job'[d].attempts = job[d].attempts
  OBVIOUS
<1>2. \A d \in Executions : Phase(d)' = IF d = e THEN verdict ELSE Phase(d)
  BY DEF Phase
<1>3. Phase(e) = "open" /\ job[e].attempts > 0
  BY DEF Phase, IInv, JobInv
<1>4. [d \in Executions |-> Phase(d)]' =
         [[d \in Executions |-> Phase(d)] EXCEPT ![e] = verdict]
  BY <1>2
<1>5. Promise!Decide(e)
  BY <1>1, <1>3, <1>4 DEF Promise!Decide
<1> QED
  BY <1>5 DEF Promise!Next

LEMMA PromiseInit == Init => Promise!Init
  BY DEF Init, Promise!Init, Phase

LEMMA PromiseQueueStep ==
  ASSUME IInv, NEW e \in Executions, QueueStep(e) \/ LoseLock(e)
  PROVE  Promise!Next \/ UNCHANGED Promise!vars
<1>0. /\ job \in [Executions -> [state : JobStates, attempts : Nat,
                                 stalled : Nat, lock : Nat]]
      /\ failed' = failed /\ MaxAttempts \in Nat /\ MaxStalled \in Nat
  BY ConstantsAssumption DEF IInv, TypeOK, QueueStep, Start, Promote, RecoverStalled,
                             LoseLock, rows
<1>1. CASE Start(e)
  <2>1. /\ \A d \in Executions : d # e => job'[d] = job[d]
        /\ job[e].state = "waiting" /\ job'[e].state = "active"
        /\ job'[e].attempts = job[e].attempts + 1
    BY <1>0, <1>1 DEF Start
  <2>2. Phase(e) = "open" /\ \A d \in Executions : Phase(d)' = Phase(d)
    BY <2>1 DEF Phase
  <2>3. job[e].attempts < MaxAttempts + MaxStalled
    BY <1>0, <2>1 DEF IInv, JobInv
  <2>4. [d \in Executions |-> job[d].attempts]' =
           [[d \in Executions |-> job[d].attempts] EXCEPT ![e] = @ + 1]
    BY <2>1
  <2>5. Promise!Try(e)
    BY <1>0, <2>2, <2>3, <2>4 DEF Promise!Try
  <2> QED
    BY <2>5 DEF Promise!Next
<1>2. CASE Promote(e) \/ LoseLock(e)
  <2>1. /\ \A d \in Executions : d # e => job'[d] = job[d]
        /\ job[e].state \in {"active", "delayed"}
        /\ job'[e].state \in {"waiting", "active"}
        /\ job'[e].attempts = job[e].attempts
    BY <1>0, <1>2 DEF Promote, LoseLock, Settle
  <2> QED
    BY <1>0, <2>1, OpenJobStep
<1>3. CASE RecoverStalled(e)
  <2>1. /\ \A d \in Executions : d # e => job'[d] = job[d]
        /\ job[e].state = "active"
        /\ job'[e].state \in {"waiting", "failed"}
        /\ job'[e].attempts = job[e].attempts
    BY <1>0, <1>3 DEF RecoverStalled
  <2> QED
    BY <1>0, <2>1, OpenJobStep, VerdictStep
<1> QED
  BY <1>1, <1>2, <1>3 DEF QueueStep

LEMMA PromiseRunStep ==
  ASSUME IInv, NEW r \in runs, RunStep(r)
  PROVE  Promise!Next \/ UNCHANGED Promise!vars
<1>0. /\ job \in [Executions -> [state : JobStates, attempts : Nat,
                                 stalled : Nat, lock : Nat]]
      /\ r.exec \in Executions
      /\ failed' = failed
  BY RunFacts DEF IInv, TypeOK, RunStep, Begin, ActPlaceholder, CallAnswered, CallUnanswered,
                  StoreDelivery, Succeed, CountSuccess, Fail, CountFailure, Resolve,
                  Reject, UpdateExecution, UpdateRule, rows
<1>1. \/ job' = job
      \/ /\ HoldsLock(r)
         /\ \E state \in {"completed", "delayed", "failed"} : Settle(r.exec, state)
  BY DEF RunStep, Begin, ActPlaceholder, CallAnswered, CallUnanswered,
         StoreDelivery, Succeed, CountSuccess, Fail, CountFailure, Resolve,
         Reject, UpdateExecution, UpdateRule, redis
<1>2. CASE job' = job
  BY <1>0, <1>2, SamePhase
<1>3. ASSUME HoldsLock(r), NEW state \in {"completed", "delayed", "failed"},
             Settle(r.exec, state)
      PROVE  Promise!Next \/ UNCHANGED Promise!vars
  <2>1. /\ \A d \in Executions : d # r.exec => job'[d] = job[d]
        /\ job[r.exec].state = "active"
        /\ job'[r.exec].state = state
        /\ job'[r.exec].attempts = job[r.exec].attempts
    BY <1>0, <1>3, RunFacts DEF Settle
  <2> QED
    BY <1>0, <2>1, OpenJobStep, VerdictStep
<1> QED
  BY <1>1, <1>2, <1>3

LEMMA PromiseHandlerStep ==
  ASSUME IInv, NEW h \in handlers, HandlerStep(h)
  PROVE  Promise!Next \/ UNCHANGED Promise!vars
<1>1. job' = job
  BY DEF HandlerStep, FindExecution, FindFailed, CreateFailed, MarkPermanentlyFailed,
         EnqueueDeadLetter, redis
<1>2. failed' = failed \/ (h.pc = "create" /\ failed' = failed \cup {h.exec})
  BY DEF HandlerStep, FindExecution, FindFailed, CreateFailed, MarkPermanentlyFailed,
         EnqueueDeadLetter, rows
<1>3. ASSUME h.pc = "create", failed' = failed \cup {h.exec}
      PROVE  Promise!Next
  <2>1. /\ h.exec \in Executions /\ h.exec \notin failed
        /\ job[h.exec].state = "failed" /\ job[h.exec].attempts >= MaxAttempts
    BY <1>3 DEF IInv, TypeOK, Handlers, HandlerInv, SoleRecorder
  <2>2. Phase(h.exec) = "dead" /\ \A d \in Executions : Phase(d)' = Phase(d)
    BY <1>1, <2>1 DEF Phase
  <2>3. Promise!Record(h.exec)
    BY <1>1, <1>3, <2>1, <2>2 DEF Promise!Record
  <2> QED
    BY <2>1, <2>3 DEF Promise!Next
<1> QED
  BY <1>1, <1>2, <1>3, SamePhase

LEMMA PromiseNext == IInv /\ [Next]_vars => [Promise!Next]_(Promise!vars)
<1> SUFFICES ASSUME IInv, [Next]_vars
             PROVE  Promise!Next \/ UNCHANGED Promise!vars
  OBVIOUS
<1>1. CASE UNCHANGED vars
  BY <1>1, SamePhase DEF vars
<1>2. ASSUME NEW e \in Executions, CreateExecution(e) \/ RetryExecution(e)
      PROVE  UNCHANGED Promise!vars
  BY <1>2, SamePhase DEF CreateExecution, RetryExecution, redis
<1>3. ASSUME NEW e \in Executions, EnqueueAction(e)
      PROVE  Promise!Next \/ UNCHANGED Promise!vars
  <2>1. failed' = failed /\ job[e].state = "none" /\ job[e].attempts = 0
    BY <1>3 DEF EnqueueAction, rows, IInv, AddingInv, JobInv
  <2>2. CASE job' = job
    BY <2>1, <2>2, SamePhase
  <2>3. CASE job' = [job EXCEPT ![e] = [state |-> "waiting", attempts |-> 0,
                                        stalled |-> 0, lock |-> 0]]
    <3>1. /\ \A d \in Executions : d # e => job'[d] = job[d]
          /\ job'[e].state = "waiting" /\ job'[e].attempts = job[e].attempts
      BY <2>1, <2>3 DEF IInv, TypeOK
    <3>2. /\ Phase(e) = "absent"
          /\ \A d \in Executions : /\ Phase(d)' = IF d = e THEN "open" ELSE Phase(d)
                                   /\ job'[d].attempts = job[d].attempts
      BY <2>1, <3>1 DEF Phase
    <3>3. [d \in Executions |-> Phase(d)]' =
             [[d \in Executions |-> Phase(d)] EXCEPT ![e] = "open"]
      BY <3>2
    <3>4. Promise!Accept(e)
      BY <2>1, <3>2, <3>3 DEF Promise!Accept
    <3> QED
      BY <3>4 DEF Promise!Next
  <2> QED
    BY <1>3, <2>2, <2>3 DEF EnqueueAction
<1>4. CASE Crash
  <2>1. \A d \in Executions :
           job'[d].state = job[d].state /\ job'[d].attempts = job[d].attempts
    BY <1>4, CrashJobs
  <2>2. \A d \in Executions : Phase(d)' = Phase(d) /\ job'[d].attempts = job[d].attempts
    BY <2>1 DEF Phase
  <2>3. failed' = failed
    BY <1>4 DEF Crash, rows
  <2> QED
    BY <2>2, <2>3 DEF Promise!vars
<1> QED
  BY <1>1, <1>2, <1>3, <1>4, PromiseQueueStep, PromiseRunStep, PromiseHandlerStep DEF Next

\* The pipeline keeps the promise of BoundedRetry: bounded tries, one verdict
\* that never changes, and a failure record only after MaxAttempts tries.
THEOREM PromiseIsKept == Spec => KeepsPromise
<1>1. Spec => []IInv
  BY Inductive
<1> QED
  BY <1>1, PromiseInit, PromiseNext, PTL DEF Spec, KeepsPromise, Promise!SafeSpec
=============================================================================
