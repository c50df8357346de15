------------------------ MODULE ActionRecordProofs ------------------------
(***************************************************************************)
(* Theorems about what ActionExecution leaves on record of an action: the  *)
(* verdict, the counters of the rule and the rows of its deliveries.       *)
(***************************************************************************)
EXTENDS ActionExecutionProofs

\* A run that is past an answered request, whose verdict is to be SUCCESS.
AnswerInv ==
    /\ \A r \in runs :
          (r.exec \in Webhooks /\ r.pc \in {"store", "succeed", "countSuccess", "resolve"}) =>
              answered[r.exec] # {}
    /\ SuccessWasAnswered

\* Attempts that both counters have or will have, unless a statement fails.
Twice(e) ==
    {n \in counted[e].success :
        \/ n \in counted[e].failure
        \/ \E r \in runs : /\ r.exec = e /\ r.attempt = n
                           /\ r.pc \in {"fail", "countFailure"}}

\* An attempt is counted by its own run only, and twice only after a lost reply.
OutcomeInv ==
    /\ \A e \in Executions :
          counted[e].success \cup counted[e].failure \subseteq 1 .. job[e].attempts
    /\ \A r \in runs :
          /\ r.pc \in {"begin", "act", "store", "storeError", "succeed", "countSuccess"} =>
                r.attempt \notin counted[r.exec].success \cup counted[r.exec].failure
          /\ r.pc \in {"fail", "countFailure"} => r.attempt \notin counted[r.exec].failure
    /\ \A e \in Executions : Cardinality(Twice(e)) <= spent["unacked"]

\* Attempts whose delivery row is still to be inserted.
Due(e) == {r.attempt : r \in {q \in RunsOf(e) : q.pc \in {"store", "storeError"}}}

\* Requests that reached a target and will never have a row.
Missing(e) == (calls[e] \ deliveries[e]) \ Due(e)

RecordInv == AnswerInv /\ OutcomeInv /\ AuditTrail

-----------------------------------------------------------------------------
(* How runs move *)

LEMMA RunTypes ==
  ASSUME IInv, NEW r \in runs
  PROVE  r \in Runs /\ r.exec \in Executions /\ r.attempt \in Nat /\ r.pc \in RunPCs
  BY DEF IInv, TypeOK, Runs

\* A run that goes on leaves its execution and attempt, and all other runs, alone.
LEMMA GotoRuns ==
  ASSUME IInv, NEW r \in runs, NEW pc, Goto(r, pc)
  PROVE  \A q : q \in runs' <=>
            \/ q \in runs /\ q # r
            \/ q = [r EXCEPT !.pc = pc]
  BY DEF Goto

LEMMA MovedRun ==
  ASSUME IInv, NEW r \in runs, NEW pc
  PROVE  /\ [r EXCEPT !.pc = pc].exec = r.exec
         /\ [r EXCEPT !.pc = pc].attempt = r.attempt
         /\ [r EXCEPT !.pc = pc].pc = pc
  BY RunTypes DEF Runs

\* One run of process() moves or ends, the others stay.
LEMMA OneRunMoves ==
  ASSUME IInv, NEW r \in runs, RunStep(r)
  PROVE  \/ runs' = runs \ {r}
         \/ \E pc \in RunPCs : Goto(r, pc)
<1>1. ASSUME NEW status, NEW count, NEW next \in RunPCs,
             UpdateExecution(r, status, count, next)
      PROVE  \E pc \in RunPCs : Goto(r, pc)
  BY <1>1 DEF UpdateExecution, OnError, RunPCs
<1>2. ASSUME NEW stats, NEW next \in RunPCs, UpdateRule(r, stats, next)
      PROVE  \E pc \in RunPCs : Goto(r, pc)
  BY <1>2 DEF UpdateRule, OnError, RunPCs
<1>3. {"act", "succeed", "store", "storeError", "countSuccess", "fail", "countFailure",
       "reject", "resolve"} \subseteq RunPCs
  BY DEF RunPCs
<1>4. CASE Begin(r) \/ Succeed(r) \/ Fail(r)
  BY <1>1, <1>3, <1>4 DEF Begin, Succeed, Fail
<1>5. CASE CountSuccess(r) \/ CountFailure(r)
  BY <1>2, <1>3, <1>5 DEF CountSuccess, CountFailure
<1>6. CASE ActPlaceholder(r) \/ CallAnswered(r) \/ CallUnanswered(r) \/ StoreDelivery(r)
  BY <1>3, <1>6 DEF ActPlaceholder, CallAnswered, CallUnanswered, StoreDelivery
<1>7. CASE Resolve(r) \/ Reject(r)
  BY <1>7 DEF Resolve, Reject
<1> QED
  BY <1>4, <1>5, <1>6, <1>7 DEF RunStep

-----------------------------------------------------------------------------
(* Success means an answer *)

LEMMA AnswerStep ==
  ASSUME IInv, AnswerInv, [Next]_vars
  PROVE  AnswerInv'
<1>t. /\ exec \in [Executions -> [status : Statuses, attemptCount : Nat]]
      /\ job \in [Executions -> [state : JobStates, attempts : Nat,
                                 stalled : Nat, lock : Nat]]
      /\ answered \in [Executions -> SUBSET Nat]
      /\ Webhooks \subseteq Executions
  BY ConstantsAssumption DEF IInv, TypeOK
<1>1. CASE UNCHANGED vars
  BY <1>1 DEF AnswerInv, SuccessWasAnswered, vars
<1>2. ASSUME UNCHANGED answered, runs' \subseteq runs,
             \A e \in Executions : exec'[e].status = "SUCCESS" => exec[e].status = "SUCCESS",
             \A e \in Executions : job'[e].state = "completed" => job[e].state = "completed"
      PROVE  AnswerInv'
  BY <1>2, <1>t DEF AnswerInv, SuccessWasAnswered
<1>3. ASSUME NEW e \in Executions,
             CreateExecution(e) \/ EnqueueAction(e) \/ Promote(e) \/ RecoverStalled(e)
                \/ LoseLock(e) \/ RetryExecution(e)
      PROVE  AnswerInv'
  <2>1. UNCHANGED <<answered, runs>>
    BY <1>3 DEF CreateExecution, EnqueueAction, Promote, RecoverStalled, LoseLock,
                RetryExecution, world
  <2>2. \A d \in Executions : exec'[d].status = "SUCCESS" => exec[d].status = "SUCCESS"
    BY <1>3, <1>t DEF CreateExecution, EnqueueAction, Promote, RecoverStalled, LoseLock,
                RetryExecution, rows
  <2>3. \A d \in Executions : job'[d].state = "completed" => job[d].state = "completed"
    BY <1>3, <1>t DEF CreateExecution, EnqueueAction, Promote, RecoverStalled, LoseLock,
                RetryExecution, redis, Settle
  <2> QED
    BY <1>2, <2>1, <2>2, <2>3
<1>4. ASSUME NEW e \in Executions, Start(e)
      PROVE  AnswerInv'
  <2>1. UNCHANGED <<answered, exec>>
    BY <1>4 DEF Start, rows, world
  <2>2. \A d \in Executions : job'[d].state = "completed" => job[d].state = "completed"
    BY <1>4, <1>t DEF Start
  <2>3. \A r \in runs' : r \in runs \/ r.pc = "begin"
    BY <1>4 DEF Start
  <2> QED
    BY <1>t, <2>1, <2>2, <2>3 DEF AnswerInv, SuccessWasAnswered
<1>5. ASSUME NEW h \in handlers, HandlerStep(h)
      PROVE  AnswerInv'
  <2>1. UNCHANGED <<answered, runs, job>>
    BY <1>5 DEF HandlerStep, FindExecution, FindFailed, CreateFailed, MarkPermanentlyFailed,
                EnqueueDeadLetter, world, redis
  <2>2. \A d \in Executions : exec'[d].status = "SUCCESS" => exec[d].status = "SUCCESS"
    BY <1>5, <1>t DEF HandlerStep, FindExecution, FindFailed, CreateFailed,
                MarkPermanentlyFailed, EnqueueDeadLetter, rows
  <2> QED
    BY <1>2, <2>1, <2>2
<1>6. CASE Crash
  BY <1>2, <1>6, CrashJobs DEF Crash, rows, world
<1>7. ASSUME NEW r \in runs, RunStep(r)
      PROVE  AnswerInv'
  <2>r. r.exec \in Executions
    BY RunTypes
  <2>a. \A e \in Executions : answered[e] \subseteq answered'[e]
    BY <1>7, <1>t DEF RunStep, Begin, ActPlaceholder, CallAnswered, CallUnanswered,
              StoreDelivery, Succeed, CountSuccess, Fail, CountFailure, Resolve, Reject,
              UpdateExecution, UpdateRule, world
  <2>1. ASSUME \A q \in runs' : q \in runs \/
                  (/\ q.exec = r.exec
                   /\ (q.exec \in Webhooks /\ q.pc \in {"store", "succeed", "countSuccess",
                                                         "resolve"})
                         => answered'[q.exec] # {})
        PROVE  \A q \in runs' :
                  (q.exec \in Webhooks /\ q.pc \in {"store", "succeed", "countSuccess",
                                                     "resolve"})
                     => answered'[q.exec] # {}
    BY <1>t, <2>1, <2>a DEF AnswerInv
  <2>2. ASSUME NEW e \in Webhooks,
               exec'[e].status = "SUCCESS" => exec[e].status = "SUCCESS" \/ answered'[e] # {},
               job'[e].state = "completed" => job[e].state = "completed" \/ answered'[e] # {}
        PROVE  job'[e].state = "completed" \/ exec'[e].status = "SUCCESS" => answered'[e] # {}
    BY <1>t, <2>2, <2>a DEF AnswerInv, SuccessWasAnswered
  <2>3. ASSUME NEW pc, Goto(r, pc),
               (r.exec \in Webhooks /\ pc \in {"store", "succeed", "countSuccess", "resolve"})
                  => answered'[r.exec] # {}
        PROVE  \A q \in runs' :
                  (q.exec \in Webhooks /\ q.pc \in {"store", "succeed", "countSuccess",
                                                     "resolve"})
                     => answered'[q.exec] # {}
    <3>1. \A q \in runs' : q \in runs \/ q = [r EXCEPT !.pc = pc]
      BY <2>3, GotoRuns
    <3>2. /\ [r EXCEPT !.pc = pc].exec = r.exec
          /\ [r EXCEPT !.pc = pc].pc = pc
      BY MovedRun
    <3> QED
      BY <2>1, <2>3, <3>1, <3>2
  <2>4. CASE Begin(r) \/ Fail(r)
    <3>1. /\ \E pc : Goto(r, pc) /\ pc \in {"act", "countFailure", "fail", "reject"}
          /\ UNCHANGED <<answered, job>>
          /\ \A e \in Executions : exec'[e].status = "SUCCESS" => exec[e].status = "SUCCESS"
      <4>1. CASE Begin(r)
        BY <1>t, <2>r, <4>1 DEF Begin, UpdateExecution, OnError, world, redis
      <4>2. CASE Fail(r)
        BY <1>t, <2>r, <4>2 DEF Fail, UpdateExecution, OnError, world, redis
      <4> QED
        BY <2>4, <4>1, <4>2
    <3> QED
      BY <1>t, <2>2, <2>3, <3>1 DEF AnswerInv, SuccessWasAnswered
  <2>5. CASE Succeed(r)
    <3>1. /\ \E pc : Goto(r, pc)
          /\ UNCHANGED <<answered, job>>
          /\ \A e \in Executions : exec'[e].status = "SUCCESS" =>
                                      exec[e].status = "SUCCESS" \/ e = r.exec
      BY <1>t, <2>r, <2>5 DEF Succeed, UpdateExecution, OnError, world, redis
    <3>2. r.exec \in Webhooks => answered'[r.exec] # {}
      BY <2>5, <3>1 DEF Succeed, AnswerInv
    <3> QED
      BY <1>t, <2>2, <2>3, <3>1, <3>2 DEF AnswerInv, SuccessWasAnswered
  <2>6. CASE CountSuccess(r) \/ CountFailure(r)
    <3>1. /\ \E pc : Goto(r, pc) /\ pc \in {"resolve", "fail", "reject"}
                     /\ (pc = "resolve" => r.pc = "countSuccess")
          /\ UNCHANGED <<answered, job, exec>>
      BY <2>6 DEF CountSuccess, CountFailure, UpdateRule, OnError, world, redis
    <3> QED
      BY <1>t, <2>2, <2>3, <3>1 DEF AnswerInv, SuccessWasAnswered
  <2>7. CASE ActPlaceholder(r) \/ CallAnswered(r) \/ CallUnanswered(r) \/ StoreDelivery(r)
    <3>1. UNCHANGED <<job, exec>>
      BY <2>7 DEF ActPlaceholder, CallAnswered, CallUnanswered, StoreDelivery, redis, rows
    <3>2. PICK pc : /\ Goto(r, pc)
                    /\ (r.exec \in Webhooks /\ pc \in {"store", "succeed"})
                          => answered'[r.exec] # {}
                    /\ pc \in {"store", "storeError", "succeed", "fail"}
      <4>1. CASE ActPlaceholder(r)
        BY <4>1 DEF ActPlaceholder
      <4>2. CASE CallAnswered(r)
        BY <1>t, <2>r, <4>2 DEF CallAnswered
      <4>3. CASE CallUnanswered(r)
        BY <4>3 DEF CallUnanswered
      <4>4. CASE StoreDelivery(r)
        BY <4>4 DEF StoreDelivery, world, AnswerInv
      <4> QED
        BY <2>7, <4>1, <4>2, <4>3, <4>4
    <3>3. \A q \in runs' :
             (q.exec \in Webhooks /\ q.pc \in {"store", "succeed", "countSuccess", "resolve"})
                => answered'[q.exec] # {}
      BY <2>3, <3>2
    <3>4. SuccessWasAnswered'
      BY <1>t, <2>2, <3>1 DEF SuccessWasAnswered
    <3> QED
      BY <3>3, <3>4 DEF AnswerInv
  <2>8. CASE Resolve(r)
    <3>1. /\ UNCHANGED <<answered, exec>> /\ runs' \subseteq runs /\ r.pc = "resolve"
          /\ \A e \in Executions : job'[e].state = "completed" =>
                                      job[e].state = "completed" \/ e = r.exec
      BY <1>t, <2>r, <2>8 DEF Resolve, Settle, world, rows
    <3>2. r.exec \in Webhooks => answered'[r.exec] # {}
      BY <3>1 DEF AnswerInv
    <3> QED
      BY <1>t, <2>2, <3>1, <3>2 DEF AnswerInv, SuccessWasAnswered
  <2>9. CASE Reject(r)
    <3>1. /\ UNCHANGED <<answered, exec>> /\ runs' \subseteq runs
          /\ \A e \in Executions : job'[e].state = "completed" => job[e].state = "completed"
      BY <1>t, <2>r, <2>9 DEF Reject, Settle, world, rows
    <3> QED
      BY <1>2, <3>1
  <2> QED
    BY <1>7, <2>4, <2>5, <2>6, <2>7, <2>8, <2>9 DEF RunStep
<1> QED
  BY <1>1, <1>3, <1>4, <1>5, <1>6, <1>7 DEF Next, QueueStep

-----------------------------------------------------------------------------
(* One outcome per attempt *)

LEMMA IntervalFinite ==
  ASSUME NEW n \in Nat, NEW S \in SUBSET (1 .. n)
  PROVE  IsFiniteSet(S) /\ Cardinality(S) \in Nat
<1>1. IsFiniteSet(1 .. n)
  BY FS_Interval
<1> QED
  BY <1>1, FS_Subset, FS_CardinalityType

\* A finite set that lost elements, or gained at most one.
LEMMA SubsetCount ==
  ASSUME NEW S, IsFiniteSet(S), NEW T, T \subseteq S
  PROVE  IsFiniteSet(T) /\ Cardinality(T) \in Nat /\ Cardinality(T) <= Cardinality(S)
  BY FS_Subset, FS_CardinalityType

LEMMA OneMoreCount ==
  ASSUME NEW S, IsFiniteSet(S), NEW x, NEW T, T \subseteq S \cup {x}
  PROVE  Cardinality(T) \in Nat /\ Cardinality(T) <= Cardinality(S) + 1
<1>1. /\ IsFiniteSet(S \cup {x}) /\ Cardinality(S) \in Nat
      /\ Cardinality(S \cup {x}) \in Nat /\ Cardinality(S \cup {x}) <= Cardinality(S) + 1
  <2>1. Cardinality(S) \in Nat
    BY FS_CardinalityType
  <2>2. /\ IsFiniteSet(S \cup {x})
        /\ \/ Cardinality(S \cup {x}) = Cardinality(S)
           \/ Cardinality(S \cup {x}) = Cardinality(S) + 1
    BY FS_AddElement
  <2> QED
    BY <2>1, <2>2
<1>2. Cardinality(T) \in Nat /\ Cardinality(T) <= Cardinality(S \cup {x})
  BY <1>1, SubsetCount
<1> QED
  BY <1>1, <1>2

LEMMA TwiceFinite ==
  ASSUME IInv, OutcomeInv, NEW e \in Executions
  PROVE  IsFiniteSet(Twice(e)) /\ Cardinality(Twice(e)) \in Nat
<1>1. job[e].attempts \in Nat /\ Twice(e) \subseteq 1 .. job[e].attempts
  BY DEF IInv, TypeOK, OutcomeInv, Twice
<1> QED
  BY <1>1, IntervalFinite

\* What a run may be worth to the counters: nothing yet, or a success.
Uncounted(q) ==
    /\ q.pc \in {"begin", "act", "store", "storeError", "succeed", "countSuccess"} =>
          q.attempt \notin counted[q.exec].success \cup counted[q.exec].failure
    /\ q.pc \in {"fail", "countFailure"} => q.attempt \notin counted[q.exec].failure

Doomed(q) == q.pc \in {"fail", "countFailure"} /\ q.attempt \in counted[q.exec].success

\* Steps that touch no counter and bring no run with a success to the catch block.
LEMMA OutcomeKept ==
  ASSUME IInv, OutcomeInv, counted' = counted,
         spent["unacked"] \in Nat, spent'["unacked"] \in Nat,
         spent["unacked"] <= spent'["unacked"],
         \A e \in Executions : /\ job'[e].attempts \in Nat
                               /\ job[e].attempts <= job'[e].attempts,
         \A q \in runs' : q \in runs \/ (Uncounted(q) /\ ~Doomed(q))
                          \/ /\ Uncounted(q)
                             /\ \E p \in runs : /\ Doomed(p) /\ p.exec = q.exec
                                                /\ p.attempt = q.attempt
  PROVE  OutcomeInv'
<1>1. \A e \in Executions : job[e].attempts \in Nat
  BY DEF IInv, TypeOK
<1>2. \A e \in Executions :
         counted'[e].success \cup counted'[e].failure \subseteq 1 .. job'[e].attempts
  BY <1>1 DEF OutcomeInv
<1>3. \A q \in runs' : Uncounted(q)'
  BY DEF OutcomeInv, Uncounted
<1>4. ASSUME NEW e \in Executions
      PROVE  Cardinality(Twice(e)') <= spent'["unacked"]
  <2>1. Twice(e)' \subseteq Twice(e)
    BY DEF Twice, Doomed
  <2>2. /\ Cardinality(Twice(e)) \in Nat /\ Cardinality(Twice(e)') \in Nat
        /\ Cardinality(Twice(e)') <= Cardinality(Twice(e))
    BY <2>1, TwiceFinite, SubsetCount
  <2>3. Cardinality(Twice(e)) <= spent["unacked"]
    BY DEF OutcomeInv
  <2> QED
    BY <2>2, <2>3
<1> QED
  BY <1>2, <1>3, <1>4 DEF OutcomeInv, Uncounted

\* The attempts of a job only grow.
LEMMA AttemptsGrow ==
  ASSUME IInv, [Next]_vars, NEW e \in Executions
  PROVE  /\ job[e].attempts \in Nat /\ job'[e].attempts \in Nat
         /\ job[e].attempts <= job'[e].attempts
<1>0. /\ job \in [Executions -> [state : JobStates, attempts : Nat,
                                 stalled : Nat, lock : Nat]]
      /\ TypeOK'
  BY NextType DEF IInv, TypeOK
<1>1. job'[e].attempts \in Nat /\ job[e].attempts \in Nat
  BY <1>0 DEF TypeOK
<1>2. CASE job' = job
  BY <1>1, <1>2
<1>3. ASSUME NEW d \in Executions, QueueStep(d) \/ LoseLock(d) \/ EnqueueAction(d)
      PROVE  job[e].attempts <= job'[e].attempts
  <2>1. EnqueueAction(d) => job[d].attempts = 0
    BY DEF EnqueueAction, IInv, AddingInv, JobInv
  <2>2. CASE Start(d)
    BY <1>0, <1>1, <2>2 DEF Start
  <2>3. CASE Promote(d) \/ RecoverStalled(d) \/ LoseLock(d)
    BY <1>0, <1>1, <2>3 DEF Promote, RecoverStalled, LoseLock, Settle
  <2>4. CASE EnqueueAction(d)
    BY <1>0, <1>1, <2>1, <2>4 DEF EnqueueAction
  <2> QED
    BY <1>3, <2>2, <2>3, <2>4 DEF QueueStep
<1>4. ASSUME NEW r \in runs, Resolve(r) \/ Reject(r)
      PROVE  job[e].attempts <= job'[e].attempts
  BY <1>0, <1>1, <1>4 DEF Resolve, Reject, Settle
<1>5. CASE Crash
  BY <1>1, <1>5, CrashJobs
<1>6. ASSUME NEW r \in runs, RunStep(r), ~Resolve(r), ~Reject(r)
      PROVE  job' = job
  BY <1>6 DEF RunStep, Begin, ActPlaceholder, CallAnswered, CallUnanswered,
              StoreDelivery, Succeed, CountSuccess, Fail, CountFailure,
              UpdateExecution, UpdateRule, redis
<1>7. ASSUME NEW h \in handlers, HandlerStep(h)
      PROVE  job' = job
  BY <1>7 DEF HandlerStep, FindExecution, FindFailed, CreateFailed, MarkPermanentlyFailed,
              EnqueueDeadLetter, redis
<1>8. ASSUME NEW d \in Executions, CreateExecution(d) \/ RetryExecution(d)
      PROVE  job' = job
  BY <1>8 DEF CreateExecution, RetryExecution, redis
<1>9. UNCHANGED vars => job' = job
  BY DEF vars
<1> QED
  BY <1>1, <1>2, <1>3, <1>4, <1>5, <1>6, <1>7, <1>8, <1>9 DEF Next

\* Faults are counted up.
LEMMA SpentGrows ==
  ASSUME IInv, [Next]_vars, NEW k \in Occurrences
  PROVE  spent[k] \in Nat /\ spent'[k] \in Nat /\ spent[k] <= spent'[k]
<1>1. spent \in [Occurrences -> Nat] /\ spent' \in [Occurrences -> Nat]
  BY NextType DEF IInv, TypeOK
<1>2. spent' = spent \/ \E j \in Occurrences : spent' = [spent EXCEPT ![j] = @ + 1]
  <2> USE DEF Spend, Occurrences
  <2>1. ASSUME NEW e \in Executions,
               CreateExecution(e) \/ EnqueueAction(e) \/ QueueStep(e) \/ LoseLock(e)
                  \/ RetryExecution(e)
        PROVE  spent' = spent \/ \E j \in Occurrences : spent' = [spent EXCEPT ![j] = @ + 1]
    BY <2>1 DEF CreateExecution, EnqueueAction, QueueStep, Start, Promote, RecoverStalled,
                LoseLock, RetryExecution
  <2>2. ASSUME NEW r \in runs, RunStep(r)
        PROVE  spent' = spent \/ \E j \in Occurrences : spent' = [spent EXCEPT ![j] = @ + 1]
    BY <2>2 DEF RunStep, Begin, ActPlaceholder, CallAnswered, CallUnanswered, StoreDelivery,
                Succeed, CountSuccess, Fail, CountFailure, Resolve, Reject, UpdateExecution,
                UpdateRule
  <2>3. ASSUME NEW h \in handlers, HandlerStep(h)
        PROVE  spent' = spent
    BY <2>3 DEF HandlerStep, FindExecution, FindFailed, CreateFailed, MarkPermanentlyFailed,
                EnqueueDeadLetter
  <2>4. CASE Crash
    BY <2>4 DEF Crash
  <2>5. UNCHANGED vars => spent' = spent
    BY DEF vars
  <2> QED
    BY <2>1, <2>2, <2>3, <2>4, <2>5 DEF Next
<1> QED
  BY <1>1, <1>2

Early == {"begin", "act", "store", "storeError", "succeed", "countSuccess"}

\* A run that has counted nothing, or is on its way out of the catch block,
\* moves without making a success into a doomed one.
LEMMA OutcomeGoto ==
  ASSUME IInv, OutcomeInv, [Next]_vars, NEW r \in runs, NEW pc, Goto(r, pc),
         counted' = counted,
         r.pc \in Early \/ (r.pc \in {"fail", "countFailure"} /\ pc \in {"countFailure", "reject"})
  PROVE  OutcomeInv'
<1> DEFINE moved == [r EXCEPT !.pc = pc]
<1>1. moved.exec = r.exec /\ moved.attempt = r.attempt /\ moved.pc = pc
  BY MovedRun
<1> HIDE DEF moved
<1>2. \A q \in runs' : q \in runs \/ q = moved
  BY GotoRuns DEF moved
<1>3. Uncounted(r)
  BY DEF OutcomeInv, Uncounted
<1>4. Uncounted(moved) /\ (Doomed(moved) => Doomed(r))
  <2>1. CASE r.pc \in Early
    BY <1>1, <1>3, <2>1 DEF Uncounted, Doomed, Early
  <2>2. CASE r.pc \in {"fail", "countFailure"} /\ pc \in {"countFailure", "reject"}
    BY <1>1, <1>3, <2>2 DEF Uncounted, Doomed
  <2> QED
    BY <2>1, <2>2
<1>5. /\ spent["unacked"] \in Nat /\ spent'["unacked"] \in Nat
      /\ spent["unacked"] <= spent'["unacked"]
  BY SpentGrows DEF Occurrences
<1>6. \A e \in Executions : job'[e].attempts \in Nat /\ job[e].attempts <= job'[e].attempts
  BY AttemptsGrow
<1>7. \A q \in runs' : q \in runs \/ (Uncounted(q) /\ ~Doomed(q))
                          \/ /\ Uncounted(q)
                             /\ \E p \in runs : /\ Doomed(p) /\ p.exec = q.exec
                                                /\ p.attempt = q.attempt
  BY <1>1, <1>2, <1>4
<1> QED
  BY <1>5, <1>6, <1>7, OutcomeKept

\* A run increments one of the counters for its own attempt, for the first time.
LEMMA OutcomeCounted ==
  ASSUME IInv, OutcomeInv, [Next]_vars, NEW r \in runs, NEW pc, Goto(r, pc),
         NEW stats, counted' = [counted EXCEPT ![r.exec] = stats],
         job' = job,
         \/ /\ r.pc = "countSuccess"
            /\ stats = [counted[r.exec] EXCEPT !.success = @ \cup {r.attempt}]
            /\ \/ pc = "resolve"
               \/ pc = "fail" /\ spent' = [spent EXCEPT !["unacked"] = @ + 1]
         \/ /\ r.pc = "countFailure" /\ pc = "reject"
            /\ stats = [counted[r.exec] EXCEPT !.failure = @ \cup {r.attempt}]
  PROVE  OutcomeInv'
<1> DEFINE moved == [r EXCEPT !.pc = pc]
           a == r.attempt
<1>1. moved.exec = r.exec /\ moved.attempt = a /\ moved.pc = pc
  BY MovedRun
<1> HIDE DEF moved
<1>2. /\ r.exec \in Executions /\ a \in 1 .. job[r.exec].attempts
      /\ counted \in [Executions -> [success : SUBSET Nat, failure : SUBSET Nat]]
  BY RunTypes DEF IInv, TypeOK, RunInv
<1>3. /\ \A e \in Executions : e # r.exec => counted'[e] = counted[e]
      /\ counted'[r.exec] = stats
      /\ \/ /\ r.pc = "countSuccess"
            /\ stats.success = counted[r.exec].success \cup {a}
            /\ stats.failure = counted[r.exec].failure
         \/ /\ r.pc = "countFailure"
            /\ stats.success = counted[r.exec].success
            /\ stats.failure = counted[r.exec].failure \cup {a}
  BY <1>2
<1>4. \A q : q \in runs' <=> (q \in runs /\ q # r) \/ q = moved
  BY GotoRuns DEF moved
<1>5. \A q \in runs : (q # r /\ q.exec = r.exec) => q.attempt # a
  BY DEF IInv, RunInv
<1>6. \A q \in runs : Uncounted(q) /\ q.exec \in Executions
  BY RunTypes DEF OutcomeInv, Uncounted
<1>7. a \notin counted[r.exec].failure
      /\ (r.pc = "countSuccess" => a \notin counted[r.exec].success)
  BY <1>3, <1>6 DEF Uncounted
<1>8. \A q \in runs' : Uncounted(q)'
  <2>1. ASSUME NEW q \in runs, q # r
        PROVE  Uncounted(q)'
    BY <1>3, <1>5, <1>6, <2>1 DEF Uncounted
  <2>2. Uncounted(moved)'
    BY <1>1, <1>3, <1>7 DEF Uncounted
  <2> QED
    BY <1>4, <2>1, <2>2
<1>9. \A e \in Executions :
         counted'[e].success \cup counted'[e].failure \subseteq 1 .. job'[e].attempts
  BY <1>2, <1>3 DEF OutcomeInv
<1>10. ASSUME NEW e \in Executions
       PROVE  Cardinality(Twice(e)') <= spent'["unacked"]
  <2>0. /\ spent["unacked"] \in Nat /\ spent'["unacked"] \in Nat
        /\ spent["unacked"] <= spent'["unacked"]
        /\ spent \in [Occurrences -> Nat] /\ "unacked" \in Occurrences
    BY SpentGrows DEF Occurrences, IInv, TypeOK
  <2>1. /\ IsFiniteSet(Twice(e)) /\ Cardinality(Twice(e)) \in Nat
        /\ Cardinality(Twice(e)) <= spent["unacked"]
    BY TwiceFinite DEF OutcomeInv
  <2>2. Twice(e)' \subseteq Twice(e) \cup {a}
    BY <1>1, <1>2, <1>3, <1>4 DEF Twice
  <2>3. CASE e # r.exec \/ pc # "fail"
    <3>1. CASE e # r.exec
      <4>1. Twice(e)' \subseteq Twice(e)
        BY <1>1, <1>3, <1>4, <3>1 DEF Twice
      <4> QED
        BY <2>0, <2>1, <4>1, SubsetCount
    <3>2. CASE e = r.exec /\ r.pc = "countSuccess" /\ pc = "resolve"
      <4>1. a \notin Twice(e)'
        BY <1>1, <1>3, <1>4, <1>5, <1>7, <3>2 DEF Twice
      <4>2. Twice(e)' \subseteq Twice(e)
        BY <2>2, <4>1
      <4> QED
        BY <2>0, <2>1, <4>2, SubsetCount
    <3>3. CASE e = r.exec /\ r.pc = "countFailure"
      <4>1. a \in Twice(e)' => a \in Twice(e)
        BY <1>3, <3>3 DEF Twice
      <4>2. Twice(e)' \subseteq Twice(e)
        BY <2>2, <4>1
      <4> QED
        BY <2>0, <2>1, <4>2, SubsetCount
    <3> QED
      BY <2>3, <3>1, <3>2, <3>3
  <2>4. CASE pc = "fail"
    <3>1. spent'["unacked"] = spent["unacked"] + 1
      BY <2>0, <2>4
    <3>2. /\ Cardinality(Twice(e)') \in Nat
          /\ Cardinality(Twice(e)') <= Cardinality(Twice(e)) + 1
      BY <2>1, <2>2, OneMoreCount
    <3> QED
      BY <2>0, <2>1, <3>1, <3>2
  <2> QED
    BY <2>3, <2>4
<1> QED
  BY <1>8, <1>9, <1>10 DEF OutcomeInv, Uncounted

\* The counters stay right through every step.
LEMMA OutcomeStep ==
  ASSUME IInv, OutcomeInv, [Next]_vars
  PROVE  OutcomeInv'
<1>0. /\ spent["unacked"] \in Nat /\ spent'["unacked"] \in Nat
      /\ spent["unacked"] <= spent'["unacked"]
  BY SpentGrows DEF Occurrences
<1>a. \A e \in Executions : job'[e].attempts \in Nat /\ job[e].attempts <= job'[e].attempts
  BY AttemptsGrow
<1>1. ASSUME counted' = counted, runs' \subseteq runs
      PROVE  OutcomeInv'
  BY <1>0, <1>a, <1>1, OutcomeKept
<1>2. CASE UNCHANGED vars
  BY <1>1, <1>2 DEF vars
<1>3. ASSUME NEW e \in Executions,
             CreateExecution(e) \/ EnqueueAction(e) \/ Promote(e) \/ RecoverStalled(e)
                \/ LoseLock(e) \/ RetryExecution(e)
      PROVE  OutcomeInv'
  BY <1>1, <1>3 DEF CreateExecution, EnqueueAction, Promote, RecoverStalled, LoseLock,
                    RetryExecution, rows
<1>4. ASSUME NEW e \in Executions, Start(e)
      PROVE  OutcomeInv'
  <2> DEFINE new == [exec |-> e, attempt |-> job[e].attempts + 1, pc |-> "begin"]
  <2>1. counted' = counted /\ \A q \in runs' : q \in runs \/ q = new
    BY <1>4 DEF Start, rows
  <2>2. job[e].attempts \in Nat
    BY DEF IInv, TypeOK
  <2>3. job[e].attempts + 1 \notin counted[e].success \cup counted[e].failure
    BY <2>2 DEF OutcomeInv
  <2>4. Uncounted(new) /\ ~Doomed(new)
    BY <2>3 DEF Uncounted, Doomed
  <2> HIDE DEF new
  <2> QED
    BY <1>0, <1>a, <2>1, <2>4, OutcomeKept
<1>5. ASSUME NEW h \in handlers, HandlerStep(h)
      PROVE  OutcomeInv'
  BY <1>1, <1>5 DEF HandlerStep, FindExecution, FindFailed, CreateFailed,
                    MarkPermanentlyFailed, EnqueueDeadLetter, rows
<1>6. CASE Crash
  BY <1>1, <1>6 DEF Crash, rows
<1>7. ASSUME NEW r \in runs, RunStep(r)
      PROVE  OutcomeInv'
  <2>1. CASE Begin(r) \/ Succeed(r)
    <3>1. counted' = counted /\ r.pc \in Early /\ \E pc : Goto(r, pc)
      BY <2>1 DEF Begin, Succeed, UpdateExecution, Early
    <3> QED
      BY <3>1, OutcomeGoto
  <2>2. CASE Fail(r)
    <3>1. /\ counted' = counted /\ r.pc = "fail"
          /\ \E pc : Goto(r, pc) /\ pc \in {"countFailure", "reject"}
      BY <2>2 DEF Fail, UpdateExecution, OnError
    <3> QED
      BY <3>1, OutcomeGoto
  <2>3. CASE ActPlaceholder(r) \/ CallAnswered(r) \/ CallUnanswered(r) \/ StoreDelivery(r)
    <3>1. counted' = counted /\ r.pc \in Early /\ \E pc : Goto(r, pc)
      BY <2>3 DEF ActPlaceholder, CallAnswered, CallUnanswered, StoreDelivery, rows, Early
    <3> QED
      BY <3>1, OutcomeGoto
  <2>4. CASE Resolve(r) \/ Reject(r)
    BY <1>1, <2>4 DEF Resolve, Reject, rows
  <2>5. CASE CountSuccess(r)
    <3> DEFINE stats == [counted[r.exec] EXCEPT !.success = @ \cup {r.attempt}]
    <3>1. r.pc = "countSuccess" /\ UpdateRule(r, stats, "resolve")
      BY <2>5 DEF CountSuccess
    <3>2. job' = job /\ OnError(r.pc) = "fail"
      BY <3>1 DEF UpdateRule, redis, OnError
    <3>3. CASE counted' = counted /\ Goto(r, OnError(r.pc))
      BY <3>1, <3>3, OutcomeGoto DEF Early
    <3>4. CASE counted' = [counted EXCEPT ![r.exec] = stats] /\ Goto(r, "resolve")
      BY <3>1, <3>2, <3>4, OutcomeCounted
    <3>5. CASE /\ counted' = [counted EXCEPT ![r.exec] = stats]
               /\ Goto(r, "fail") /\ Spend("unacked")
      BY <3>1, <3>2, <3>5, OutcomeCounted DEF Spend
    <3> QED
      BY <3>1, <3>2, <3>3, <3>4, <3>5 DEF UpdateRule
  <2>6. CASE CountFailure(r)
    <3> DEFINE stats == [counted[r.exec] EXCEPT !.failure = @ \cup {r.attempt}]
    <3>1. r.pc = "countFailure" /\ UpdateRule(r, stats, "reject")
      BY <2>6 DEF CountFailure
    <3>2. job' = job /\ OnError(r.pc) = "reject"
      BY <3>1 DEF UpdateRule, redis, OnError
    <3>3. CASE counted' = counted /\ Goto(r, "reject")
      BY <3>1, <3>3, OutcomeGoto
    <3>4. CASE counted' = [counted EXCEPT ![r.exec] = stats] /\ Goto(r, "reject")
      BY <3>1, <3>2, <3>4, OutcomeCounted
    <3> QED
      BY <3>1, <3>2, <3>3, <3>4 DEF UpdateRule
  <2> QED
    BY <1>7, <2>1, <2>2, <2>3, <2>4, <2>5, <2>6 DEF RunStep
<1> QED
  BY <1>2, <1>3, <1>4, <1>5, <1>6, <1>7 DEF Next, QueueStep

-----------------------------------------------------------------------------
(* The trail of deliveries *)

LEMMA AuditIsMissing ==
  AuditTrail <=> (spent["crash"] = 0 =>
                    \A e \in Executions : Cardinality(Missing(e)) <= spent["refused"])
  BY DEF AuditTrail, Missing, Due

LEMMA MissingFinite ==
  ASSUME IInv, NEW e \in Executions
  PROVE  IsFiniteSet(Missing(e)) /\ Cardinality(Missing(e)) \in Nat
<1>1. job[e].attempts \in Nat /\ Missing(e) \subseteq 1 .. job[e].attempts
  BY DEF IInv, TypeOK, JobInv, Missing
<1> QED
  BY <1>1, IntervalFinite

\* Steps after which no request lacks a row that did not lack one before.
LEMMA AuditKept ==
  ASSUME IInv, AuditTrail, [Next]_vars,
         \A e \in Executions : Missing(e)' \subseteq Missing(e)
  PROVE  AuditTrail'
<1> SUFFICES ASSUME spent'["crash"] = 0, NEW e \in Executions
             PROVE  Cardinality(Missing(e)') <= spent'["refused"]
  BY DEF AuditTrail, Missing, Due
<1>1. /\ spent["refused"] \in Nat /\ spent'["refused"] \in Nat
      /\ spent["refused"] <= spent'["refused"] /\ spent["crash"] = 0
  BY SpentGrows DEF Occurrences
<1>2. /\ IsFiniteSet(Missing(e)) /\ Cardinality(Missing(e)) \in Nat
      /\ Cardinality(Missing(e)) <= spent["refused"]
  BY <1>1, MissingFinite, AuditIsMissing
<1>3. Cardinality(Missing(e)') \in Nat /\ Cardinality(Missing(e)') <= Cardinality(Missing(e))
  BY <1>2, SubsetCount
<1> QED
  BY <1>1, <1>2, <1>3

\* A run whose insert is next keeps its attempt due.
LEMMA DueKept ==
  ASSUME calls' = calls, deliveries' = deliveries,
         \A q \in runs : q.pc \in {"store", "storeError"} => q \in runs'
  PROVE  \A e \in Executions : Missing(e)' \subseteq Missing(e)
  BY DEF Missing, Due, RunsOf

\* The trail stays complete through every step.
LEMMA AuditStep ==
  ASSUME IInv, AuditTrail, [Next]_vars
  PROVE  AuditTrail'
<1>1. ASSUME calls' = calls, deliveries' = deliveries,
             \A q \in runs : q.pc \in {"store", "storeError"} => q \in runs'
      PROVE  AuditTrail'
  BY <1>1, DueKept, AuditKept
<1>2. CASE UNCHANGED vars
  BY <1>1, <1>2 DEF vars
<1>3. ASSUME NEW e \in Executions,
             CreateExecution(e) \/ EnqueueAction(e) \/ QueueStep(e) \/ LoseLock(e)
                \/ RetryExecution(e)
      PROVE  AuditTrail'
  BY <1>1, <1>3 DEF CreateExecution, EnqueueAction, QueueStep, Start, Promote, RecoverStalled,
                    LoseLock, RetryExecution, rows, world
<1>4. ASSUME NEW h \in handlers, HandlerStep(h)
      PROVE  AuditTrail'
  BY <1>1, <1>4 DEF HandlerStep, FindExecution, FindFailed, CreateFailed,
                    MarkPermanentlyFailed, EnqueueDeadLetter, rows, world
<1>5. CASE Crash
  <2>1. spent'["crash"] = spent["crash"] + 1 /\ spent["crash"] \in Nat
    BY <1>5 DEF Crash, Spend, IInv, TypeOK, Occurrences
  <2> QED
    BY <2>1 DEF AuditTrail
<1>6. ASSUME NEW r \in runs, RunStep(r)
      PROVE  AuditTrail'
  <2>0. /\ r.exec \in Executions
        /\ calls \in [Executions -> SUBSET Nat]
        /\ deliveries \in [Executions -> SUBSET Nat]
    BY RunTypes DEF IInv, TypeOK
  <2>1. CASE Begin(r) \/ Succeed(r) \/ Fail(r) \/ CountSuccess(r) \/ CountFailure(r)
                \/ ActPlaceholder(r) \/ Resolve(r) \/ Reject(r)
    <3>1. calls' = calls /\ deliveries' = deliveries /\ r.pc \notin {"store", "storeError"}
      BY <2>1 DEF Begin, Succeed, Fail, CountSuccess, CountFailure, ActPlaceholder, Resolve,
                  Reject, UpdateExecution, UpdateRule, rows, world
    <3>2. \A q \in runs : q # r => q \in runs'
      BY <1>6, OneRunMoves, GotoRuns
    <3> QED
      BY <1>1, <3>1, <3>2
  <2>2. ASSUME CallAnswered(r) \/ CallUnanswered(r)
        PROVE  AuditTrail'
    <3>1. PICK pc : pc \in {"store", "storeError"} /\ Goto(r, pc)
      BY <2>2 DEF CallAnswered, CallUnanswered
    <3>2. /\ deliveries' = deliveries
          /\ calls' = calls \/ calls' = [calls EXCEPT ![r.exec] = @ \cup {r.attempt}]
          /\ r.pc = "act"
      BY <2>2 DEF CallAnswered, CallUnanswered, rows
    <3>3. \A e \in Executions :
             calls'[e] \subseteq calls[e] \cup (IF e = r.exec THEN {r.attempt} ELSE {})
      BY <2>0, <3>2
    <3>4. r.attempt \in Due(r.exec)' /\ \A e \in Executions : Due(e) \subseteq Due(e)'
      <4> DEFINE moved == [r EXCEPT !.pc = pc]
      <4>1. moved.exec = r.exec /\ moved.attempt = r.attempt /\ moved.pc = pc
        BY MovedRun
      <4> HIDE DEF moved
      <4>2. moved \in runs' /\ \A q \in runs : q # r => q \in runs'
        BY <3>1, GotoRuns DEF moved
      <4>3. r.attempt \in Due(r.exec)'
        BY <3>1, <4>1, <4>2 DEF Due, RunsOf
      <4>4. \A e \in Executions : Due(e) \subseteq Due(e)'
        BY <3>2, <4>2 DEF Due, RunsOf
      <4> QED
        BY <4>3, <4>4
    <3>5. \A e \in Executions : Missing(e)' \subseteq Missing(e)
      BY <3>2, <3>3, <3>4 DEF Missing
    <3> QED
      BY <3>5, AuditKept
  <2>3. ASSUME StoreDelivery(r)
        PROVE  AuditTrail'
    <3>1. calls' = calls /\ \E pc : Goto(r, pc)
      BY <2>3 DEF StoreDelivery, world
    <3>2. \A e \in Executions :
             Due(e) \subseteq Due(e)' \cup (IF e = r.exec THEN {r.attempt} ELSE {})
      BY <3>1, GotoRuns DEF Due, RunsOf
    <3>3. CASE deliveries' = [deliveries EXCEPT ![r.exec] = @ \cup {r.attempt}]
      <4>1. \A e \in Executions :
               deliveries'[e] = deliveries[e] \cup (IF e = r.exec THEN {r.attempt} ELSE {})
        BY <2>0, <3>3
      <4>2. \A e \in Executions : Missing(e)' \subseteq Missing(e)
        BY <3>1, <3>2, <4>1 DEF Missing
      <4> QED
        BY <4>2, AuditKept
    <3>4. CASE deliveries' = deliveries /\ Spend("refused")
      <4> SUFFICES ASSUME spent'["crash"] = 0, NEW e \in Executions
                   PROVE  Cardinality(Missing(e)') <= spent'["refused"]
        BY DEF AuditTrail, Missing, Due
      <4>1. /\ spent'["refused"] = spent["refused"] + 1 /\ spent["refused"] \in Nat
            /\ spent["crash"] = 0
        BY <3>4 DEF Spend, IInv, TypeOK, Occurrences
      <4>2. Missing(e)' \subseteq Missing(e) \cup {r.attempt}
        BY <3>1, <3>2, <3>4 DEF Missing
      <4>3. /\ IsFiniteSet(Missing(e)) /\ Cardinality(Missing(e)) \in Nat
            /\ Cardinality(Missing(e)) <= spent["refused"]
        BY <4>1, MissingFinite, AuditIsMissing
      <4>4. /\ Cardinality(Missing(e)') \in Nat
            /\ Cardinality(Missing(e)') <= Cardinality(Missing(e)) + 1
        BY <4>2, <4>3, OneMoreCount
      <4> QED
        BY <4>1, <4>3, <4>4
    <3> QED
      BY <2>3, <3>3, <3>4 DEF StoreDelivery
  <2> QED
    BY <1>6, <2>1, <2>2, <2>3 DEF RunStep
<1> QED
  BY <1>2, <1>3, <1>4, <1>5, <1>6 DEF Next

-----------------------------------------------------------------------------
(* The properties *)

LEMMA InitRecord == Init => RecordInv
<1> SUFFICES ASSUME Init PROVE RecordInv
  OBVIOUS
<1>1. AnswerInv
  BY ConstantsAssumption DEF Init, AnswerInv, SuccessWasAnswered
<1>2. OutcomeInv
  <2>1. \A e \in Executions : Twice(e) = {}
    BY DEF Init, Twice
  <2>2. Cardinality({}) = 0 /\ spent["unacked"] = 0
    BY FS_EmptySet DEF Init, Occurrences
  <2>3. runs = {} /\ \A e \in Executions : counted[e].success = {} /\ counted[e].failure = {}
    BY DEF Init
  <2>4. \A e \in Executions : Cardinality(Twice(e)) <= spent["unacked"]
    BY <2>1, <2>2
  <2> QED
    BY <2>3, <2>4 DEF OutcomeInv
<1>3. AuditTrail
  <2>1. \A e \in Executions : Missing(e) = {}
    BY DEF Init, Missing
  <2>2. Cardinality({}) = 0 /\ spent["refused"] = 0
    BY FS_EmptySet DEF Init, Occurrences
  <2> QED
    BY <2>1, <2>2, AuditIsMissing
<1> QED
  BY <1>1, <1>2, <1>3 DEF RecordInv

\* What is on record of every action stays true to what happened.
THEOREM RecordIsInductive == Spec => []RecordInv
<1>1. IInv /\ RecordInv /\ [Next]_vars => RecordInv'
  BY AnswerStep, OutcomeStep, AuditStep DEF RecordInv
<1> QED
  BY <1>1, InitRecord, Inductive, PTL DEF Spec

\* A webhook action whose job BullMQ completed, or whose row says SUCCESS, was
\* answered by its target in some attempt.
THEOREM SuccessIsAnswered == Spec => []SuccessWasAnswered
<1>1. RecordInv => SuccessWasAnswered
  BY DEF RecordInv, AnswerInv
<1> QED
  BY <1>1, RecordIsInductive, PTL

\* successCount and failureCount count an attempt twice at most as often as
\* the reply to an applied statement was lost.
THEOREM OneOutcome == Spec => []OneOutcomePerAttempt
<1>1. ASSUME IInv, RecordInv
      PROVE  OneOutcomePerAttempt
  <2> SUFFICES ASSUME NEW e \in Executions
               PROVE  Cardinality(counted[e].success \cap counted[e].failure) <= spent["unacked"]
    BY DEF OneOutcomePerAttempt
  <2>1. counted[e].success \cap counted[e].failure \subseteq Twice(e)
    BY DEF Twice
  <2>2. OutcomeInv /\ spent["unacked"] \in Nat
    BY <1>1 DEF RecordInv, IInv, TypeOK, Occurrences
  <2>3. /\ IsFiniteSet(Twice(e)) /\ Cardinality(Twice(e)) \in Nat
        /\ Cardinality(Twice(e)) <= spent["unacked"]
    BY <1>1, <2>2, TwiceFinite DEF OutcomeInv
  <2> QED
    BY <2>1, <2>2, <2>3, SubsetCount
<1> QED
  BY <1>1, Inductive, RecordIsInductive, PTL

\* Unless the process crashed, the requests that reached a target and have no
\* row, nor an insert to come, are no more than the statements that failed.
THEOREM TrailIsComplete == Spec => []AuditTrail
<1>1. RecordInv => AuditTrail
  BY DEF RecordInv
<1> QED
  BY <1>1, RecordIsInductive, PTL
=============================================================================
