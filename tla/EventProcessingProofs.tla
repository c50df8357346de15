----------------------- MODULE EventProcessingProofs -----------------------
(***************************************************************************)
(* Theorems about EventProcessing, for every set of events and rules,      *)
(* every Concurrency, MaxAttempts and MaxStalled, and every budget.        *)
(***************************************************************************)
EXTENDS EventProcessing, FiniteSetTheorems, TLAPS

-----------------------------------------------------------------------------
(* Types *)

Pcs == {"evaluate", "mark", "create", "add", "count", "error", "resolve", "reject"}

JobRows == [state : JobStates, attempts : Nat, stalled : Nat, lock : Nat]

LEMMA InitType == Init => TypeOK
  BY ProcessingAssumption
  DEF Init, TypeOK, Statuses, JobStates, NewJob, Jobs, Occurrences

LEMMA SpendType ==
  ASSUME TypeOK, NEW k \in Occurrences, Spend(k)
  PROVE  spent' \in [Occurrences -> Nat]
  BY DEF TypeOK, Spend

LEMMA RunType ==
  ASSUME TypeOK, NEW r \in runs
  PROVE  /\ r \in Runs /\ r.job \in Jobs /\ r.job[1] \in Events /\ r.attempt \in Nat
         /\ r.pc \in Pcs /\ r.matched \in SUBSET Rules /\ r.rest \in SUBSET Rules
         /\ r.rule \in Rules \cup {None} /\ r.index \in Nat
  BY DEF TypeOK, Runs, Jobs, Pcs

LEMMA SettleType ==
  ASSUME TypeOK, NEW j \in Jobs, NEW state \in JobStates, Settle(j, state)
  PROVE  job' \in [Jobs -> JobRows]
  BY DEF TypeOK, Settle, JobRows

\* Where a run goes when its statement fails.
Failed(r) == [r EXCEPT !.pc = IF r.pc = "error" THEN "reject" ELSE "error"]

LEMMA FailedType ==
  ASSUME TypeOK, NEW r \in runs
  PROVE  Failed(r) \in Runs
  BY RunType DEF Failed, Runs, Pcs

LEMMA BecomeType ==
  ASSUME TypeOK, NEW r \in runs, NEW next \in Runs, Become(r, next)
  PROVE  runs' \subseteq Runs
  BY DEF TypeOK, Become

\* A statement ends in the next step of the run or in the step for its failure.
LEMMA RefusedIs ==
  ASSUME TypeOK, NEW r \in runs, Refused(r)
  PROVE  Become(r, Failed(r)) /\ spent' \in [Occurrences -> Nat]
  BY SpendType DEF Refused, OnError, Goto, Failed, Occurrences

LEMMA AnsweredIs ==
  ASSUME TypeOK, NEW r \in runs, NEW next, Answered(r, next)
  PROVE  /\ Become(r, next) \/ Become(r, Failed(r))
         /\ spent' \in [Occurrences -> Nat]
  BY SpendType DEF Answered, OnError, Goto, Failed, Occurrences, TypeOK

LEMMA NextRulesType ==
  ASSUME TypeOK, NEW r \in runs, NEW next \in NextRules(r)
  PROVE  next \in Runs
<1>0. r \in Runs /\ r.rest \in SUBSET Rules
  BY RunType
<1>1. CASE r.rest = {}
  <2>1. next = [r EXCEPT !.pc = "resolve", !.rule = None, !.index = 0]
    BY <1>1 DEF NextRules
  <2> QED
    BY <1>0, <2>1 DEF Runs
<1>2. CASE r.rest # {}
  <2>1. PICK x \in r.rest :
           next = [r EXCEPT !.pc = "create", !.rest = r.rest \ {x}, !.rule = x,
                            !.index = 1]
    BY <1>2 DEF NextRules
  <2> QED
    BY <1>0, <2>1 DEF Runs
<1> QED
  BY <1>1, <1>2

LEMMA NextActionType ==
  ASSUME TypeOK, NEW r \in runs
  PROVE  NextAction(r) \in Runs
<1>0. r \in Runs /\ r.index + 1 \in Nat
  BY RunType
<1>1. [r EXCEPT !.pc = "create", !.index = r.index + 1] \in Runs
  BY <1>0 DEF Runs
<1>2. [r EXCEPT !.pc = "count"] \in Runs
  BY <1>0 DEF Runs
<1> QED
  BY <1>1, <1>2 DEF NextAction

\* In its loops a run is at a rule, and the row it names is well formed.
LEMMA RowType ==
  ASSUME TypeOK, LoopInv, NEW r \in runs, r.pc \in {"create", "add", "count"}
  PROVE  r.rule \in Rules /\ Row(r) \in Executions
  BY RunType DEF LoopInv, LoopOK, Row, Executions

LEMMA RunStepType ==
  ASSUME IInv, NEW r \in runs, RunStep(r)
  PROVE  TypeOK'
<1> USE DEF IInv
<1>0. /\ r \in Runs /\ r.job \in Jobs /\ r.job[1] \in Events /\ r.attempt \in Nat
      /\ r.pc \in Pcs /\ r.matched \in SUBSET Rules
  BY RunType
<1>1. CASE Evaluate(r)
  <2>1. PICK next \in Runs : Become(r, next) /\ spent' \in [Occurrences -> Nat]
    <3>1. CASE Refused(r)
      BY <3>1, RefusedIs, FailedType
    <3>2. CASE ~Refused(r)
      <4>1. [r EXCEPT !.pc = "mark", !.matched = FindMatchingRules(r.job[1]),
                      !.rest = FindMatchingRules(r.job[1])] \in Runs
        BY <1>0, ProcessingAssumption DEF FindMatchingRules, Runs, TypeOK
      <4> QED
        BY <1>1, <3>2, <4>1 DEF Evaluate, TypeOK
    <3> QED
      BY <3>1, <3>2
  <2> QED
    BY <1>1, <2>1, BecomeType DEF Evaluate, TypeOK, event, fanout
<1>2. CASE Mark(r)
  <2>1. PICK next \in Runs : Become(r, next) /\ spent' \in [Occurrences -> Nat]
    BY <1>2, RefusedIs, AnsweredIs, FailedType, NextRulesType DEF Mark
  <2>2. Cardinality(r.matched) \in Nat
    BY <1>0, ProcessingAssumption, FS_Subset, FS_CardinalityType
  <2>3. status' \in [Events -> Statuses] /\ matched' \in [Events -> Nat]
    BY <1>0, <1>2, <2>2 DEF Mark, TypeOK, Statuses, event
  <2> QED
    BY <1>2, <2>1, <2>3, BecomeType DEF Mark, TypeOK, fanout
<1>3. CASE CreateExecution(r)
  <2>1. PICK next \in Runs : Become(r, next) /\ spent' \in [Occurrences -> Nat]
    <3>1. [r EXCEPT !.pc = "add"] \in Runs
      BY <1>0 DEF Runs
    <3> QED
      BY <1>3, <3>1, RefusedIs, AnsweredIs, FailedType DEF CreateExecution
  <2>2. executions' \subseteq Executions
    BY <1>3, RowType DEF CreateExecution, TypeOK
  <2> QED
    BY <1>3, <2>1, <2>2, BecomeType DEF CreateExecution, TypeOK, event
<1>4. CASE EnqueueAction(r)
  <2>1. PICK next \in Runs : Become(r, next) /\ spent' \in [Occurrences -> Nat]
    BY <1>4, RefusedIs, AnsweredIs, FailedType, NextActionType DEF EnqueueAction
  <2>2. queued' \subseteq Executions
    BY <1>4, RowType DEF EnqueueAction, TypeOK
  <2> QED
    BY <1>4, <2>1, <2>2, BecomeType DEF EnqueueAction, TypeOK, event
<1>5. CASE CountRule(r)
  <2>1. PICK next \in Runs : Become(r, next) /\ spent' \in [Occurrences -> Nat]
    BY <1>5, RefusedIs, AnsweredIs, FailedType, NextRulesType DEF CountRule
  <2>2. counted' \in [Rules -> SUBSET (Jobs \X Nat)]
    BY <1>0, <1>5, RowType DEF CountRule, TypeOK
  <2> QED
    BY <1>5, <2>1, <2>2, BecomeType DEF CountRule, TypeOK, event
<1>6. CASE MarkError(r)
  <2>1. PICK next \in Runs : Become(r, next) /\ spent' \in [Occurrences -> Nat]
    <3>1. [r EXCEPT !.pc = "reject"] \in Runs
      BY <1>0 DEF Runs
    <3> QED
      BY <1>6, <3>1, RefusedIs, AnsweredIs, FailedType DEF MarkError
  <2>2. status' \in [Events -> Statuses]
    BY <1>0, <1>6 DEF MarkError, TypeOK, Statuses
  <2> QED
    BY <1>6, <2>1, <2>2, BecomeType DEF MarkError, TypeOK, fanout
<1>7. CASE Resolve(r) \/ Reject(r)
  <2>1. job' \in [Jobs -> JobRows]
    BY <1>0, <1>7, SettleType DEF Resolve, Reject, TypeOK, JobRows, JobStates
  <2> QED
    BY <1>7, <2>1 DEF Resolve, Reject, TypeOK, event, fanout, JobRows
<1> QED
  BY <1>1, <1>2, <1>3, <1>4, <1>5, <1>6, <1>7 DEF RunStep

LEMMA CallType ==
  ASSUME TypeOK, NEW c \in calls
  PROVE  /\ c \in Calls /\ c.event \in Events /\ c.nr \in 0 .. Budget["reprocess"]
         /\ c.pc \in {"reset", "add", "update"}
  BY DEF TypeOK, Calls

LEMMA ContinueType ==
  ASSUME TypeOK, NEW c \in calls, NEW pc \in {"reset", "add", "update"},
         Continue(c, pc)
  PROVE  calls' \subseteq Calls
<1>1. [c EXCEPT !.pc = pc] \in Calls
  BY CallType DEF Calls
<1> QED
  BY <1>1 DEF Continue, TypeOK

LEMMA CallStepType ==
  ASSUME TypeOK, NEW c \in calls, CallStep(c)
  PROVE  TypeOK'
<1>0. c \in Calls /\ c.event \in Events /\ c.nr \in 0 .. Budget["reprocess"]
  BY CallType
<1>1. CASE AddEventJob(c)
  <2>1. calls' \subseteq Calls /\ spent' \in [Occurrences -> Nat]
    BY <1>1, ContinueType, SpendType DEF AddEventJob, Return, TypeOK, Occurrences
  <2>2. job' \in [Jobs -> JobRows]
    <3>1. CASE UNCHANGED job
      BY <3>1 DEF TypeOK, JobRows
    <3>2. CASE ~ UNCHANGED job
      <4>1. PICK n \in IF c.nr = 0 THEN {0} ELSE 1 .. c.nr :
               job' = [job EXCEPT ![<<c.event, n>>] =
                         IF job[<<c.event, n>>].state = "none" THEN NewJob("waiting")
                         ELSE job[<<c.event, n>>]]
        BY <1>1, <3>2 DEF AddEventJob
      <4>2. <<c.event, n>> \in Jobs
        BY <1>0, ProcessingAssumption DEF Jobs, Occurrences
      <4> QED
        BY <4>1, <4>2 DEF TypeOK, JobRows, NewJob, JobStates
    <3> QED
      BY <3>1, <3>2
  <2> QED
    BY <1>1, <2>1, <2>2 DEF AddEventJob, TypeOK, JobRows, event, fanout
<1>2. CASE UpdateStatus(c)
  BY <1>0, <1>2, SpendType
  DEF UpdateStatus, Return, TypeOK, Statuses, fanout, Occurrences
<1>3. CASE ResetStatus(c)
  <2>1. calls' \subseteq Calls /\ spent' \in [Occurrences -> Nat]
    BY <1>3, ContinueType, SpendType DEF ResetStatus, Return, TypeOK, Occurrences
  <2> QED
    BY <1>0, <1>3, <2>1 DEF ResetStatus, TypeOK, Statuses, event, fanout
<1> QED
  BY <1>1, <1>2, <1>3 DEF CallStep

LEMMA EventStepType ==
  ASSUME TypeOK, NEW e \in Events, CreateEvent(e) \/ ReprocessEvent(e)
  PROVE  TypeOK'
<1> USE ProcessingAssumption
<1>1. CASE CreateEvent(e)
  <2>1. [event |-> e, nr |-> 0, pc |-> "add"] \in Calls
    BY DEF Calls, Occurrences
  <2> QED
    BY <1>1, <2>1 DEF CreateEvent, TypeOK, Statuses, fanout
<1>2. CASE ReprocessEvent(e)
  <2>1. [event |-> e, nr |-> spent["reprocess"] + 1, pc |-> "reset"] \in Calls
    BY <1>2 DEF ReprocessEvent, Spend, TypeOK, Calls, Occurrences
  <2>2. spent' \in [Occurrences -> Nat]
    BY <1>2, SpendType DEF ReprocessEvent, Occurrences
  <2> QED
    BY <1>2, <2>1, <2>2 DEF ReprocessEvent, TypeOK, event, fanout
<1> QED
  BY <1>1, <1>2

LEMMA StartRun ==
  ASSUME TypeOK, NEW j \in Jobs
  PROVE  [job |-> j, attempt |-> job[j].attempts + 1, pc |-> "evaluate", matched |-> {},
          rest |-> {}, rule |-> None, index |-> 0] \in Runs
  BY DEF TypeOK, Runs

LEMMA JobStepType ==
  ASSUME TypeOK, NEW j \in Jobs, QueueStep(j) \/ LoseLock(j)
  PROVE  TypeOK'
<1> USE ProcessingAssumption
<1>1. CASE Start(j)
  <2>1. job' \in [Jobs -> JobRows]
    BY <1>1 DEF Start, TypeOK, JobRows, JobStates
  <2>2. runs' \subseteq Runs
    BY <1>1, StartRun DEF Start, TypeOK
  <2> QED
    BY <1>1, <2>1, <2>2 DEF Start, TypeOK, JobRows, event, fanout
<1>2. CASE Promote(j)
  BY <1>2, SettleType DEF Promote, TypeOK, JobRows, JobStates, event, fanout
<1>3. CASE RecoverStalled(j)
  <2>1. job' \in [Jobs -> JobRows]
    BY <1>3 DEF RecoverStalled, TypeOK, JobRows, JobStates
  <2> QED
    BY <1>3, <2>1 DEF RecoverStalled, TypeOK, JobRows, event, fanout
<1>4. CASE LoseLock(j)
  BY <1>4, SettleType, SpendType
  DEF LoseLock, TypeOK, JobRows, JobStates, Occurrences, event, fanout
<1> QED
  BY <1>1, <1>2, <1>3, <1>4 DEF QueueStep

LEMMA OtherStepType ==
  ASSUME TypeOK, Crash \/ \E x \in Rules : ToggleRule(x)
  PROVE  TypeOK'
<1>1. CASE Crash
  <2>1. job' \in [Jobs -> JobRows]
    BY <1>1 DEF Crash, TypeOK, JobRows
  <2>2. spent' \in [Occurrences -> Nat]
    BY <1>1, SpendType DEF Crash, Occurrences
  <2> QED
    BY <1>1, <2>1, <2>2 DEF Crash, TypeOK, JobRows, event, fanout
<1>2. CASE \E x \in Rules : ToggleRule(x)
  BY <1>2, SpendType DEF ToggleRule, TypeOK, Occurrences, event, fanout
<1> QED
  BY <1>1, <1>2

-----------------------------------------------------------------------------
(* Jobs *)

\* A job as it is between two steps.
JobOK(row) ==
    /\ row.lock \in {0, row.attempts}
    /\ row.lock # 0 => row.state = "active"
    /\ row.attempts <= MaxAttempts + MaxStalled
    /\ row.state = "none" => row.attempts = 0
    /\ row.state = "active" => row.attempts \in 1 .. MaxAttempts + row.stalled
    /\ row.state \in {"waiting", "delayed"} => row.attempts < MaxAttempts + row.stalled
    /\ row.state \in {"waiting", "delayed", "active"} => row.stalled <= MaxStalled

\* Every step leaves the jobs well formed and never takes back an attempt.
JobsAdvance ==
    \A j \in Jobs : JobOK(job'[j]) /\ job[j].attempts <= job'[j].attempts

LEMMA JobInvIs == JobInv <=> \A j \in Jobs : JobOK(job[j])
  BY DEF JobInv, JobOK

LEMMA JobInvNext == TypeOK /\ JobsAdvance => JobInv'
  BY DEF JobInv, JobsAdvance, JobOK

LEMMA JobsStay ==
  ASSUME TypeOK, JobInv, UNCHANGED job
  PROVE  JobsAdvance
  BY JobInvIs DEF JobsAdvance, TypeOK

\* One job changes: the others keep what they had.
LEMMA OneJobAdvances ==
  ASSUME TypeOK, JobInv, NEW j \in Jobs,
         job' = [job EXCEPT ![j] = job'[j]],
         JobOK(job'[j]), job[j].attempts <= job'[j].attempts
  PROVE  JobsAdvance
<1>1. \A i \in Jobs : i # j => job'[i] = job[i] /\ job[i].attempts \in Nat
  BY DEF TypeOK
<1> QED
  BY <1>1, JobInvIs DEF JobsAdvance, TypeOK

LEMMA AddAdvances ==
  ASSUME TypeOK, JobInv, NEW c \in calls, AddEventJob(c)
  PROVE  JobsAdvance
<1>1. CASE UNCHANGED job
  BY <1>1, JobsStay
<1>2. CASE ~ UNCHANGED job
  <2>0. c.event \in Events /\ c.nr \in 0 .. Budget["reprocess"]
    BY CallType
  <2>1. PICK n \in IF c.nr = 0 THEN {0} ELSE 1 .. c.nr :
           job' = [job EXCEPT ![<<c.event, n>>] =
                     IF job[<<c.event, n>>].state = "none" THEN NewJob("waiting")
                     ELSE job[<<c.event, n>>]]
    BY <1>2 DEF AddEventJob
  <2> DEFINE j == <<c.event, n>>
  <2>2. j \in Jobs
    BY <2>0, ProcessingAssumption DEF Jobs, Occurrences
  <2> HIDE DEF j
  <2>3. job'[j] = IF job[j].state = "none" THEN NewJob("waiting") ELSE job[j]
    BY <2>1, <2>2 DEF j, TypeOK
  <2>4. job' = [job EXCEPT ![j] = job'[j]]
    BY <2>1, <2>3 DEF j
  <2>5. JobOK(job[j]) /\ job[j].attempts \in Nat
    BY <2>2, JobInvIs DEF TypeOK
  <2>6. JobOK(job'[j]) /\ job[j].attempts <= job'[j].attempts
    BY <2>2, <2>3, <2>5, ProcessingAssumption DEF NewJob, JobOK
  <2> QED
    BY <2>2, <2>4, <2>6, OneJobAdvances
<1> QED
  BY <1>1, <1>2

LEMMA QueueAdvances ==
  ASSUME TypeOK, JobInv, NEW j \in Jobs, QueueStep(j) \/ LoseLock(j)
  PROVE  JobsAdvance
<1>0. JobOK(job[j]) /\ job[j].attempts \in Nat /\ job[j].stalled \in Nat
  BY JobInvIs DEF TypeOK
<1>1. job' = [job EXCEPT ![j] = job'[j]]
  BY DEF QueueStep, Start, Promote, RecoverStalled, LoseLock, Settle, TypeOK
<1>2. CASE Start(j)
  <2>1. job'[j] = [state |-> "active", attempts |-> job[j].attempts + 1,
                   stalled |-> job[j].stalled, lock |-> job[j].attempts + 1]
    BY <1>2 DEF Start, TypeOK
  <2>2. job[j].state = "waiting"
    BY <1>2 DEF Start
  <2>3. JobOK(job'[j]) /\ job[j].attempts <= job'[j].attempts
    BY <1>0, <2>1, <2>2, ProcessingAssumption DEF JobOK
  <2> QED
    BY <1>1, <2>3, OneJobAdvances
<1>3. CASE Promote(j)
  <2>1. job'[j] = [state |-> "waiting", attempts |-> job[j].attempts,
                   stalled |-> job[j].stalled, lock |-> 0]
    BY <1>3 DEF Promote, Settle, TypeOK
  <2>2. job[j].state = "delayed"
    BY <1>3 DEF Promote
  <2>3. JobOK(job'[j]) /\ job[j].attempts <= job'[j].attempts
    BY <1>0, <2>1, <2>2, ProcessingAssumption DEF JobOK
  <2> QED
    BY <1>1, <2>3, OneJobAdvances
<1>4. CASE RecoverStalled(j)
  <2>1. job'[j] = [state |-> IF job[j].stalled + 1 > MaxStalled THEN "failed"
                             ELSE "waiting",
                   attempts |-> job[j].attempts, stalled |-> job[j].stalled + 1,
                   lock |-> 0]
    BY <1>4 DEF RecoverStalled, TypeOK
  <2>2. job[j].state = "active"
    BY <1>4 DEF RecoverStalled
  <2>3. JobOK(job'[j]) /\ job[j].attempts <= job'[j].attempts
    BY <1>0, <2>1, <2>2, ProcessingAssumption DEF JobOK
  <2> QED
    BY <1>1, <2>3, OneJobAdvances
<1>5. CASE LoseLock(j)
  <2>1. job'[j] = [state |-> "active", attempts |-> job[j].attempts,
                   stalled |-> job[j].stalled, lock |-> 0]
    BY <1>5 DEF LoseLock, Settle, TypeOK
  <2>2. job[j].state = "active"
    BY <1>5 DEF LoseLock
  <2>3. JobOK(job'[j]) /\ job[j].attempts <= job'[j].attempts
    BY <1>0, <2>1, <2>2, ProcessingAssumption DEF JobOK
  <2> QED
    BY <1>1, <2>3, OneJobAdvances
<1> QED
  BY <1>2, <1>3, <1>4, <1>5 DEF QueueStep

\* Only the run that holds the lock settles its job, and with it the lock goes.
LEMMA SettleAdvances ==
  ASSUME TypeOK, JobInv, RunInv, NEW r \in runs, Resolve(r) \/ Reject(r)
  PROVE  JobsAdvance
<1>1. CASE UNCHANGED job
  BY <1>1, JobsStay
<1>2. CASE ~ UNCHANGED job
  <2> DEFINE j == r.job
  <2>0. j \in Jobs /\ r.attempt \in Nat /\ r.attempt \in 1 .. job[j].attempts
    BY RunType DEF RunInv
  <2> HIDE DEF j
  <2>1. job[j].lock = r.attempt
    BY <1>2 DEF Resolve, Reject, HoldsLock, j
  <2>2. PICK state \in JobStates :
          /\ state = "delayed" => r.attempt < MaxAttempts
          /\ state \in {"completed", "failed", "delayed"}
          /\ Settle(j, state)
    <3>1. CASE Resolve(r)
      <4>1. Settle(j, "completed")
        BY <1>2, <3>1 DEF Resolve, j
      <4> QED
        BY <4>1 DEF JobStates
    <3>2. CASE Reject(r) /\ r.attempt < MaxAttempts
      <4>1. Settle(j, "delayed")
        BY <1>2, <3>2 DEF Reject, j
      <4> QED
        BY <3>2, <4>1 DEF JobStates
    <3>3. CASE Reject(r) /\ ~(r.attempt < MaxAttempts)
      <4>1. Settle(j, "failed")
        BY <1>2, <3>3 DEF Reject, j
      <4> QED
        BY <4>1 DEF JobStates
    <3> QED
      BY <3>1, <3>2, <3>3
  <2>3. JobOK(job[j]) /\ job[j].attempts \in Nat /\ job[j].stalled \in Nat
    BY <2>0, JobInvIs DEF TypeOK
  <2>4. job'[j] = [state |-> state, attempts |-> job[j].attempts,
                   stalled |-> job[j].stalled, lock |-> 0]
    BY <2>0, <2>2 DEF Settle, TypeOK
  <2>5. job' = [job EXCEPT ![j] = job'[j]]
    BY <2>2, <2>4 DEF Settle
  <2>6. JobOK(job'[j]) /\ job[j].attempts <= job'[j].attempts
    BY <2>0, <2>1, <2>2, <2>3, <2>4, ProcessingAssumption DEF JobOK
  <2> QED
    BY <2>0, <2>5, <2>6, OneJobAdvances
<1> QED
  BY <1>1, <1>2

LEMMA CrashAdvances ==
  ASSUME TypeOK, JobInv, Crash
  PROVE  JobsAdvance
<1> SUFFICES ASSUME NEW j \in Jobs
             PROVE  JobOK(job'[j]) /\ job[j].attempts <= job'[j].attempts
  BY DEF JobsAdvance
<1>1. JobOK(job[j]) /\ job[j].attempts \in Nat
  BY JobInvIs DEF TypeOK
<1>2. job'[j] = [state |-> job[j].state, attempts |-> job[j].attempts,
                 stalled |-> job[j].stalled, lock |-> 0]
  BY DEF Crash
<1> QED
  BY <1>1, <1>2 DEF JobOK

-----------------------------------------------------------------------------
(* Runs and rows *)

\* A step of a run replaces it by its next state or ends it.
Advances(r) == runs' = runs \ {r} \/ \E n \in Runs :
                  n.job = r.job /\ n.attempt = r.attempt /\ Become(r, n)

LEMMA FailedKeeps ==
  ASSUME TypeOK, NEW r \in runs
  PROVE  Failed(r).job = r.job /\ Failed(r).attempt = r.attempt
  BY RunType DEF Failed, Runs

LEMMA NextRulesKeeps ==
  ASSUME TypeOK, NEW r \in runs, NEW next \in NextRules(r)
  PROVE  next.job = r.job /\ next.attempt = r.attempt
<1>0. r \in Runs
  BY RunType
<1>1. CASE r.rest = {}
  BY <1>0, <1>1 DEF NextRules, Runs
<1>2. CASE r.rest # {}
  BY <1>0, <1>2 DEF NextRules, Runs
<1> QED
  BY <1>1, <1>2

LEMMA NextActionKeeps ==
  ASSUME TypeOK, NEW r \in runs
  PROVE  NextAction(r).job = r.job /\ NextAction(r).attempt = r.attempt
  BY RunType DEF NextAction, Runs

LEMMA RunAdvances ==
  ASSUME TypeOK, NEW r \in runs, RunStep(r)
  PROVE  Advances(r)
<1>0. r \in Runs
  BY RunType
<1>1. CASE Become(r, Failed(r))
  BY <1>1, FailedType, FailedKeeps DEF Advances
<1>2. CASE Evaluate(r) /\ ~Refused(r)
  <2> DEFINE n == [r EXCEPT !.pc = "mark", !.matched = FindMatchingRules(r.job[1]),
                            !.rest = FindMatchingRules(r.job[1])]
  <2>1. n \in Runs /\ n.job = r.job /\ n.attempt = r.attempt
    BY <1>0, RunType, ProcessingAssumption DEF FindMatchingRules, Runs, TypeOK
  <2>2. Become(r, n)
    BY <1>2 DEF Evaluate
  <2> QED
    BY <2>1, <2>2 DEF Advances
<1>3. CASE \E n \in NextRules(r) : Become(r, n)
  BY <1>3, NextRulesType, NextRulesKeeps DEF Advances
<1>4. CASE Become(r, NextAction(r))
  BY <1>4, NextActionType, NextActionKeeps DEF Advances
<1>5. CASE \E pc \in Pcs : Become(r, [r EXCEPT !.pc = pc])
  <2>1. PICK pc \in Pcs : Become(r, [r EXCEPT !.pc = pc])
    BY <1>5
  <2>2. [r EXCEPT !.pc = pc] \in Runs
    BY <1>0 DEF Runs, Pcs
  <2>3. [r EXCEPT !.pc = pc].job = r.job /\ [r EXCEPT !.pc = pc].attempt = r.attempt
    BY <1>0 DEF Runs
  <2> QED
    BY <2>1, <2>2, <2>3 DEF Advances
<1>6. Refused(r) => Become(r, Failed(r))
  BY RefusedIs
<1>7. Mark(r) \/ CountRule(r) =>
         Become(r, Failed(r)) \/ \E n \in NextRules(r) : Become(r, n)
  BY <1>6, AnsweredIs DEF Mark, CountRule
<1>8. EnqueueAction(r) => Become(r, Failed(r)) \/ Become(r, NextAction(r))
  BY <1>6, AnsweredIs DEF EnqueueAction
<1>9. CreateExecution(r) => Become(r, Failed(r)) \/ Become(r, [r EXCEPT !.pc = "add"])
  BY <1>6, AnsweredIs DEF CreateExecution
<1>10. MarkError(r) => Become(r, Failed(r)) \/ Become(r, [r EXCEPT !.pc = "reject"])
  BY <1>6, AnsweredIs DEF MarkError
<1>11. Resolve(r) \/ Reject(r) => Advances(r)
  BY DEF Resolve, Reject, Advances
<1> QED
  BY <1>1, <1>2, <1>3, <1>4, <1>5, <1>6, <1>7, <1>8, <1>9, <1>10, <1>11
  DEF RunStep, Pcs

\* The runs stay distinct, whatever else the step changed.
LEMMA RunInvNext ==
  ASSUME TypeOK, RunInv, JobsAdvance, TypeOK', NEW r \in runs, Advances(r)
  PROVE  RunInv'
<1>1. \A q \in runs' : \E p \in runs :
         /\ q.job = p.job /\ q.attempt = p.attempt
         /\ p # r => q = p
         /\ p = r => q \notin runs \ {r}
  BY DEF Advances, Become, RunInv
<1>2. \A q \in runs' : q.attempt \in 1 .. job'[q.job].attempts
  BY <1>1, RunType DEF RunInv, JobsAdvance, TypeOK
<1>3. \A q1, q2 \in runs' : q1.job = q2.job /\ q1.attempt = q2.attempt => q1 = q2
  BY DEF Advances, Become, RunInv
<1> QED
  BY <1>2, <1>3 DEF RunInv

\* What one step of a run may do to the rows: its own row is added, nothing is
\* taken away.
Grows(r) ==
    /\ executions' \in {executions, executions \cup {Row(r)}}
    /\ queued \subseteq queued'
    /\ \A x \in Rules : counted[x] \subseteq counted'[x]

LEMMA CompleteStays ==
  ASSUME queued \subseteq queued', NEW j, NEW a, NEW x, Complete(j, a, x)
  PROVE  Complete(j, a, x)'
  BY DEF Complete

\* Another run's loops do not notice.
LEMMA OthersLoop ==
  ASSUME TypeOK, RunInv, NEW r \in runs, NEW q \in runs, q # r, LoopOK(q), Grows(r)
  PROVE  LoopOK(q)'
<1>1. Mine(q)' = Mine(q)
  <2>1. ~(q.job = r.job /\ q.attempt = r.attempt)
    BY DEF RunInv
  <2>2. Row(r).job = r.job /\ Row(r).attempt = r.attempt
    BY DEF Row
  <2> QED
    BY <2>1, <2>2 DEF Grows, Mine
<1>2. q.pc = "add" => Row(q)' \in executions'
  BY DEF LoopOK, Grows, Row
<1>3. Complete(q.job, q.attempt, q.rule) => Complete(q.job, q.attempt, q.rule)'
  BY DEF Grows, Complete
<1>4. \A x \in q.matched : counted[x] \subseteq counted'[x]
  BY RunType DEF Grows
<1> QED
  BY <1>1, <1>2, <1>3, <1>4 DEF LoopOK, Grows, Row

LEMMA LoopInvNext ==
  ASSUME TypeOK, RunInv, LoopInv, NEW r \in runs, Grows(r),
         NEW n, Become(r, n), LoopOK(n)'
  PROVE  LoopInv'
  BY OthersLoop DEF LoopInv, Become

LEMMA LoopInvEnd ==
  ASSUME TypeOK, RunInv, LoopInv, NEW r \in runs, Grows(r), runs' = runs \ {r}
  PROVE  LoopInv'
  BY OthersLoop DEF LoopInv

LEMMA FailedLoop ==
  ASSUME TypeOK, NEW r \in runs, LoopOK(r)
  PROVE  LoopOK(Failed(r))'
<1>1. Failed(r).pc \in {"error", "reject"} /\ Failed(r).rest \subseteq Failed(r).matched
  BY RunType DEF Failed, Runs, LoopOK
<1> QED
  BY <1>1 DEF LoopOK

\* The next rule begins: every earlier one is counted, none of its rows exists.
LEMMA NextRulesLoop ==
  ASSUME TypeOK, NEW r \in runs, NEW next \in NextRules(r), UNCHANGED executions,
         r.rest \subseteq r.matched,
         \A x \in Mine(r) : x.rule \notin r.rest,
         \A x \in r.matched \ r.rest : <<r.job, r.attempt>> \in counted'[x]
  PROVE  LoopOK(next)'
<1>0. r \in Runs /\ r.matched \in SUBSET Rules
  BY RunType
<1>1. Mine(next)' = Mine(r) /\ next.job = r.job /\ next.attempt = r.attempt
  BY NextRulesKeeps DEF Mine
<1>2. CASE r.rest = {}
  <2>1. /\ next.pc = "resolve" /\ next.rest = {} /\ next.rule = None
        /\ next.matched = r.matched
    BY <1>0, <1>2 DEF NextRules, Runs
  <2> QED
    BY <1>1, <1>2, <2>1 DEF LoopOK
<1>3. CASE r.rest # {}
  <2>1. PICK x \in r.rest :
           next = [r EXCEPT !.pc = "create", !.rest = r.rest \ {x}, !.rule = x,
                            !.index = 1]
    BY <1>3 DEF NextRules
  <2>2. /\ next.pc = "create" /\ next.rest = r.rest \ {x} /\ next.rule = x
        /\ next.index = 1 /\ next.matched = r.matched
    BY <1>0, <2>1 DEF Runs
  <2>3. x \in Rules /\ Actions[x] \in Nat \ {0}
    BY <1>0, ProcessingAssumption
  <2>4. next.index \in 1 .. Actions[next.rule] /\ 1 .. next.index - 1 = {}
    BY <2>2, <2>3
  <2>5. (next.matched \ next.rest) \ {next.rule} = r.matched \ r.rest
    BY <2>2
  <2>6. next.rule \in next.matched \ next.rest /\ next.rest \subseteq next.matched
    BY <2>2
  <2>7. \A y \in Mine(r) : y.rule \notin next.rest /\ y.rule # next.rule
    BY <2>2
  <2> QED
    BY <1>1, <2>2, <2>4, <2>5, <2>6, <2>7 DEF LoopOK
<1> QED
  BY <1>2, <1>3

LEMMA EvaluateLoop ==
  ASSUME TypeOK, RunInv, LoopInv, NEW r \in runs, Evaluate(r)
  PROVE  LoopInv'
<1>0. r \in Runs /\ LoopOK(r) /\ r.pc = "evaluate" /\ Grows(r)
  BY RunType DEF LoopInv, Evaluate, Grows, fanout
<1>1. CASE Refused(r)
  BY <1>0, <1>1, RefusedIs, FailedLoop, LoopInvNext
<1>2. CASE ~Refused(r)
  <2>1. PICK found : Become(r, [r EXCEPT !.pc = "mark", !.matched = found, !.rest = found])
    BY <1>2 DEF Evaluate
  <2> DEFINE n == [r EXCEPT !.pc = "mark", !.matched = found, !.rest = found]
  <2>2. /\ n.pc = "mark" /\ n.matched = found /\ n.rest = found
        /\ n.job = r.job /\ n.attempt = r.attempt
    BY <1>0 DEF Runs
  <2>3. Mine(n)' = {}
    BY <1>0, <2>2 DEF Mine, LoopOK, Evaluate, fanout
  <2>4. LoopOK(n)'
    BY <2>2, <2>3 DEF LoopOK
  <2> QED
    BY <1>0, <2>1, <2>4, LoopInvNext
<1> QED
  BY <1>1, <1>2

LEMMA MarkLoop ==
  ASSUME TypeOK, RunInv, LoopInv, NEW r \in runs, Mark(r)
  PROVE  LoopInv'
<1>0. /\ LoopOK(r) /\ r.pc = "mark" /\ Grows(r)
      /\ UNCHANGED <<executions, queued, counted>>
  BY DEF LoopInv, Mark, Grows, fanout
<1>1. CASE Become(r, Failed(r))
  BY <1>0, <1>1, FailedLoop, LoopInvNext
<1>2. CASE \E n \in NextRules(r) : Become(r, n)
  <2>1. PICK n \in NextRules(r) : Become(r, n)
    BY <1>2
  <2>2. LoopOK(n)'
    BY <1>0, NextRulesLoop DEF LoopOK
  <2> QED
    BY <1>0, <2>1, <2>2, LoopInvNext
<1> QED
  BY <1>1, <1>2, RefusedIs, AnsweredIs DEF Mark

LEMMA CountLoop ==
  ASSUME TypeOK, RunInv, LoopInv, NEW r \in runs, CountRule(r)
  PROVE  LoopInv'
<1>0. /\ LoopOK(r) /\ r.pc = "count" /\ UNCHANGED <<executions, queued>>
      /\ r.rule \in Rules
  BY RowType DEF LoopInv, CountRule
<1>1. Grows(r)
  BY <1>0 DEF CountRule, Grows, TypeOK
<1>2. CASE Become(r, Failed(r))
  BY <1>0, <1>1, <1>2, FailedLoop, LoopInvNext
<1>3. CASE /\ counted' = [counted EXCEPT ![r.rule] = @ \cup {<<r.job, r.attempt>>}]
           /\ \E n \in NextRules(r) : Become(r, n)
  <2>1. PICK n \in NextRules(r) : Become(r, n)
    BY <1>3
  <2>2. \A x \in r.matched \ r.rest : <<r.job, r.attempt>> \in counted'[x]
    BY <1>0, <1>3, RunType DEF LoopOK, TypeOK
  <2>3. LoopOK(n)'
    BY <1>0, <2>2, NextRulesLoop DEF LoopOK
  <2> QED
    BY <1>1, <2>1, <2>3, LoopInvNext
<1> QED
  BY <1>2, <1>3, RefusedIs, AnsweredIs DEF CountRule

LEMMA CreateLoop ==
  ASSUME TypeOK, RunInv, LoopInv, NEW r \in runs, CreateExecution(r)
  PROVE  LoopInv'
<1>0. r \in Runs /\ LoopOK(r) /\ r.pc = "create" /\ UNCHANGED <<queued, counted>>
  BY RunType DEF LoopInv, CreateExecution
<1>1. Grows(r)
  BY DEF CreateExecution, Grows
<1>2. CASE Become(r, Failed(r))
  BY <1>0, <1>1, <1>2, FailedLoop, LoopInvNext
<1>3. CASE /\ executions' = executions \cup {Row(r)}
           /\ Become(r, [r EXCEPT !.pc = "add"])
  <2> DEFINE n == [r EXCEPT !.pc = "add"]
  <2>1. /\ n.pc = "add" /\ n.job = r.job /\ n.attempt = r.attempt /\ n.rule = r.rule
        /\ n.index = r.index /\ n.matched = r.matched /\ n.rest = r.rest
    BY <1>0 DEF Runs
  <2> HIDE DEF n
  <2>2. Row(n) = Row(r)
    BY <2>1 DEF Row
  <2>3. \A x \in Mine(n)' : x \in Mine(r) \/ x = Row(r)
    BY <1>3, <2>1 DEF Mine
  <2>4. Row(r).rule = r.rule /\ Row(r).index = r.index
    BY DEF Row
  <2>5. r.index \in Nat /\ \A x \in Mine(r) : x.index \in Nat
    BY RunType DEF TypeOK, Mine, Executions
  <2>6. \A x \in Mine(n)' : x.rule \notin r.rest /\ (x.rule = r.rule => x.index <= r.index)
    BY <1>0, <2>3, <2>4, <2>5 DEF LoopOK
  <2>7. LoopOK(n)'
    BY <1>0, <1>3, <2>1, <2>2, <2>6 DEF LoopOK
  <2>8. Become(r, n)
    BY <1>3 DEF n
  <2> QED
    BY <1>1, <2>7, <2>8, LoopInvNext
<1> QED
  BY <1>2, <1>3, RefusedIs, AnsweredIs DEF CreateExecution

LEMMA EnqueueLoop ==
  ASSUME TypeOK, RunInv, LoopInv, NEW r \in runs, EnqueueAction(r)
  PROVE  LoopInv'
<1>0. /\ r \in Runs /\ LoopOK(r) /\ r.pc = "add" /\ UNCHANGED <<executions, counted>>
      /\ r.rule \in Rules /\ r.index \in Nat /\ Actions[r.rule] \in Nat
  BY RunType, RowType, ProcessingAssumption DEF LoopInv, EnqueueAction
<1>1. Grows(r)
  BY DEF EnqueueAction, Grows
<1>2. CASE Become(r, Failed(r))
  BY <1>0, <1>1, <1>2, FailedLoop, LoopInvNext
<1>3. CASE queued' = queued \cup {Row(r)} /\ Become(r, NextAction(r))
  <2>1. PICK n : n = NextAction(r)
    OBVIOUS
  <2>2. /\ n.job = r.job /\ n.attempt = r.attempt /\ n.rule = r.rule
        /\ n.matched = r.matched /\ n.rest = r.rest
    BY <1>0, <2>1 DEF NextAction, Runs
  <2>3. Mine(n)' = Mine(r)
    BY <1>0, <2>2 DEF Mine
  <2>4. \A i \in 1 .. r.index : [Row(r) EXCEPT !.index = i] \in queued'
    <3>1. Row(r) = [Row(r) EXCEPT !.index = r.index]
      BY DEF Row
    <3> QED
      BY <1>0, <1>3, <3>1 DEF LoopOK
  <2>5. \A x \in Mine(r) : x.index \in Nat
    BY DEF TypeOK, Mine, Executions
  <2>6. CASE r.index < Actions[r.rule]
    <3>1. n.pc = "create" /\ n.index = r.index + 1
      BY <1>0, <2>1, <2>6 DEF NextAction, Runs
    <3>2. \A i : [Row(n) EXCEPT !.index = i] = [Row(r) EXCEPT !.index = i]
      BY <2>2 DEF Row
    <3>3. 1 .. n.index - 1 = 1 .. r.index /\ n.index \in 1 .. Actions[n.rule]
      BY <1>0, <2>2, <2>6, <3>1
    <3>4. \A x \in Mine(r) : x.rule = n.rule => x.index < n.index
      BY <1>0, <2>2, <2>5, <3>1 DEF LoopOK
    <3>5. \A i \in 1 .. n.index - 1 : [Row(n) EXCEPT !.index = i] \in queued'
      BY <2>4, <3>2, <3>3
    <3>6. LoopOK(n)'
      BY <1>0, <2>2, <2>3, <3>1, <3>3, <3>4, <3>5 DEF LoopOK, Row
    <3> QED
      BY <1>1, <1>3, <2>1, <3>6, LoopInvNext
  <2>7. CASE ~(r.index < Actions[r.rule])
    <3>1. n.pc = "count"
      BY <1>0, <2>1, <2>7 DEF NextAction, Runs
    <3>2. \A i : [Row(r) EXCEPT !.index = i] =
                   [job |-> n.job, attempt |-> n.attempt, rule |-> n.rule, index |-> i]
      BY <2>2 DEF Row
    <3>3. \A i \in 1 .. Actions[n.rule] : i \in 1 .. r.index
      BY <1>0, <2>2, <2>7
    <3>4. Complete(n.job, n.attempt, n.rule)'
      BY <2>4, <3>2, <3>3 DEF Complete
    <3>5. LoopOK(n)'
      BY <1>0, <2>2, <2>3, <3>1, <3>4 DEF LoopOK
    <3> QED
      BY <1>1, <1>3, <2>1, <3>5, LoopInvNext
  <2> QED
    BY <2>6, <2>7
<1> QED
  BY <1>2, <1>3, RefusedIs, AnsweredIs DEF EnqueueAction

LEMMA ErrorLoop ==
  ASSUME TypeOK, RunInv, LoopInv, NEW r \in runs, MarkError(r)
  PROVE  LoopInv'
<1>0. r \in Runs /\ LoopOK(r) /\ Grows(r)
  BY RunType DEF LoopInv, MarkError, Grows, fanout
<1>1. CASE Become(r, Failed(r))
  BY <1>0, <1>1, FailedLoop, LoopInvNext
<1>2. CASE Become(r, [r EXCEPT !.pc = "reject"])
  <2>1. LoopOK([r EXCEPT !.pc = "reject"])'
    BY <1>0 DEF LoopOK, Runs
  <2> QED
    BY <1>0, <1>2, <2>1, LoopInvNext
<1> QED
  BY <1>1, <1>2, RefusedIs, AnsweredIs DEF MarkError

LEMMA RunLoop ==
  ASSUME TypeOK, RunInv, LoopInv, NEW r \in runs, RunStep(r)
  PROVE  LoopInv'
<1>1. Resolve(r) \/ Reject(r) => LoopInv'
  <2>1. Resolve(r) \/ Reject(r) => Grows(r) /\ runs' = runs \ {r}
    BY DEF Resolve, Reject, Grows, fanout
  <2> QED
    BY <2>1, LoopInvEnd
<1> QED
  BY <1>1, EvaluateLoop, MarkLoop, CreateLoop, EnqueueLoop, CountLoop, ErrorLoop
  DEF RunStep

\* The rows a run writes, and what its counter says about them.
LEMMA RunRows ==
  ASSUME IInv, JobsAdvance, TypeOK', NEW r \in runs, RunStep(r)
  PROVE  RowInv'
<1> USE DEF IInv
<1>0. /\ LoopOK(r) /\ r.attempt \in 1 .. job[r.job].attempts /\ r.job \in Jobs
      /\ r.attempt \in Nat
  BY RunType DEF LoopInv, RunInv
<1>1. \A x \in executions : x.attempt <= job'[x.job].attempts
  <2>1. \A x \in executions : x.job \in Jobs /\ x.attempt \in Nat
    BY DEF TypeOK, Executions
  <2>2. \A j \in Jobs : job[j].attempts \in Nat /\ job'[j].attempts \in Nat
    BY DEF TypeOK
  <2> QED
    BY <2>1, <2>2 DEF RowInv, JobsAdvance
<1>2. r.attempt <= job'[r.job].attempts
  BY <1>0 DEF JobsAdvance, TypeOK
<1>3. CASE UNCHANGED <<executions, queued, counted>>
  BY <1>1, <1>3 DEF RowInv, Complete
<1>4. CASE CreateExecution(r)
  <2>1. executions' \subseteq executions \cup {Row(r)} /\ executions \subseteq executions'
    BY <1>4 DEF CreateExecution
  <2>2. Row(r).attempt = r.attempt /\ Row(r).job = r.job
    BY DEF Row
  <2> QED
    BY <1>1, <1>2, <1>4, <2>1, <2>2 DEF RowInv, Complete, CreateExecution
<1>5. CASE EnqueueAction(r)
  <2>1. Row(r) \in executions
    BY <1>0, <1>5 DEF LoopOK, EnqueueAction
  <2>2. queued' \subseteq queued \cup {Row(r)} /\ queued \subseteq queued'
    BY <1>5 DEF EnqueueAction
  <2> QED
    BY <1>1, <1>5, <2>1, <2>2 DEF RowInv, Complete, EnqueueAction
<1>6. CASE CountRule(r)
  <2>1. Complete(r.job, r.attempt, r.rule)
    BY <1>0, <1>6 DEF LoopOK, CountRule
  <2>2. \A x \in Rules : \A c \in counted'[x] :
           c \in counted[x] \/ (c = <<r.job, r.attempt>> /\ x = r.rule)
    BY <1>6 DEF CountRule, TypeOK
  <2>3. \A x \in Rules : \A c \in counted'[x] : Complete(c[1], c[2], x)
    BY <2>1, <2>2 DEF RowInv
  <2> QED
    BY <1>1, <1>6, <2>3 DEF RowInv, Complete, CountRule
<1> QED
  BY <1>3, <1>4, <1>5, <1>6
  DEF RunStep, Evaluate, Mark, MarkError, Resolve, Reject, fanout

-----------------------------------------------------------------------------
(* Steps of the API, of BullMQ and of the environment *)

LEMMA RunStepJobs ==
  ASSUME IInv, NEW r \in runs, RunStep(r)
  PROVE  JobsAdvance
<1>1. Resolve(r) \/ Reject(r) => JobsAdvance
  BY SettleAdvances DEF IInv
<1>2. ~(Resolve(r) \/ Reject(r)) => UNCHANGED job
  BY DEF RunStep, Evaluate, Mark, CreateExecution, EnqueueAction, CountRule, MarkError
<1> QED
  BY <1>1, <1>2, JobsStay DEF IInv

\* What leaves the fan-out alone leaves what its counters say alone.
LEMMA RowsStay ==
  ASSUME IInv, JobsAdvance, TypeOK', UNCHANGED fanout
  PROVE  RowInv'
<1>1. \A x \in executions : x.job \in Jobs /\ x.attempt \in Nat
  BY DEF IInv, TypeOK, Executions
<1>2. \A j \in Jobs : job[j].attempts \in Nat /\ job'[j].attempts \in Nat
  BY DEF IInv, TypeOK
<1>3. \A x \in executions : x.attempt <= job'[x.job].attempts
  BY <1>1, <1>2 DEF IInv, RowInv, JobsAdvance
<1> QED
  BY <1>3 DEF IInv, RowInv, Complete, fanout

LEMMA RunsStay ==
  ASSUME IInv, JobsAdvance, TypeOK', runs' \subseteq runs
  PROVE  RunInv'
<1>1. \A q \in runs' : q.job \in Jobs /\ q.attempt \in 1 .. job[q.job].attempts
  BY RunType DEF IInv, RunInv
<1>2. \A j \in Jobs : job[j].attempts \in Nat /\ job'[j].attempts \in Nat
  BY DEF IInv, TypeOK
<1>3. \A q \in runs' : q.attempt \in 1 .. job'[q.job].attempts
  BY <1>1, <1>2 DEF JobsAdvance
<1> QED
  BY <1>3 DEF IInv, RunInv

LEMMA LoopStays ==
  ASSUME NEW r, LoopOK(r), UNCHANGED fanout
  PROVE  LoopOK(r)'
  BY DEF LoopOK, Mine, Row, Complete, fanout

LEMMA QuietStep ==
  ASSUME IInv, JobsAdvance, TypeOK', UNCHANGED fanout, runs' \subseteq runs
  PROVE  IInv'
<1>1. LoopInv'
  BY LoopStays DEF IInv, LoopInv
<1> QED
  BY <1>1, JobInvNext, RowsStay, RunsStay DEF IInv

\* A new attempt finds no row of its own, and no run beside it has its number.
LEMMA StartStep ==
  ASSUME IInv, NEW j \in Jobs, Start(j), JobsAdvance, TypeOK'
  PROVE  IInv'
<1> USE DEF IInv
<1>0. PICK n \in Runs :
        /\ runs' = runs \cup {n} /\ n.job = j /\ n.attempt = job[j].attempts + 1
        /\ n.pc = "evaluate" /\ n.rest = {} /\ n.matched = {}
  BY StartRun DEF Start
<1>1. PICK a \in Nat :
        /\ a = n.attempt /\ a = job[j].attempts + 1 /\ a = job'[j].attempts
        /\ UNCHANGED fanout
  BY <1>0 DEF Start, TypeOK
<1>2. \A q \in runs : /\ q.job \in Jobs /\ q.attempt \in 1 .. job[q.job].attempts
                      /\ q.attempt \in Nat
  BY RunType DEF RunInv
<1>3. RunInv'
  <2>1. \A q \in runs : q.attempt \in 1 .. job'[q.job].attempts
    <3>1. \A i \in Jobs : job[i].attempts \in Nat /\ job'[i].attempts \in Nat
      BY DEF TypeOK
    <3> QED
      BY <1>2, <3>1 DEF JobsAdvance
  <2>2. n.attempt \in 1 .. job'[n.job].attempts
    <3>1. n.attempt \in 1 .. n.attempt
      BY <1>0, <1>1 DEF TypeOK
    <3> QED
      BY <1>0, <1>1, <3>1
  <2>3. \A q \in runs : ~(q.job = n.job /\ q.attempt = n.attempt)
    <3>1. job[j].attempts \in Nat
      BY DEF TypeOK
    <3> QED
      BY <1>0, <1>2, <3>1
  <2> QED
    BY <1>0, <2>1, <2>2, <2>3 DEF RunInv
<1>4. LoopInv'
  <2>1. Mine(n)' = {}
    <3>1. \A x \in executions : x.job = j => x.attempt \in Nat /\ x.attempt # a
      BY <1>1 DEF RowInv, TypeOK, Executions
    <3> QED
      BY <1>0, <1>1, <3>1 DEF Mine, fanout
  <2>2. LoopOK(n)'
    BY <1>0, <2>1 DEF LoopOK
  <2> QED
    BY <1>0, <1>1, <2>2, LoopStays DEF LoopInv
<1> QED
  BY <1>1, <1>3, <1>4, JobInvNext, RowsStay

LEMMA RunInductive ==
  ASSUME IInv, NEW r \in runs, RunStep(r)
  PROVE  IInv'
<1>1. JobsAdvance /\ TypeOK'
  BY RunStepJobs, RunStepType
<1>2. RunInv'
  BY <1>1, RunAdvances, RunInvNext DEF IInv
<1> QED
  BY <1>1, <1>2, JobInvNext, RunLoop, RunRows DEF IInv

LEMMA CallInductive ==
  ASSUME IInv, NEW c \in calls, CallStep(c)
  PROVE  IInv'
<1>1. TypeOK'
  BY CallStepType DEF IInv
<1>2. JobsAdvance
  <2>1. AddEventJob(c) => JobsAdvance
    BY AddAdvances DEF IInv
  <2>2. UpdateStatus(c) \/ ResetStatus(c) => UNCHANGED job
    BY DEF UpdateStatus, ResetStatus
  <2> QED
    BY <2>1, <2>2, JobsStay DEF CallStep, IInv
<1>3. UNCHANGED fanout /\ UNCHANGED runs
  BY DEF CallStep, AddEventJob, UpdateStatus, ResetStatus
<1> QED
  BY <1>1, <1>2, <1>3, QuietStep

LEMMA JobInductive ==
  ASSUME IInv, NEW j \in Jobs, QueueStep(j) \/ LoseLock(j)
  PROVE  IInv'
<1>1. TypeOK' /\ JobsAdvance
  BY JobStepType, QueueAdvances DEF IInv
<1>2. CASE Start(j)
  BY <1>1, <1>2, StartStep
<1>3. CASE ~Start(j)
  <2>1. UNCHANGED fanout /\ UNCHANGED runs
    BY <1>3 DEF QueueStep, Promote, RecoverStalled, LoseLock
  <2> QED
    BY <1>1, <2>1, QuietStep
<1> QED
  BY <1>2, <1>3

LEMMA OtherInductive ==
  ASSUME IInv,
         \/ \E e \in Events : CreateEvent(e) \/ ReprocessEvent(e)
         \/ \E x \in Rules : ToggleRule(x)
         \/ Crash
  PROVE  IInv'
<1>1. TypeOK'
  BY EventStepType, OtherStepType DEF IInv
<1>2. CASE Crash
  <2>1. UNCHANGED fanout /\ runs' \subseteq runs
    BY <1>2 DEF Crash
  <2> QED
    BY <1>1, <1>2, <2>1, CrashAdvances, QuietStep DEF IInv
<1>3. CASE ~Crash
  <2>1. UNCHANGED fanout /\ UNCHANGED runs /\ UNCHANGED job
    BY <1>3 DEF CreateEvent, ReprocessEvent, ToggleRule
  <2> QED
    BY <1>1, <2>1, JobsStay, QuietStep DEF IInv
<1> QED
  BY <1>2, <1>3

-----------------------------------------------------------------------------
(* Theorems *)

LEMMA InitInv == Init => IInv
<1> SUFFICES ASSUME Init PROVE IInv
  OBVIOUS
<1>1. \A j \in Jobs : job[j] = [state |-> "none", attempts |-> 0, stalled |-> 0, lock |-> 0]
  BY DEF Init, NewJob
<1>2. JobInv
  BY <1>1, ProcessingAssumption DEF JobInv
<1> QED
  BY <1>2, InitType DEF Init, IInv, RunInv, RowInv, LoopInv

LEMMA Stutter == IInv /\ UNCHANGED vars => IInv'
<1> SUFFICES ASSUME IInv, UNCHANGED vars PROVE IInv'
  OBVIOUS
<1>1. TypeOK'
  BY DEF IInv, TypeOK, vars, event, fanout
<1> QED
  BY <1>1, JobsStay, QuietStep DEF IInv, vars, fanout

\* The invariant is inductive: it holds initially and every step keeps it.
THEOREM ProcessingInductive == Spec => []IInv
<1>1. IInv /\ [Next]_vars => IInv'
  BY RunInductive, CallInductive, JobInductive, OtherInductive, Stutter DEF Next
<1> QED
  BY <1>1, InitInv, PTL DEF Spec

\* Every variable keeps its type in every reachable state.
THEOREM ProcessingTypes == Spec => []TypeOK
<1>1. IInv => TypeOK
  BY DEF IInv
<1> QED
  BY <1>1, ProcessingInductive, PTL

\* processEvent counts a rule only after queueRuleActions queued every action of
\* it, and resolves only after it counted every rule that it found.
THEOREM FanoutIsComplete == Spec => []FanoutComplete
<1>1. IInv => FanoutComplete
  <2> SUFFICES ASSUME IInv PROVE FanoutComplete
    OBVIOUS
  <2>1. ASSUME NEW r \in runs, r.pc = "resolve", NEW x \in r.matched
        PROVE  <<r.job, r.attempt>> \in counted[x]
    <3>1. LoopOK(r) /\ x \in Rules /\ None \notin Rules
      BY <2>1, RunType, ProcessingAssumption DEF IInv, LoopInv
    <3> QED
      BY <2>1, <3>1 DEF LoopOK
  <2> QED
    BY <2>1 DEF IInv, RowInv, FanoutComplete
<1> QED
  BY <1>1, ProcessingInductive, PTL

\* An attempt creates the execution of an action once, and no execution is of an
\* attempt that the retry limit and the stall limit rule out.
THEOREM DuplicatesAreBounded == Spec => []DuplicatesBounded
<1>1. IInv => DuplicatesBounded
  <2> SUFFICES ASSUME IInv PROVE DuplicatesBounded
    OBVIOUS
  <2>1. ASSUME NEW r \in runs, r.pc = "create" PROVE Row(r) \notin executions
    <3>1. LoopOK(r) /\ r.index \in Nat
      BY RunType DEF IInv, LoopInv
    <3>2. Row(r) \in executions => Row(r) \in Mine(r)
      BY DEF Row, Mine
    <3>3. Row(r).rule = r.rule /\ Row(r).index = r.index
      BY DEF Row
    <3> QED
      BY <2>1, <3>1, <3>2, <3>3 DEF LoopOK
  <2>2. ASSUME NEW x \in executions PROVE x.attempt <= MaxAttempts + MaxStalled
    <3>1. /\ x.job \in Jobs /\ x.attempt \in Nat /\ job[x.job].attempts \in Nat
          /\ x.attempt <= job[x.job].attempts
          /\ job[x.job].attempts <= MaxAttempts + MaxStalled
      BY DEF IInv, TypeOK, Executions, RowInv, JobInv
    <3> QED
      BY <3>1, ProcessingAssumption
  <2> QED
    BY <2>1, <2>2 DEF DuplicatesBounded
<1> QED
  BY <1>1, ProcessingInductive, PTL

-----------------------------------------------------------------------------
(* What becomes of verdicts and of executions without a job *)

\* Unless a lock was lost, a run holds the lock of its job, so a job has one run.
LockInv == spent["lock"] = 0 => \A r \in runs : HoldsLock(r)

\* A job that will write a verdict yet, or has failed for good: it is not active
\* with a run that has already written MATCHED or NO_MATCH.
Unsettled(j) ==
    \/ job[j].state \in {"waiting", "delayed", "failed"}
    \/ /\ job[j].state = "active"
       /\ \A r \in runs : r.job = j => r.pc \in {"evaluate", "mark", "error", "reject"}

ErrorInv ==
    spent["lock"] = 0 =>
        \A e \in Events : status[e] = "ERROR" => \E j \in Jobs : j[1] = e /\ Unsettled(j)

\* Executions without a job that no run is about to queue.
Orphans == (executions \ queued) \ {Row(r) : r \in {q \in runs : q.pc = "add"}}

OrphanInv ==
    /\ IsFiniteSet(executions) /\ IsFiniteSet(runs)
    /\ Cardinality(runs) <= Concurrency
    /\ OrphansExplained

VerdictInv == LockInv /\ ErrorInv /\ OrphanInv

-----------------------------------------------------------------------------
(* ERROR is not the last word *)

LEMMA RunsHold ==
  ASSUME IInv, LockInv, spent["lock"] = 0, NEW r \in runs
  PROVE  /\ job[r.job].lock = r.attempt /\ job[r.job].state = "active"
         /\ \A q \in runs : q.job = r.job => q = r
<1>1. /\ r.job \in Jobs /\ r.attempt \in 1 .. job[r.job].attempts
      /\ job[r.job].attempts \in Nat
  BY RunType DEF IInv, TypeOK, RunInv
<1>2. job[r.job].lock = r.attempt /\ r.attempt # 0
  BY <1>1 DEF LockInv, HoldsLock
<1>3. \A q \in runs : q.job = r.job => q.attempt = r.attempt
  BY <1>2 DEF LockInv, HoldsLock
<1> QED
  BY <1>1, <1>2, <1>3 DEF IInv, JobInv, RunInv

\* No step takes back a fault.
LEMMA SpentGrows ==
  ASSUME IInv, [Next]_vars, NEW k \in Occurrences
  PROVE  spent[k] \in Nat /\ spent'[k] \in Nat /\ spent[k] <= spent'[k]
<1>1. spent \in [Occurrences -> Nat]
  BY DEF IInv, TypeOK
<1>2. spent' = spent \/ \E i \in Occurrences : Spend(i)
  <2> USE DEF Occurrences
  <2>1. ASSUME NEW e \in Events, CreateEvent(e) \/ ReprocessEvent(e)
        PROVE  spent' = spent \/ \E i \in Occurrences : Spend(i)
    BY <2>1 DEF CreateEvent, ReprocessEvent
  <2>2. ASSUME NEW c \in calls, CallStep(c)
        PROVE  spent' = spent \/ \E i \in Occurrences : Spend(i)
    BY <2>2 DEF CallStep, AddEventJob, UpdateStatus, ResetStatus
  <2>3. ASSUME NEW x \in Rules, ToggleRule(x)
        PROVE  spent' = spent \/ \E i \in Occurrences : Spend(i)
    BY <2>3 DEF ToggleRule
  <2>4. ASSUME NEW j \in Jobs, QueueStep(j) \/ LoseLock(j)
        PROVE  spent' = spent \/ \E i \in Occurrences : Spend(i)
    BY <2>4 DEF QueueStep, Start, Promote, RecoverStalled, LoseLock
  <2>5. ASSUME NEW r \in runs, RunStep(r)
        PROVE  spent' = spent \/ \E i \in Occurrences : Spend(i)
    BY <2>5 DEF RunStep, Evaluate, Mark, CreateExecution, EnqueueAction, CountRule, MarkError,
                Resolve, Reject, Answered, Refused
  <2>6. Crash => \E i \in Occurrences : Spend(i)
    BY DEF Crash
  <2>7. UNCHANGED vars => spent' = spent
    BY DEF vars
  <2> QED
    BY <2>1, <2>2, <2>3, <2>4, <2>5, <2>6, <2>7 DEF Next
<1>3. CASE spent' = spent
  BY <1>1, <1>3
<1>4. ASSUME NEW i \in Occurrences, Spend(i)
      PROVE  spent[k] \in Nat /\ spent'[k] \in Nat /\ spent[k] <= spent'[k]
  BY <1>1, <1>4 DEF Spend
<1> QED
  BY <1>2, <1>3, <1>4

\* Only the steps of BullMQ change a job or bring a new run.
LEMMA JobsQuiet ==
  ASSUME IInv, NEW r \in runs, RunStep(r), ~(Resolve(r) \/ Reject(r))
  PROVE  UNCHANGED job
  BY DEF RunStep, Evaluate, Mark, CreateExecution, EnqueueAction, CountRule, MarkError

LEMMA LockStep ==
  ASSUME IInv, LockInv, [Next]_vars
  PROVE  LockInv'
<1> SUFFICES ASSUME spent'["lock"] = 0 PROVE \A q \in runs' : HoldsLock(q)'
  BY DEF LockInv
<1>0. /\ spent["lock"] = 0 /\ spent \in [Occurrences -> Nat]
      /\ job \in [Jobs -> JobRows]
  BY SpentGrows DEF Occurrences, IInv, TypeOK, JobRows
<1>a. \A q \in runs : /\ q.job \in Jobs /\ job[q.job].lock = q.attempt /\ q.attempt # 0
                      /\ job[q.job].state = "active"
  BY <1>0, RunsHold, RunType DEF IInv, RunInv
<1>1. ASSUME runs' \subseteq runs,
             \A q \in runs' : job'[q.job].lock = job[q.job].lock
      PROVE  \A q \in runs' : HoldsLock(q)'
  BY <1>a, <1>1 DEF HoldsLock
<1>2. CASE UNCHANGED vars
  BY <1>1, <1>2 DEF vars
<1>3. ASSUME NEW c \in calls, CallStep(c)
      PROVE  \A q \in runs' : HoldsLock(q)'
  <2>1. runs' = runs
    BY <1>3 DEF CallStep, AddEventJob, UpdateStatus, ResetStatus
  <2>2. CASE UNCHANGED job
    BY <1>1, <2>1, <2>2
  <2>3. CASE ~ UNCHANGED job
    <3>1. PICK n : job' = [job EXCEPT ![<<c.event, n>>] =
                             IF job[<<c.event, n>>].state = "none" THEN NewJob("waiting")
                             ELSE job[<<c.event, n>>]]
      BY <1>3, <2>3 DEF CallStep, AddEventJob, UpdateStatus, ResetStatus
    <3>2. \A j \in Jobs : job[j].state = "active" => job'[j] = job[j]
      BY <1>0, <3>1
    <3> QED
      BY <1>a, <1>1, <2>1, <3>2
  <2> QED
    BY <2>2, <2>3
<1>4. ASSUME NEW j \in Jobs, Start(j)
      PROVE  \A q \in runs' : HoldsLock(q)'
  <2> DEFINE new == [job |-> j, attempt |-> job[j].attempts + 1, pc |-> "evaluate",
                     matched |-> {}, rest |-> {}, rule |-> None, index |-> 0]
  <2>1. \A q \in runs' : q \in runs \/ q = new
    BY <1>4 DEF Start
  <2>2. new.job = j /\ new.attempt = job[j].attempts + 1
    OBVIOUS
  <2> HIDE DEF new
  <2>3. /\ job'[j].lock = job[j].attempts + 1 /\ job[j].state = "waiting"
        /\ \A i \in Jobs : i # j => job'[i] = job[i]
    BY <1>0, <1>4 DEF Start
  <2>4. \A q \in runs : q.job # j
    BY <1>a, <2>3
  <2> QED
    BY <1>a, <2>1, <2>2, <2>3, <2>4 DEF HoldsLock
<1>5. ASSUME NEW j \in Jobs, Promote(j) \/ RecoverStalled(j)
      PROVE  \A q \in runs' : HoldsLock(q)'
  <2>1. /\ runs' = runs
        /\ job[j].lock = 0 \/ job[j].state = "delayed"
        /\ \A i \in Jobs : i # j => job'[i] = job[i]
    BY <1>0, <1>5 DEF Promote, RecoverStalled, Settle
  <2>2. runs' = runs
    BY <1>5 DEF Promote, RecoverStalled
  <2> QED
    BY <1>a, <1>1, <2>1, <2>2
<1>6. ASSUME NEW j \in Jobs, LoseLock(j)
      PROVE  FALSE
  BY <1>0, <1>6 DEF LoseLock, Spend, Occurrences
<1>7. ASSUME NEW r \in runs, RunStep(r)
      PROVE  \A q \in runs' : HoldsLock(q)'
  <2>1. CASE Resolve(r) \/ Reject(r)
    <3>1. /\ runs' = runs \ {r}
          /\ \A i \in Jobs : i # r.job => job'[i] = job[i]
      BY <1>0, <1>a, <2>1 DEF Resolve, Reject, Settle
    <3>2. \A q \in runs' : q.job # r.job
      BY <1>0, <3>1, RunsHold
    <3> QED
      BY <1>a, <1>1, <3>1, <3>2
  <2>2. CASE ~(Resolve(r) \/ Reject(r))
    <3>1. UNCHANGED job /\ Advances(r)
      BY <1>7, <2>2, JobsQuiet, RunAdvances DEF IInv
    <3>2. \A q \in runs' : \E p \in runs : q.job = p.job /\ q.attempt = p.attempt
      BY <3>1 DEF Advances, Become
    <3> QED
      BY <1>a, <3>1, <3>2 DEF HoldsLock
  <2> QED
    BY <2>1, <2>2
<1>8. CASE Crash
  BY <1>8 DEF Crash
<1>9. ASSUME UNCHANGED <<runs, job>>
      PROVE  \A q \in runs' : HoldsLock(q)'
  BY <1>1, <1>9
<1>10. (\E e \in Events : CreateEvent(e) \/ ReprocessEvent(e)) \/ (\E x \in Rules : ToggleRule(x))
          => UNCHANGED <<runs, job>>
  BY DEF CreateEvent, ReprocessEvent, ToggleRule
<1> QED
  BY <1>2, <1>3, <1>4, <1>5, <1>6, <1>7, <1>8, <1>9, <1>10 DEF Next, QueueStep

Before == {"evaluate", "mark", "error", "reject"}

\* A run that moves on can unsettle its own job only, and leaves it unsettled if
\* it has its verdict still before it.
LEMMA RunMoves ==
  ASSUME IInv, LockInv, spent["lock"] = 0, UNCHANGED job,
         NEW r \in runs, NEW n, n.job = r.job, Become(r, n)
  PROVE  /\ \A j \in Jobs : j # r.job /\ Unsettled(j) => Unsettled(j)'
         /\ n.pc \in Before => Unsettled(r.job)'
<1>1. \A q : q \in runs' <=> (q \in runs /\ q # r) \/ q = n
  BY DEF Become
<1>2. \A j \in Jobs : j # r.job /\ Unsettled(j) => Unsettled(j)'
  BY <1>1 DEF Unsettled
<1>3. job'[r.job].state = "active" /\ \A q \in runs' : q.job = r.job => q = n
  BY <1>1, RunsHold
<1>4. n.pc \in Before => Unsettled(r.job)'
  BY <1>3 DEF Unsettled, Before
<1> QED
  BY <1>2, <1>4

\* A run past its verdict has settled its job.
LEMMA PastVerdict ==
  ASSUME IInv, LockInv, spent["lock"] = 0, NEW r \in runs, Unsettled(r.job)
  PROVE  r.pc \in Before
  BY RunsHold DEF Unsettled, Before

LEMMA ErrorKept ==
  ASSUME IInv, ErrorInv, spent["lock"] = 0,
         \A e \in Events : status'[e] = "ERROR" => status[e] = "ERROR",
         \A j \in Jobs : Unsettled(j) => Unsettled(j)'
  PROVE  \A e \in Events : status'[e] = "ERROR" => \E j \in Jobs : j[1] = e /\ Unsettled(j)'
  BY DEF ErrorInv

LEMMA ErrorRunStep ==
  ASSUME IInv, LockInv, ErrorInv, spent["lock"] = 0, NEW r \in runs, RunStep(r)
  PROVE  \A e \in Events : status'[e] = "ERROR" => \E j \in Jobs : j[1] = e /\ Unsettled(j)'
<1> DEFINE Goal == \A e \in Events : status'[e] = "ERROR" =>
                                        \E j \in Jobs : j[1] = e /\ Unsettled(j)'
<1>0. /\ r \in Runs /\ r.job \in Jobs /\ r.job[1] \in Events
      /\ status \in [Events -> Statuses] /\ job \in [Jobs -> JobRows]
  BY RunType DEF IInv, TypeOK, JobRows
<1>a. /\ Failed(r).job = r.job /\ Failed(r).pc \in Before
      /\ \A pc : [r EXCEPT !.pc = pc].job = r.job /\ [r EXCEPT !.pc = pc].pc = pc
  BY <1>0 DEF Failed, Runs, Before
<1>1. ASSUME NEW n, n.job = r.job, Become(r, n), UNCHANGED job, UNCHANGED status,
             r.pc \notin Before \/ n.pc \in Before
      PROVE  Goal
  <2>1. \A j \in Jobs : Unsettled(j) => Unsettled(j)'
    BY <1>1, RunMoves, PastVerdict
  <2> QED
    BY <1>1, <2>1, ErrorKept
<1>2. CASE Evaluate(r)
  <2>1. UNCHANGED job /\ UNCHANGED status
    BY <1>2 DEF Evaluate, event
  <2>2. CASE Refused(r)
    BY <1>1, <1>a, <2>1, <2>2, RefusedIs DEF IInv
  <2>3. CASE ~Refused(r)
    <3> DEFINE n == [r EXCEPT !.pc = "mark", !.matched = FindMatchingRules(r.job[1]),
                              !.rest = FindMatchingRules(r.job[1])]
    <3>1. Become(r, n)
      BY <1>2, <2>3 DEF Evaluate
    <3>2. n.job = r.job /\ n.pc \in Before
      BY <1>0 DEF Runs, Before
    <3> HIDE DEF n
    <3> QED
      BY <1>1, <2>1, <3>1, <3>2
  <2> QED
    BY <2>2, <2>3
<1>3. CASE Mark(r)
  <2>1. UNCHANGED job
    BY <1>3 DEF Mark
  <2>2. CASE UNCHANGED event /\ Refused(r)
    BY <1>1, <1>a, <2>1, <2>2, RefusedIs DEF IInv, event
  <2>3. CASE /\ status' = [status EXCEPT ![r.job[1]] =
                             IF r.matched = {} THEN "NO_MATCH" ELSE "MATCHED"]
             /\ \E next \in NextRules(r) : Answered(r, next)
    <3>1. PICK n : n.job = r.job /\ Become(r, n)
      BY <1>a, <2>3, AnsweredIs, NextRulesKeeps DEF IInv
    <3>2. \A j \in Jobs : j # r.job /\ Unsettled(j) => Unsettled(j)'
      BY <2>1, <3>1, RunMoves
    <3>3. \A e \in Events : status'[e] = "ERROR" => status[e] = "ERROR" /\ e # r.job[1]
      BY <1>0, <2>3
    <3> QED
      BY <3>2, <3>3 DEF ErrorInv
  <2> QED
    BY <1>3, <2>2, <2>3 DEF Mark
<1>4. CASE CreateExecution(r) \/ EnqueueAction(r) \/ CountRule(r)
  <2>1. UNCHANGED job /\ UNCHANGED status /\ r.pc \notin Before
    BY <1>4 DEF CreateExecution, EnqueueAction, CountRule, event, Before
  <2>2. Advances(r)
    BY RunAdvances DEF IInv
  <2>3. CASE \E n : n.job = r.job /\ Become(r, n)
    BY <1>1, <2>1, <2>3
  <2>4. CASE runs' = runs \ {r}
    <3>1. \A j \in Jobs : Unsettled(j) => Unsettled(j)'
      BY <2>1, <2>4 DEF Unsettled
    <3> QED
      BY <2>1, <3>1, ErrorKept
  <2> QED
    BY <2>2, <2>3, <2>4 DEF Advances
<1>5. CASE MarkError(r)
  <2>1. UNCHANGED job
    BY <1>5 DEF MarkError
  <2>2. PICK n : n.job = r.job /\ n.pc \in Before /\ Become(r, n)
    <3>1. [r EXCEPT !.pc = "reject"].pc \in Before
      BY <1>a DEF Before
    <3> QED
      BY <1>5, <1>a, <3>1, RefusedIs, AnsweredIs DEF MarkError, IInv
  <2>3. \A j \in Jobs : Unsettled(j) \/ j = r.job => Unsettled(j)'
    BY <2>1, <2>2, RunMoves
  <2>4. \A e \in Events : status'[e] = "ERROR" => status[e] = "ERROR" \/ e = r.job[1]
    BY <1>0, <1>5 DEF MarkError
  <2> QED
    BY <1>0, <2>3, <2>4 DEF ErrorInv
<1>6. CASE Resolve(r) \/ Reject(r)
  <2>1. /\ UNCHANGED status /\ runs' = runs \ {r}
        /\ \A j \in Jobs : j # r.job => job'[j] = job[j]
    BY <1>0, <1>6 DEF Resolve, Reject, Settle, event
  <2>2. \A j \in Jobs : j # r.job /\ Unsettled(j) => Unsettled(j)'
    BY <2>1 DEF Unsettled
  <2>3. Unsettled(r.job) => Unsettled(r.job)'
    <3>1. CASE Resolve(r)
      BY <3>1, PastVerdict DEF Resolve, Before
    <3>2. CASE Reject(r)
      <4>1. HoldsLock(r)
        BY DEF LockInv
      <4>2. job'[r.job].state \in {"delayed", "failed"}
        BY <1>0, <3>2, <4>1 DEF Reject, Settle
      <4> QED
        BY <4>2 DEF Unsettled
    <3> QED
      BY <1>6, <3>1, <3>2
  <2> QED
    BY <2>1, <2>2, <2>3, ErrorKept
<1> QED
  BY <1>2, <1>3, <1>4, <1>5, <1>6 DEF RunStep

LEMMA ErrorStep ==
  ASSUME IInv, LockInv, ErrorInv, [Next]_vars
  PROVE  ErrorInv'
<1> SUFFICES ASSUME spent'["lock"] = 0
             PROVE  \A e \in Events : status'[e] = "ERROR" =>
                       \E j \in Jobs : j[1] = e /\ Unsettled(j)'
  BY DEF ErrorInv, Unsettled
<1> DEFINE Goal == \A e \in Events : status'[e] = "ERROR" =>
                                        \E j \in Jobs : j[1] = e /\ Unsettled(j)'
<1>0. /\ spent["lock"] = 0 /\ spent \in [Occurrences -> Nat]
      /\ status \in [Events -> Statuses] /\ job \in [Jobs -> JobRows]
  BY SpentGrows DEF Occurrences, IInv, TypeOK, JobRows
<1>1. ASSUME UNCHANGED <<job, runs>>,
             \A e \in Events : status'[e] = "ERROR" => status[e] = "ERROR"
      PROVE  Goal
  <2>1. \A j \in Jobs : Unsettled(j) => Unsettled(j)'
    BY <1>1 DEF Unsettled
  <2> QED
    BY <1>0, <1>1, <2>1, ErrorKept
<1>2. CASE UNCHANGED vars
  BY <1>1, <1>2 DEF vars, event
<1>3. ASSUME NEW e \in Events, CreateEvent(e) \/ ReprocessEvent(e)
      PROVE  Goal
  BY <1>0, <1>1, <1>3 DEF CreateEvent, ReprocessEvent, event
<1>4. ASSUME NEW x \in Rules, ToggleRule(x)
      PROVE  Goal
  BY <1>1, <1>4 DEF ToggleRule, event
<1>5. ASSUME NEW c \in calls, CallStep(c)
      PROVE  Goal
  <2>1. CASE UpdateStatus(c) \/ ResetStatus(c)
    BY <1>0, <1>1, <2>1 DEF UpdateStatus, ResetStatus, event
  <2>2. CASE AddEventJob(c) /\ UNCHANGED job
    BY <1>1, <2>2 DEF AddEventJob, event
  <2>3. CASE AddEventJob(c) /\ ~ UNCHANGED job
    <3>1. PICK n : job' = [job EXCEPT ![<<c.event, n>>] =
                             IF job[<<c.event, n>>].state = "none" THEN NewJob("waiting")
                             ELSE job[<<c.event, n>>]]
      BY <2>3 DEF AddEventJob
    <3>2. \A j \in Jobs : job[j].state # "none" => job'[j] = job[j]
      BY <1>0, <3>1
    <3>3. UNCHANGED runs /\ UNCHANGED status
      BY <2>3 DEF AddEventJob, event
    <3>4. \A j \in Jobs : Unsettled(j) => Unsettled(j)'
      BY <3>2, <3>3 DEF Unsettled
    <3> QED
      BY <1>0, <3>3, <3>4, ErrorKept
  <2> QED
    BY <1>5, <2>1, <2>2, <2>3 DEF CallStep
<1>6. ASSUME NEW j \in Jobs, QueueStep(j) \/ LoseLock(j)
      PROVE  Goal
  <2>1. UNCHANGED status
    BY <1>6 DEF QueueStep, Start, Promote, RecoverStalled, LoseLock, event
  <2>2. CASE Start(j)
    <3>1. PICK new : /\ new.job = j /\ new.pc = "evaluate" /\ runs' = runs \cup {new}
      BY <2>2 DEF Start
    <3>2. /\ job[j].state = "waiting" /\ job'[j].state = "active"
          /\ \A i \in Jobs : i # j => job'[i] = job[i]
      BY <1>0, <2>2 DEF Start
    <3>3. \A q \in runs : q.job # j
      BY <1>0, <3>2, RunsHold
    <3>4. \A i \in Jobs : Unsettled(i) => Unsettled(i)'
      BY <3>1, <3>2, <3>3 DEF Unsettled
    <3> QED
      BY <1>0, <2>1, <3>4, ErrorKept
  <2>3. CASE Promote(j) \/ RecoverStalled(j)
    <3>1. /\ UNCHANGED runs /\ job'[j].state \in {"waiting", "failed"}
          /\ \A i \in Jobs : i # j => job'[i] = job[i]
      BY <1>0, <2>3 DEF Promote, RecoverStalled, Settle
    <3>2. \A i \in Jobs : Unsettled(i) => Unsettled(i)'
      BY <3>1 DEF Unsettled
    <3> QED
      BY <1>0, <2>1, <3>2, ErrorKept
  <2>4. CASE LoseLock(j)
    BY <1>0, <2>4 DEF LoseLock, Spend, Occurrences
  <2> QED
    BY <1>6, <2>2, <2>3, <2>4 DEF QueueStep
<1>7. CASE Crash
  <2>1. /\ UNCHANGED status /\ runs' = {}
        /\ \A j \in Jobs : job'[j].state = job[j].state
    BY <1>7 DEF Crash, event
  <2>2. \A j \in Jobs : Unsettled(j) => Unsettled(j)'
    BY <2>1 DEF Unsettled
  <2> QED
    BY <1>0, <2>1, <2>2, ErrorKept
<1>8. ASSUME NEW r \in runs, RunStep(r)
      PROVE  Goal
  BY <1>0, <1>8, ErrorRunStep
<1> QED
  BY <1>2, <1>3, <1>4, <1>5, <1>6, <1>7, <1>8 DEF Next

-----------------------------------------------------------------------------
(* Executions without a job *)

\* A finite set that lost elements, or gained at most one.
LEMMA SubsetCount ==
  ASSUME NEW S, IsFiniteSet(S), NEW T, T \subseteq S
  PROVE  IsFiniteSet(T) /\ Cardinality(T) \in Nat /\ Cardinality(T) <= Cardinality(S)
  BY FS_Subset, FS_CardinalityType

LEMMA OneMoreCount ==
  ASSUME NEW S, IsFiniteSet(S), NEW x, NEW T, T \subseteq S \cup {x}
  PROVE  /\ IsFiniteSet(T) /\ Cardinality(T) \in Nat
         /\ Cardinality(T) <= Cardinality(S) + 1
<1>1. /\ IsFiniteSet(S \cup {x}) /\ Cardinality(S) \in Nat
      /\ Cardinality(S \cup {x}) \in Nat /\ Cardinality(S \cup {x}) <= Cardinality(S) + 1
  <2>1. Cardinality(S) \in Nat
    BY FS_CardinalityType
  <2>2. /\ IsFiniteSet(S \cup {x})
        /\ \/ Cardinality(S \cup {x}) = Cardinality(S)
           \/ Cardinality(S \cup {x}) = Cardinality(S) + 1
    BY FS_AddElement
  <2> QED
    BY <2>1, <2>2
<1>2. IsFiniteSet(T) /\ Cardinality(T) \in Nat /\ Cardinality(T) <= Cardinality(S \cup {x})
  BY <1>1, SubsetCount
<1> QED
  BY <1>1, <1>2

\* What the failures so far may explain.
Excuses == spent["refused"] + spent["unacked"] + Concurrency * spent["crash"]

LEMMA ExcusesGrow ==
  ASSUME IInv, [Next]_vars
  PROVE  /\ Excuses \in Nat /\ Excuses' \in Nat /\ Excuses <= Excuses'
         /\ Spend("refused") \/ Spend("unacked") => Excuses + 1 <= Excuses'
         /\ Spend("crash") => Excuses + Concurrency <= Excuses'
<1> DEFINE a == spent["refused"]  b == spent["unacked"]  c == spent["crash"]
           x == spent'["refused"] y == spent'["unacked"] z == spent'["crash"]
<1>1. /\ a \in Nat /\ b \in Nat /\ c \in Nat /\ x \in Nat /\ y \in Nat /\ z \in Nat
      /\ a <= x /\ b <= y /\ c <= z /\ Concurrency \in Nat
  BY SpentGrows, ProcessingAssumption DEF Occurrences
<1>2. /\ Spend("refused") => x = a + 1 /\ y = b /\ z = c
      /\ Spend("unacked") => x = a /\ y = b + 1 /\ z = c
      /\ Spend("crash") => x = a /\ y = b /\ z = c + 1
  BY DEF Spend, IInv, TypeOK, Occurrences
<1>3. Excuses = a + b + Concurrency * c /\ Excuses' = x + y + Concurrency * z
  BY DEF Excuses
<1> HIDE DEF a, b, c, x, y, z
<1>4. /\ Concurrency * c \in Nat /\ Concurrency * z \in Nat
      /\ Concurrency * c <= Concurrency * z
      /\ Concurrency * (c + 1) = Concurrency * c + Concurrency
  BY <1>1
<1> QED
  BY <1>1, <1>2, <1>3, <1>4

\* A run that moves on or ends takes no further slot.
LEMMA RunsFit ==
  ASSUME IInv, OrphanInv, [Next]_vars
  PROVE  IsFiniteSet(runs)' /\ (Cardinality(runs) <= Concurrency)'
<1>0. Concurrency \in Nat /\ IsFiniteSet(runs) /\ Cardinality(runs) <= Concurrency
  BY ProcessingAssumption DEF OrphanInv
<1>1. CASE runs' \subseteq runs
  BY <1>0, <1>1, SubsetCount
<1>2. ASSUME NEW j \in Jobs, Start(j)
      PROVE  IsFiniteSet(runs') /\ Cardinality(runs') <= Concurrency
  <2>1. PICK new : runs' = runs \cup {new} /\ Cardinality(runs) < Concurrency
    BY <1>2 DEF Start
  <2> QED
    <3>1. Cardinality(runs) \in Nat
      BY <1>0, FS_CardinalityType
    <3>2. runs' \subseteq runs \cup {new}
      BY <2>1
    <3>3. /\ IsFiniteSet(runs') /\ Cardinality(runs') \in Nat
          /\ Cardinality(runs') <= Cardinality(runs) + 1
      BY <1>0, <3>2, OneMoreCount
    <3> QED
      BY <1>0, <2>1, <3>1, <3>3
<1>3. ASSUME NEW r \in runs, NEW n, Become(r, n)
      PROVE  IsFiniteSet(runs') /\ Cardinality(runs') <= Concurrency
  <2>1. /\ IsFiniteSet(runs \ {r}) /\ Cardinality(runs \ {r}) = Cardinality(runs) - 1
        /\ Cardinality(runs) \in Nat
    BY <1>0, FS_RemoveElement, FS_CardinalityType
  <2>2. runs' \subseteq (runs \ {r}) \cup {n}
    BY <1>3 DEF Become
  <2> QED
    BY <1>0, <2>1, <2>2, OneMoreCount
<1>4. ASSUME NEW r \in runs, RunStep(r)
      PROVE  runs' \subseteq runs \/ \E n : Become(r, n)
  BY <1>4, RunAdvances DEF Advances, IInv
<1>5. ASSUME NEW c \in calls, CallStep(c)
      PROVE  runs' = runs
  BY <1>5 DEF CallStep, AddEventJob, UpdateStatus, ResetStatus
<1>6. ASSUME NEW j \in Jobs, Promote(j) \/ RecoverStalled(j) \/ LoseLock(j)
      PROVE  runs' = runs
  BY <1>6 DEF Promote, RecoverStalled, LoseLock
<1>7. (\E e \in Events : CreateEvent(e) \/ ReprocessEvent(e)) \/ (\E x \in Rules : ToggleRule(x))
         => runs' = runs
  BY DEF CreateEvent, ReprocessEvent, ToggleRule
<1>8. Crash \/ UNCHANGED vars => runs' \subseteq runs
  BY DEF Crash, vars
<1> QED
  BY <1>1, <1>2, <1>3, <1>4, <1>5, <1>6, <1>7, <1>8 DEF Next, QueueStep

LEMMA OrphansBound ==
  ASSUME IInv, OrphanInv
  PROVE  /\ IsFiniteSet(Orphans) /\ Cardinality(Orphans) \in Nat
         /\ Cardinality(Orphans) <= Excuses
<1>1. Orphans \subseteq executions
  BY DEF Orphans
<1>2. Cardinality(Orphans) <= Excuses
  BY DEF OrphanInv, OrphansExplained, Orphans, Excuses
<1> QED
  BY <1>1, <1>2, SubsetCount DEF OrphanInv

LEMMA OrphansKept ==
  ASSUME IInv, OrphanInv, [Next]_vars, Orphans' \subseteq Orphans
  PROVE  Cardinality(Orphans') <= Excuses'
<1>1. Cardinality(Orphans') \in Nat /\ Cardinality(Orphans') <= Cardinality(Orphans)
  BY OrphansBound, SubsetCount
<1> QED
  BY <1>1, OrphansBound, ExcusesGrow

LEMMA OneMoreOrphan ==
  ASSUME IInv, OrphanInv, [Next]_vars, Spend("refused") \/ Spend("unacked"),
         NEW x, Orphans' \subseteq Orphans \cup {x}
  PROVE  Cardinality(Orphans') <= Excuses'
<1>1. Cardinality(Orphans') \in Nat /\ Cardinality(Orphans') <= Cardinality(Orphans) + 1
  BY OrphansBound, OneMoreCount
<1> QED
  BY <1>1, OrphansBound, ExcusesGrow

\* A run between the row and its job is replaced by its next state.
LEMMA OrphanRun ==
  ASSUME IInv, OrphanInv, NEW r \in runs, NEW n, Become(r, n)
  PROVE  {Row(q) : q \in {p \in runs : p.pc = "add"}} \subseteq
            {Row(q) : q \in {p \in runs' : p.pc = "add"}}
               \cup (IF r.pc = "add" THEN {Row(r)} ELSE {})
  BY DEF Become

LEMMA OrphanStep ==
  ASSUME IInv, OrphanInv, [Next]_vars
  PROVE  IsFiniteSet(executions') /\ Cardinality(Orphans') <= Excuses'
<1> DEFINE Due == {Row(r) : r \in {q \in runs : q.pc = "add"}}
           Goal == IsFiniteSet(executions') /\ Cardinality(Orphans') <= Excuses'
<1>0. IsFiniteSet(executions)
  BY DEF OrphanInv
<1>1. ASSUME UNCHANGED <<executions, queued>>,
             \A q \in runs : q.pc = "add" => q \in runs'
      PROVE  Goal
  <2>1. Orphans' \subseteq Orphans
    BY <1>1 DEF Orphans, Row
  <2> QED
    BY <1>0, <1>1, <2>1, OrphansKept
<1>2. CASE UNCHANGED vars
  BY <1>1, <1>2 DEF vars, fanout
<1>3. ASSUME \/ \E e \in Events : CreateEvent(e) \/ ReprocessEvent(e)
             \/ \E c \in calls : CallStep(c)
             \/ \E x \in Rules : ToggleRule(x)
      PROVE  Goal
  BY <1>1, <1>3 DEF CreateEvent, ReprocessEvent, CallStep, AddEventJob, UpdateStatus,
                    ResetStatus, ToggleRule, fanout
<1>4. ASSUME NEW j \in Jobs, QueueStep(j) \/ LoseLock(j)
      PROVE  Goal
  BY <1>1, <1>4 DEF QueueStep, Start, Promote, RecoverStalled, LoseLock, fanout
<1>5. CASE Crash
  <2>1. executions' = executions /\ queued' = queued /\ Spend("crash")
    BY <1>5 DEF Crash, fanout
  <2>2. Orphans' \subseteq Orphans \cup Due
    BY <2>1 DEF Orphans
  <2>3. IsFiniteSet(Due) /\ Cardinality(Due) \in Nat /\ Cardinality(Due) <= Concurrency
    <3>1. /\ IsFiniteSet({q \in runs : q.pc = "add"})
          /\ Cardinality({q \in runs : q.pc = "add"}) <= Concurrency
          /\ Cardinality({q \in runs : q.pc = "add"}) \in Nat
      BY SubsetCount, ProcessingAssumption, FS_CardinalityType DEF OrphanInv
    <3>2. IsFiniteSet(Due) /\ Cardinality(Due) <= Cardinality({q \in runs : q.pc = "add"})
      <4> DEFINE Adding == {q \in runs : q.pc = "add"}
                 f == [q \in Adding |-> Row(q)]
      <4>1. f \in Surjection(Adding, Due)
        BY DEF Surjection
      <4> HIDE DEF f, Due, Adding
      <4>2. IsFiniteSet(Adding)
        BY <3>1 DEF Adding
      <4>3. IsFiniteSet(Due) /\ Cardinality(Due) <= Cardinality(Adding)
        BY <4>1, <4>2, FS_Surjection
      <4> QED
        BY <4>3 DEF Adding
    <3> QED
      BY <3>1, <3>2, ProcessingAssumption, FS_CardinalityType
  <2> HIDE DEF Due
  <2>4. /\ IsFiniteSet(Orphans \cup Due)
        /\ Cardinality(Orphans \cup Due) \in Nat
        /\ Cardinality(Orphans \cup Due) <= Cardinality(Orphans) + Cardinality(Due)
    <3>1. /\ IsFiniteSet(Orphans \cup Due)
          /\ Cardinality(Orphans \cup Due) =
                Cardinality(Orphans) + Cardinality(Due) - Cardinality(Orphans \cap Due)
      BY <2>3, OrphansBound, FS_Union
    <3>2. Cardinality(Orphans \cap Due) \in Nat
      BY <2>3, SubsetCount
    <3>3. Cardinality(Orphans \cup Due) \in Nat
      BY <3>1, FS_CardinalityType
    <3> QED
      BY <2>3, <3>1, <3>2, <3>3, OrphansBound
  <2>5. /\ Cardinality(Orphans') \in Nat
        /\ Cardinality(Orphans') <= Cardinality(Orphans \cup Due)
    BY <2>2, <2>4, SubsetCount
  <2>6. Cardinality(Orphans') <= Excuses'
    BY <2>1, <2>3, <2>4, <2>5, OrphansBound, ExcusesGrow, ProcessingAssumption
  <2> QED
    BY <1>0, <2>1, <2>6
<1>6. ASSUME NEW r \in runs, RunStep(r)
      PROVE  Goal
  <2>0. r \in Runs /\ \A pc : [r EXCEPT !.pc = pc].pc = pc /\ Row([r EXCEPT !.pc = pc]) = Row(r)
    BY RunType DEF IInv, Runs, Row
  <2>1. CASE Evaluate(r) \/ Mark(r) \/ CountRule(r) \/ MarkError(r) \/ Resolve(r) \/ Reject(r)
    <3>1. UNCHANGED <<executions, queued>> /\ r.pc # "add"
      BY <2>1 DEF Evaluate, Mark, CountRule, MarkError, Resolve, Reject, fanout
    <3>2. \A q \in runs : q # r => q \in runs'
      BY <1>6, RunAdvances DEF IInv, Advances, Become
    <3> QED
      BY <1>1, <3>1, <3>2
  <2>2. CASE CreateExecution(r)
    <3>0. queued' = queued /\ r.pc = "create"
      BY <2>2 DEF CreateExecution
    <3>1. CASE UNCHANGED executions /\ Refused(r)
      BY <1>1, <3>0, <3>1, RefusedIs DEF IInv, Become
    <3>2. CASE executions' = executions \cup {Row(r)} /\ Answered(r, [r EXCEPT !.pc = "add"])
      <4>0. IsFiniteSet(executions')
        BY <1>0, <3>2, FS_AddElement
      <4>1. CASE Become(r, [r EXCEPT !.pc = "add"])
        <5>1. Due \cup {Row(r)} \subseteq {Row(q) : q \in {p \in runs' : p.pc = "add"}}
          BY <2>0, <3>0, <4>1, OrphanRun DEF Become
        <5>2. Orphans' \subseteq Orphans
          BY <3>0, <3>2, <5>1 DEF Orphans, Row
        <5> QED
          BY <4>0, <5>2, OrphansKept
      <4>2. CASE OnError(r) /\ Spend("unacked")
        <5>1. Due \subseteq {Row(q) : q \in {p \in runs' : p.pc = "add"}}
          BY <3>0, <4>2, OrphanRun DEF OnError, Goto
        <5>2. Orphans' \subseteq Orphans \cup {Row(r)}
          BY <3>0, <3>2, <5>1 DEF Orphans, Row
        <5> QED
          BY <4>0, <4>2, <5>2, OneMoreOrphan
      <4> QED
        BY <3>2, <4>1, <4>2 DEF Answered
    <3> QED
      BY <2>2, <3>1, <3>2 DEF CreateExecution
  <2>3. CASE EnqueueAction(r)
    <3>0. executions' = executions /\ r.pc = "add"
      BY <2>3 DEF EnqueueAction
    <3>1. PICK n : Become(r, n)
      BY <2>3, RefusedIs, AnsweredIs DEF EnqueueAction, IInv
    <3>2. Due \subseteq {Row(q) : q \in {p \in runs' : p.pc = "add"}} \cup {Row(r)}
      BY <3>0, <3>1, OrphanRun
    <3>3. CASE queued' = queued \cup {Row(r)}
      <4>1. Orphans' \subseteq Orphans
        BY <3>0, <3>2, <3>3 DEF Orphans, Row
      <4> QED
        BY <1>0, <3>0, <4>1, OrphansKept
    <3>4. CASE UNCHANGED queued /\ Refused(r)
      <4>1. Orphans' \subseteq Orphans \cup {Row(r)}
        BY <3>0, <3>2, <3>4 DEF Orphans, Row
      <4> QED
        BY <1>0, <3>0, <3>4, <4>1, OneMoreOrphan DEF Refused
    <3> QED
      BY <2>3, <3>3, <3>4 DEF EnqueueAction
  <2> QED
    BY <1>6, <2>1, <2>2, <2>3 DEF RunStep
<1> QED
  BY <1>2, <1>3, <1>4, <1>5, <1>6 DEF Next

-----------------------------------------------------------------------------
(* Theorems about verdicts and orphans *)

LEMMA InitVerdict == Init => VerdictInv
<1> SUFFICES ASSUME Init PROVE VerdictInv
  OBVIOUS
<1>1. LockInv /\ ErrorInv
  BY DEF Init, LockInv, ErrorInv
<1>2. Cardinality({}) = 0 /\ IsFiniteSet({}) /\ Concurrency \in Nat
  BY FS_EmptySet, ProcessingAssumption
<1>3. executions = {} /\ queued = {} /\ runs = {} /\ (executions \ queued) \ {} = {}
  BY DEF Init
<1>4. Excuses = 0
  <2>1. spent["refused"] = 0 /\ spent["unacked"] = 0 /\ spent["crash"] = 0
    BY DEF Init, Occurrences
  <2> QED
    BY <1>2, <2>1 DEF Excuses
<1>5. Orphans = {}
  BY <1>3 DEF Orphans
<1>6. OrphansExplained
  BY <1>2, <1>3, <1>4, <1>5 DEF OrphansExplained, Orphans, Excuses
<1> QED
  BY <1>1, <1>2, <1>3, <1>6 DEF VerdictInv, OrphanInv

\* What the verdicts and the executions of an event owe to its jobs and runs.
THEOREM VerdictInductive == Spec => []VerdictInv
<1>1. ASSUME IInv, VerdictInv, [Next]_vars
      PROVE  VerdictInv'
  <2>1. LockInv' /\ ErrorInv'
    BY <1>1, LockStep, ErrorStep DEF VerdictInv
  <2>2. IsFiniteSet(runs)' /\ (Cardinality(runs) <= Concurrency)'
    BY <1>1, RunsFit DEF VerdictInv
  <2>3. IsFiniteSet(executions') /\ Cardinality(Orphans') <= Excuses'
    BY <1>1, OrphanStep DEF VerdictInv
  <2>4. queued' \subseteq executions'
    <3>1. IInv'
      BY <1>1, RunInductive, CallInductive, JobInductive, OtherInductive, Stutter DEF Next
    <3> QED
      BY <3>1 DEF IInv, RowInv
  <2>5. OrphansExplained'
    BY <2>3, <2>4 DEF OrphansExplained, Orphans, Excuses
  <2> QED
    BY <2>1, <2>2, <2>3, <2>5 DEF VerdictInv, OrphanInv
<1> QED
  BY <1>1, InitVerdict, ProcessingInductive, PTL DEF Spec

\* Unless a lock was lost, an event that says ERROR has a job that runs again or
\* has failed for good.
THEOREM ErrorIsNotFinal == Spec => []ErrorIsUnfinished
<1>1. VerdictInv => ErrorIsUnfinished
  BY DEF VerdictInv, ErrorInv, ErrorIsUnfinished, Unsettled
<1> QED
  BY <1>1, VerdictInductive, PTL

\* Every execution without a job is about to get one or answers for a failed
\* statement or a run that a crash cut off.
THEOREM OrphansAreExplained == Spec => []OrphansExplained
<1>1. VerdictInv => OrphansExplained
  BY DEF VerdictInv, OrphanInv
<1> QED
  BY <1>1, VerdictInductive, PTL

-----------------------------------------------------------------------------
(* Every step of the queue and its consumer is a step of the abstract      *)
(* promise, or none.                                                       *)

LEMMA SamePhase ==
  ASSUME IInv, UNCHANGED job
  PROVE  UNCHANGED Promise!vars
  BY DEF Promise!vars, Phase

\* A job that is neither new nor settled moves on without a new attempt.
LEMMA OpenJobStep ==
  ASSUME IInv, NEW j \in Jobs,
         \A i \in Jobs : i # j => job'[i] = job[i],
         job[j].state \in {"waiting", "active", "delayed"},
         job'[j].state \in {"waiting", "active", "delayed"},
         job'[j].attempts = job[j].attempts
  PROVE  UNCHANGED Promise!vars
<1>1. \A i \in Jobs : Phase(i)' = Phase(i) /\ job'[i].attempts = job[i].attempts
  BY DEF Phase
<1> QED
  BY <1>1 DEF Promise!vars

\* The verdict on a job comes while it is active, so after its first attempt began.
LEMMA VerdictStep ==
  ASSUME IInv, NEW j \in Jobs,
         \A i \in Jobs : i # j => job'[i] = job[i],
         job[j].state = "active",
         job'[j].state \in {"completed", "failed"},
         job'[j].attempts = job[j].attempts
  PROVE  Promise!Next
<1> DEFINE verdict == IF job'[j].state = "completed" THEN "delivered" ELSE "dead"
<1>1. \A i \in Jobs : job'[i].attempts = job[i].attempts
  OBVIOUS
<1>2. \A i \in Jobs : Phase(i)' = IF i = j THEN verdict ELSE Phase(i)
  BY DEF Phase
<1>3. Phase(j) = "open" /\ job[j].attempts > 0
  BY DEF Phase, IInv, JobInv
<1>4. [i \in Jobs |-> Phase(i)]' = [[i \in Jobs |-> Phase(i)] EXCEPT ![j] = verdict]
  BY <1>2
<1>5. Promise!Decide(j)
  BY <1>1, <1>3, <1>4 DEF Promise!Decide
<1> QED
  BY <1>5 DEF Promise!Next

LEMMA PromiseInit == Init => Promise!Init
  BY DEF Init, NewJob, Promise!Init, Phase

\* Adding a job accepts it; when its name is taken, nothing happens.
LEMMA PromiseAdd ==
  ASSUME IInv, NEW c \in calls, AddEventJob(c)
  PROVE  Promise!Next \/ UNCHANGED Promise!vars
<1>1. CASE UNCHANGED job
  BY <1>1, SamePhase
<1>2. CASE ~ UNCHANGED job
  <2>0. c.event \in Events /\ c.nr \in 0 .. Budget["reprocess"]
    BY CallType DEF IInv
  <2>1. PICK n \in IF c.nr = 0 THEN {0} ELSE 1 .. c.nr :
           job' = [job EXCEPT ![<<c.event, n>>] =
                     IF job[<<c.event, n>>].state = "none" THEN NewJob("waiting")
                     ELSE job[<<c.event, n>>]]
    BY <1>2 DEF AddEventJob
  <2> DEFINE j == <<c.event, n>>
  <2>2. j \in Jobs
    BY <2>0, ProcessingAssumption DEF Jobs, Occurrences
  <2> HIDE DEF j
  <2>3. job' = [job EXCEPT ![j] = IF job[j].state = "none" THEN NewJob("waiting")
                                  ELSE job[j]]
    BY <2>1 DEF j
  <2>4. \A i \in Jobs : i # j => job'[i] = job[i]
    BY <2>3 DEF IInv, TypeOK
  <2>5. job'[j] = IF job[j].state = "none" THEN NewJob("waiting") ELSE job[j]
    BY <2>2, <2>3 DEF IInv, TypeOK
  <2>6. CASE job[j].state = "none"
    <3>0. job'[j] = [state |-> "waiting", attempts |-> 0, stalled |-> 0, lock |-> 0]
      BY <2>5, <2>6 DEF NewJob
    <3>1. job[j].attempts = 0 /\ job'[j].state = "waiting" /\ job'[j].attempts = 0
      BY <2>2, <2>6, <3>0 DEF IInv, JobInv
    <3>2. /\ Phase(j) = "absent"
          /\ \A i \in Jobs : /\ Phase(i)' = IF i = j THEN "open" ELSE Phase(i)
                             /\ job'[i].attempts = job[i].attempts
      BY <2>2, <2>4, <2>6, <3>1 DEF Phase
    <3>3. [i \in Jobs |-> Phase(i)]' = [[i \in Jobs |-> Phase(i)] EXCEPT ![j] = "open"]
      BY <3>2
    <3>4. Promise!Accept(j)
      BY <2>2, <3>2, <3>3 DEF Promise!Accept
    <3> QED
      BY <2>2, <3>4 DEF Promise!Next
  <2>7. CASE job[j].state # "none"
    <3>1. \A i \in Jobs : Phase(i)' = Phase(i) /\ job'[i].attempts = job[i].attempts
      BY <2>4, <2>5, <2>7 DEF Phase
    <3> QED
      BY <3>1 DEF Promise!vars
  <2> QED
    BY <2>6, <2>7
<1> QED
  BY <1>1, <1>2

LEMMA PromiseQueueStep ==
  ASSUME IInv, NEW j \in Jobs, QueueStep(j) \/ LoseLock(j)
  PROVE  Promise!Next \/ UNCHANGED Promise!vars
<1>0. /\ job \in [Jobs -> [state : JobStates, attempts : Nat, stalled : Nat, lock : Nat]]
      /\ MaxAttempts \in Nat /\ MaxStalled \in Nat
  BY ProcessingAssumption DEF IInv, TypeOK
<1>1. CASE Start(j)
  <2>1. /\ \A i \in Jobs : i # j => job'[i] = job[i]
        /\ job[j].state = "waiting" /\ job'[j].state = "active"
        /\ job'[j].attempts = job[j].attempts + 1
    BY <1>0, <1>1 DEF Start
  <2>2. Phase(j) = "open" /\ \A i \in Jobs : Phase(i)' = Phase(i)
    BY <2>1 DEF Phase
  <2>3. job[j].attempts < MaxAttempts + MaxStalled
    BY <1>0, <2>1 DEF IInv, JobInv
  <2>4. [i \in Jobs |-> job[i].attempts]' =
           [[i \in Jobs |-> job[i].attempts] EXCEPT ![j] = @ + 1]
    BY <2>1
  <2>5. Promise!Try(j)
    BY <1>0, <2>2, <2>3, <2>4 DEF Promise!Try
  <2> QED
    BY <2>5 DEF Promise!Next
<1>2. CASE Promote(j) \/ LoseLock(j)
  <2>1. /\ \A i \in Jobs : i # j => job'[i] = job[i]
        /\ job[j].state \in {"active", "delayed"}
        /\ job'[j].state \in {"waiting", "active"}
        /\ job'[j].attempts = job[j].attempts
    BY <1>0, <1>2 DEF Promote, LoseLock, Settle
  <2> QED
    BY <2>1, OpenJobStep
<1>3. CASE RecoverStalled(j)
  <2>1. /\ \A i \in Jobs : i # j => job'[i] = job[i]
        /\ job[j].state = "active"
        /\ job'[j].state \in {"waiting", "failed"}
        /\ job'[j].attempts = job[j].attempts
    BY <1>0, <1>3 DEF RecoverStalled
  <2> QED
    BY <2>1, OpenJobStep, VerdictStep
<1> QED
  BY <1>1, <1>2, <1>3 DEF QueueStep

\* A run settles its job only while it holds the lock, so while the job is active.
LEMMA PromiseRunStep ==
  ASSUME IInv, NEW r \in runs, RunStep(r)
  PROVE  Promise!Next \/ UNCHANGED Promise!vars
<1>0. /\ job \in [Jobs -> [state : JobStates, attempts : Nat, stalled : Nat, lock : Nat]]
      /\ r.job \in Jobs /\ r.attempt \in 1 .. job[r.job].attempts
  BY RunType DEF IInv, TypeOK, RunInv
<1>1. \/ UNCHANGED job
      \/ /\ HoldsLock(r)
         /\ \E state \in {"completed", "delayed", "failed"} : Settle(r.job, state)
  BY DEF RunStep, Evaluate, Mark, CreateExecution, EnqueueAction, CountRule, MarkError,
         Resolve, Reject
<1>2. CASE UNCHANGED job
  BY <1>2, SamePhase
<1>3. ASSUME HoldsLock(r), NEW state \in {"completed", "delayed", "failed"},
             Settle(r.job, state)
      PROVE  Promise!Next \/ UNCHANGED Promise!vars
  <2>1. job[r.job].state = "active"
    <3>1. job[r.job].lock # 0
      BY <1>0, <1>3 DEF HoldsLock
    <3> QED
      BY <1>0, <3>1 DEF IInv, JobInv
  <2>2. /\ \A i \in Jobs : i # r.job => job'[i] = job[i]
        /\ job'[r.job].state = state
        /\ job'[r.job].attempts = job[r.job].attempts
    BY <1>0, <1>3 DEF Settle
  <2> QED
    BY <1>0, <2>1, <2>2, OpenJobStep, VerdictStep
<1> QED
  BY <1>1, <1>2, <1>3

LEMMA PromiseNext == IInv /\ [Next]_vars => [Promise!Next]_(Promise!vars)
<1> SUFFICES ASSUME IInv, [Next]_vars
             PROVE  Promise!Next \/ UNCHANGED Promise!vars
  OBVIOUS
<1>1. CASE UNCHANGED vars
  BY <1>1, SamePhase DEF vars
<1>2. ASSUME NEW e \in Events, CreateEvent(e) \/ ReprocessEvent(e)
      PROVE  UNCHANGED Promise!vars
  BY <1>2, SamePhase DEF CreateEvent, ReprocessEvent
<1>3. ASSUME NEW c \in calls, CallStep(c)
      PROVE  Promise!Next \/ UNCHANGED Promise!vars
  <2>1. UpdateStatus(c) \/ ResetStatus(c) => UNCHANGED job
    BY DEF UpdateStatus, ResetStatus
  <2> QED
    BY <1>3, <2>1, SamePhase, PromiseAdd DEF CallStep
<1>4. ASSUME NEW x \in Rules, ToggleRule(x)
      PROVE  UNCHANGED Promise!vars
  BY <1>4, SamePhase DEF ToggleRule
<1>5. CASE Crash
  <2>1. \A j \in Jobs : job'[j].state = job[j].state /\ job'[j].attempts = job[j].attempts
    BY <1>5 DEF Crash
  <2>2. \A j \in Jobs : Phase(j)' = Phase(j) /\ job'[j].attempts = job[j].attempts
    BY <2>1 DEF Phase
  <2> QED
    BY <2>2 DEF Promise!vars
<1> QED
  BY <1>1, <1>2, <1>3, <1>4, <1>5, PromiseQueueStep, PromiseRunStep DEF Next

\* The event queue keeps the promise of BoundedRetry: a job is added once, whatever
\* submitEvent and reprocessEvent race about, its attempts are bounded, and its one
\* verdict never changes, although runs outlive their locks.
THEOREM PromiseIsKept == Spec => KeepsPromise
<1>1. Init => Promise!Init
  BY PromiseInit
<1>2. IInv /\ [Next]_vars => [Promise!Next]_(Promise!vars)
  BY PromiseNext
<1> QED
  BY <1>1, <1>2, ProcessingInductive, PTL DEF Spec, KeepsPromise, Promise!SafeSpec
=============================================================================
