-------------------------- MODULE EventProcessing --------------------------
(***************************************************************************)
(* From an Event row to the executions of its matching rules: the end of   *)
(* submitEvent, reprocessEvent, the job of the 'event-processing' queue,   *)
(* EventConsumer and EventProcessingService.processEvent.                  *)
(*                                                                         *)
(* Every await of the code is a step.  Rows and jobs survive a crash; API  *)
(* calls and runs of process() do not.  What becomes of a queued execution *)
(* is the subject of ActionExecution.                                      *)
(***************************************************************************)
EXTENDS Naturals, FiniteSets

CONSTANTS
    Events, Rules,
    Matching,     \* the rules of an event's type and source whose conditions hold
    Actions,      \* the number of a rule's actions; validateActions wants one
    Concurrency,  \* process() invocations a worker runs at a time
    MaxAttempts,  \* job.opts.attempts
    MaxStalled,   \* BullMQ's maxStalledCount
    None,         \* no rule
    Budget        \* how often each bounded occurrence may happen

\* "refused": a statement fails and is not applied.  "unacked": it is applied
\* but its reply is lost.  "crash": the process dies and is restarted.  "lock": a
\* job lock expires under a live run.  "reprocess": POST /events/:id/reprocess.
\* "toggle": a rule is switched on or off.
Occurrences == {"refused", "unacked", "crash", "lock", "reprocess", "toggle"}

ASSUME ProcessingAssumption ==
    /\ None \notin Rules
    /\ Matching \in [Events -> SUBSET Rules]
    /\ Actions \in [Rules -> Nat \ {0}]
    /\ IsFiniteSet(Rules)
    /\ Concurrency \in Nat \ {0}
    /\ MaxAttempts \in Nat \ {0}
    /\ MaxStalled \in Nat
    /\ Budget \in [Occurrences -> Nat]

VARIABLES
    status,      \* EventStatus, "ABSENT" before the row is created
    matched,     \* the event's matchedRules
    active,      \* rules whose isActive is set
    executions,  \* ActionExecution rows, named by who created them and for what
    queued,      \* those with a job in the action queue
    counted,     \* runs that incremented a rule's executionCount
    calls,       \* submitEvent and reprocessEvent calls in progress
    job,         \* the jobs of the event-processing queue
    runs,        \* process() invocations in progress
    spent        \* how often each bounded occurrence has happened

event  == <<status, matched>>
fanout == <<executions, queued, counted>>
vars    == <<status, matched, active, executions, queued, counted, calls, job, runs,
            spent>>

\* Job n of an event: 0 is process-event-<id>, the others reprocess-event-<id>-<now>.
Jobs == Events \X (0 .. Budget["reprocess"])

\* COMPLETED and PARTIAL exist in the schema and are never written.
Statuses  == {"ABSENT", "RECEIVED", "PROCESSING", "MATCHED", "NO_MATCH", "ERROR"}
JobStates == {"none", "waiting", "active", "delayed", "completed", "failed"}

Calls == [event : Events, nr : 0 .. Budget["reprocess"],
          pc : {"reset", "add", "update"}]
Runs  == [job : Jobs, attempt : Nat,
          pc : {"evaluate", "mark", "create", "add", "count", "error",
                "resolve", "reject"},
          matched : SUBSET Rules,            \* matchingRules
          rest : SUBSET Rules,               \* those the loop has not begun
          rule : Rules \cup {None}, index : Nat]
Executions == [job : Jobs, attempt : Nat, rule : Rules, index : Nat]

TypeOK ==
    /\ status \in [Events -> Statuses]
    /\ matched \in [Events -> Nat]
    /\ active \subseteq Rules
    /\ executions \subseteq Executions
    /\ queued \subseteq Executions
    /\ counted \in [Rules -> SUBSET (Jobs \X Nat)]
    /\ calls \subseteq Calls
    /\ job \in [Jobs -> [state : JobStates, attempts : Nat, stalled : Nat, lock : Nat]]
    /\ runs \subseteq Runs
    /\ spent \in [Occurrences -> Nat]

NewJob(state) == [state |-> state, attempts |-> 0, stalled |-> 0, lock |-> 0]

Init ==
    /\ status = [e \in Events |-> "ABSENT"]
    /\ matched = [e \in Events |-> 0]
    /\ active = Rules
    /\ executions = {} /\ queued = {} /\ calls = {} /\ runs = {}
    /\ counted = [r \in Rules |-> {}]
    /\ job = [j \in Jobs |-> NewJob("none")]
    /\ spent = [k \in Occurrences |-> 0]

Spend(k) == /\ spent[k] < Budget[k]
            /\ spent' = [spent EXCEPT ![k] = @ + 1]

-----------------------------------------------------------------------------
(* The API: submitEvent once the row is created, and reprocessEvent.  A    *)
(* call whose statement fails answers with an error.                       *)

Return(c)       == calls' = calls \ {c}
Continue(c, pc) == calls' = (calls \ {c}) \cup {[c EXCEPT !.pc = pc]}

CreateEvent(e) ==
    /\ status[e] = "ABSENT"
    /\ status' = [status EXCEPT ![e] = "RECEIVED"]
    /\ calls' = calls \cup {[event |-> e, nr |-> 0, pc |-> "add"]}
    /\ UNCHANGED <<matched, active, fanout, job, runs, spent>>

\* A second job of one millisecond has the name of the first and is ignored.
AddEventJob(c) ==
    /\ c.pc = "add"
    /\ \/ \E n \in IF c.nr = 0 THEN {0} ELSE 1 .. c.nr :
             LET j == <<c.event, n>> IN
             /\ n = c.nr \/ job[j].state = "waiting"
             /\ job' = [job EXCEPT ![j] = IF @.state = "none" THEN NewJob("waiting")
                                                              ELSE @]
             /\ IF c.nr = 0 THEN Continue(c, "update") ELSE Return(c)
             /\ UNCHANGED spent
       \/ UNCHANGED job /\ Return(c) /\ Spend("refused")
    /\ UNCHANGED <<event, active, fanout, runs>>

\* Step 6 of submitEvent.
UpdateStatus(c) ==
    /\ c.pc = "update"
    /\ \/ status' = [status EXCEPT ![c.event] = "PROCESSING"] /\ UNCHANGED spent
       \/ UNCHANGED status /\ Spend("refused")
    /\ Return(c)
    /\ UNCHANGED <<matched, active, fanout, job, runs>>

ReprocessEvent(e) ==
    /\ status[e] # "ABSENT"
    /\ Spend("reprocess")
    /\ calls' = calls \cup {[event |-> e, nr |-> spent["reprocess"] + 1, pc |-> "reset"]}
    /\ UNCHANGED <<event, active, fanout, job, runs>>

\* A reply that is lost here leaves what a refused addition leaves.
ResetStatus(c) ==
    /\ c.pc = "reset"
    /\ \/ /\ status' = [status EXCEPT ![c.event] = "PROCESSING"]
          /\ matched' = [matched EXCEPT ![c.event] = 0]
          /\ Continue(c, "add")
          /\ UNCHANGED spent
       \/ UNCHANGED event /\ Return(c) /\ Spend("refused")
    /\ UNCHANGED <<active, fanout, job, runs>>

CallStep(c) == AddEventJob(c) \/ UpdateStatus(c) \/ ResetStatus(c)

\* PATCH /rules/:id
ToggleRule(x) ==
    /\ Spend("toggle")
    /\ active' = IF x \in active THEN active \ {x} ELSE active \cup {x}
    /\ UNCHANGED <<event, fanout, calls, job, runs>>

-----------------------------------------------------------------------------
(* EventConsumer.process and EventProcessingService.processEvent           *)

Start(j) ==
    LET attempt == job[j].attempts + 1 IN
    /\ job[j].state = "waiting"
    /\ Cardinality(runs) < Concurrency
    /\ job' = [job EXCEPT ![j] = [state |-> "active", attempts |-> attempt,
                                  stalled |-> job[j].stalled, lock |-> attempt]]
    /\ runs' = runs \cup {[job |-> j, attempt |-> attempt, pc |-> "evaluate",
                           matched |-> {}, rest |-> {}, rule |-> None, index |-> 0]}
    /\ UNCHANGED <<event, active, fanout, calls, spent>>

Become(r, next) == runs' = (runs \ {r}) \cup {next}
Goto(r, pc)     == Become(r, [r EXCEPT !.pc = pc])

\* The catch block is reached from every statement before it; a rejection
\* inside it goes to BullMQ.
OnError(r) == Goto(r, IF r.pc = "error" THEN "reject" ELSE "error")

\* The statement is applied; its reply arrives or is lost.
Answered(r, next) == \/ Become(r, next) /\ UNCHANGED spent
                     \/ OnError(r) /\ Spend("unacked")

Refused(r) == OnError(r) /\ Spend("refused")

\* The loop over matchingRules: the next rule and its first action.
NextRules(r) ==
    IF r.rest = {}
    THEN {[r EXCEPT !.pc = "resolve", !.rule = None, !.index = 0]}
    ELSE {[r EXCEPT !.pc = "create", !.rest = @ \ {x}, !.rule = x, !.index = 1] :
              x \in r.rest}

\* Mutant: the loop ends one action early.
NextActionShort(r) ==
    IF r.index + 1 < Actions[r.rule]
    THEN [r EXCEPT !.pc = "create", !.index = @ + 1]
    ELSE [r EXCEPT !.pc = "count"]

\* The loop over the actions of a rule.
NextAction(r) ==
    IF r.index < Actions[r.rule]
    THEN [r EXCEPT !.pc = "create", !.index = @ + 1]
    ELSE [r EXCEPT !.pc = "count"]

\* The active rules of the event's type and source whose conditions match; an
\* error of a condition only skips its rule.
FindMatchingRules(e) == Matching[e] \cap active

\* Steps 1 to 3
Evaluate(r) ==
    LET found == FindMatchingRules(r.job[1]) IN
    /\ r.pc = "evaluate"
    /\ \/ /\ Become(r, [r EXCEPT !.pc = "mark", !.matched = found, !.rest = found])
          /\ UNCHANGED spent
       \/ Refused(r)
    /\ UNCHANGED <<event, active, fanout, calls, job>>

\* Mutant: an event is called completed when its rules are known.
MarkCompleted(r) ==
    LET e == r.job[1] IN
    /\ r.pc = "mark"
    /\ status' = [status EXCEPT ![e] = "COMPLETED"]
    /\ matched' = [matched EXCEPT ![e] = Cardinality(r.matched)]
    /\ \E next \in NextRules(r) : Answered(r, next)
    /\ UNCHANGED <<active, fanout, calls, job>>

\* Step 4
Mark(r) ==
    LET e == r.job[1] IN
    /\ r.pc = "mark"
    /\ \/ /\ status' = [status EXCEPT ![e] =
                           IF r.matched = {} THEN "NO_MATCH" ELSE "MATCHED"]
          /\ matched' = [matched EXCEPT ![e] = Cardinality(r.matched)]
          /\ \E next \in NextRules(r) : Answered(r, next)
       \/ UNCHANGED event /\ Refused(r)
    /\ UNCHANGED <<active, fanout, calls, job>>

\* Step 5, queueRuleActions
Row(r) == [job |-> r.job, attempt |-> r.attempt, rule |-> r.rule, index |-> r.index]

\* Mutant: the rows of all the rule's actions are created at once.
CreateEveryExecution(r) ==
    /\ r.pc = "create"
    /\ executions' = executions \cup
          {[Row(r) EXCEPT !.index = i] : i \in 1 .. Actions[r.rule]}
    /\ Answered(r, [r EXCEPT !.pc = "add"])
    /\ UNCHANGED <<event, active, queued, counted, calls, job>>

CreateExecution(r) ==
    /\ r.pc = "create"
    /\ \/ executions' = executions \cup {Row(r)} /\ Answered(r, [r EXCEPT !.pc = "add"])
       \/ UNCHANGED executions /\ Refused(r)
    /\ UNCHANGED <<event, active, queued, counted, calls, job>>

\* Mutant: when the queue fails, the action is tried once more.
EnqueueRepeating(r) ==
    /\ r.pc = "add"
    /\ \/ queued' = queued \cup {Row(r)} /\ Answered(r, NextAction(r))
       \/ UNCHANGED queued /\ Goto(r, "create") /\ Spend("refused")
    /\ UNCHANGED <<event, active, executions, counted, calls, job>>

EnqueueAction(r) ==
    /\ r.pc = "add"
    /\ \/ queued' = queued \cup {Row(r)} /\ Answered(r, NextAction(r))
       \/ UNCHANGED queued /\ Refused(r)
    /\ UNCHANGED <<event, active, executions, counted, calls, job>>

CountRule(r) ==
    /\ r.pc = "count"
    /\ \/ /\ counted' = [counted EXCEPT ![r.rule] = @ \cup {<<r.job, r.attempt>>}]
          /\ \E next \in NextRules(r) : Answered(r, next)
       \/ UNCHANGED counted /\ Refused(r)
    /\ UNCHANGED <<event, active, executions, queued, calls, job>>

\* Mutant: the error is not thrown on.
MarkErrorSwallowing(r) ==
    /\ r.pc = "error"
    /\ status' = [status EXCEPT ![r.job[1]] = "ERROR"]
    /\ Answered(r, [r EXCEPT !.pc = "resolve"])
    /\ UNCHANGED <<matched, active, fanout, calls, job>>

\* The catch block
MarkError(r) ==
    /\ r.pc = "error"
    /\ \/ /\ status' = [status EXCEPT ![r.job[1]] = "ERROR"]
          /\ Answered(r, [r EXCEPT !.pc = "reject"])
       \/ UNCHANGED status /\ Refused(r)
    /\ UNCHANGED <<matched, active, fanout, calls, job>>

-----------------------------------------------------------------------------
(* BullMQ, as in ActionExecution                                           *)

HoldsLock(r) == job[r.job].lock = r.attempt

Settle(j, state) ==
    job' = [job EXCEPT ![j] = [state |-> state, attempts |-> job[j].attempts,
                               stalled |-> job[j].stalled, lock |-> 0]]

Resolve(r) ==
    /\ r.pc = "resolve"
    /\ IF HoldsLock(r) THEN Settle(r.job, "completed") ELSE UNCHANGED job
    /\ runs' = runs \ {r}
    /\ UNCHANGED <<event, active, fanout, calls, spent>>

Reject(r) ==
    /\ r.pc = "reject"
    /\ IF HoldsLock(r)
       THEN Settle(r.job, IF r.attempt < MaxAttempts THEN "delayed" ELSE "failed")
       ELSE UNCHANGED job
    /\ runs' = runs \ {r}
    /\ UNCHANGED <<event, active, fanout, calls, spent>>

Promote(j) ==
    /\ job[j].state = "delayed"
    /\ Settle(j, "waiting")
    /\ UNCHANGED <<event, active, fanout, calls, runs, spent>>

RecoverStalled(j) ==
    LET stalled == job[j].stalled + 1 IN
    /\ job[j].state = "active"
    /\ job[j].lock = 0
    /\ job' = [job EXCEPT ![j] =
                 [state |-> IF stalled > MaxStalled THEN "failed" ELSE "waiting",
                  attempts |-> job[j].attempts, stalled |-> stalled, lock |-> 0]]
    /\ UNCHANGED <<event, active, fanout, calls, runs, spent>>

LoseLock(j) ==
    /\ job[j].state = "active"
    /\ job[j].lock # 0
    /\ Spend("lock")
    /\ Settle(j, "active")
    /\ UNCHANGED <<event, active, fanout, calls, runs>>

Crash ==
    /\ Spend("crash")
    /\ calls' = {} /\ runs' = {}
    /\ job' = [j \in Jobs |-> [state |-> job[j].state, attempts |-> job[j].attempts,
                               stalled |-> job[j].stalled, lock |-> 0]]
    /\ UNCHANGED <<event, active, fanout>>

RunStep(r) ==
    \/ Evaluate(r) \/ Mark(r) \/ CreateExecution(r) \/ EnqueueAction(r)
    \/ CountRule(r) \/ MarkError(r) \/ Resolve(r) \/ Reject(r)

QueueStep(j) == Start(j) \/ Promote(j) \/ RecoverStalled(j)

Next ==
    \/ \E e \in Events : CreateEvent(e) \/ ReprocessEvent(e)
    \/ \E c \in calls : CallStep(c)
    \/ \E x \in Rules : ToggleRule(x)
    \/ \E j \in Jobs : QueueStep(j) \/ LoseLock(j)
    \/ \E r \in runs : RunStep(r)
    \/ Crash

\* As in ActionExecution: ready promises run, BullMQ takes every job it may.
Fairness ==
    /\ \A e \in Events : WF_vars(\E c \in calls : c.event = e /\ CallStep(c))
    /\ \A j \in Jobs : /\ WF_vars(QueueStep(j))
                       /\ WF_vars(\E r \in runs : r.job = j /\ RunStep(r))

Spec     == Init /\ [][Next]_vars
FairSpec == Spec /\ Fairness

-----------------------------------------------------------------------------
(* Properties of the code                                                  *)

\* What an attempt queued of a rule.
Complete(j, attempt, x) ==
    \A i \in 1 .. Actions[x] :
        [job |-> j, attempt |-> attempt, rule |-> x, index |-> i] \in queued

\* An attempt counts a rule only after it queued every action of it, and comes
\* to an end only after it counted every rule it found, whatever was switched
\* off, reprocessed or run a second time meanwhile.
FanoutComplete ==
    /\ \A x \in Rules : \A c \in counted[x] : Complete(c[1], c[2], x)
    /\ \A r \in runs : r.pc = "resolve" =>
          \A x \in r.matched : <<r.job, r.attempt>> \in counted[x]

\* A retry of the event's job creates the executions again, but one attempt
\* creates the execution of an action once, and a job has a bounded number of
\* attempts: the duplicates of an action are bounded too.
DuplicatesBounded ==
    /\ \A r \in runs : r.pc = "create" => Row(r) \notin executions
    /\ \A x \in executions : x.attempt <= MaxAttempts + MaxStalled

\* Every execution row has its job in the action queue, except the one a run is
\* about to queue and at most one for each failed statement and each run that a
\* crash cut off.
OrphansExplained ==
    /\ queued \subseteq executions
    /\ LET due == {Row(r) : r \in {q \in runs : q.pc = "add"}} IN
       Cardinality((executions \ queued) \ due)
           <= spent["refused"] + spent["unacked"] + Concurrency * spent["crash"]

\* ERROR does not outlive the failure: while an event says ERROR, one of its
\* jobs still has to run again or has failed for good.  A run that lost its lock
\* can break this: it writes ERROR after the newer run of its job completed.
ErrorIsUnfinished ==
    spent["lock"] = 0 =>
        \A e \in Events : status[e] = "ERROR" =>
            \E j \in Jobs : j[1] = e /\ job[j].state \notin {"none", "completed"}

\* The inductive invariant behind FanoutComplete and DuplicatesBounded.
JobInv ==
    \A j \in Jobs :
        /\ job[j].lock \in {0, job[j].attempts}
        /\ job[j].lock # 0 => job[j].state = "active"
        /\ job[j].attempts <= MaxAttempts + MaxStalled
        /\ job[j].state = "none" => job[j].attempts = 0
        /\ job[j].state = "active" => job[j].attempts \in 1 .. MaxAttempts + job[j].stalled
        /\ job[j].state \in {"waiting", "delayed"} =>
              job[j].attempts < MaxAttempts + job[j].stalled
        /\ job[j].state \in {"waiting", "delayed", "active"} =>
              job[j].stalled <= MaxStalled

RunInv ==
    /\ \A r \in runs : r.attempt \in 1 .. job[r.job].attempts
    /\ \A r, q \in runs : r.job = q.job /\ r.attempt = q.attempt => r = q

RowInv ==
    /\ queued \subseteq executions
    /\ \A x \in executions : x.attempt <= job[x.job].attempts
    /\ \A x \in Rules : \A c \in counted[x] : Complete(c[1], c[2], x)

\* What the two loops of a run have done so far.
Mine(r) == {x \in executions : x.job = r.job /\ x.attempt = r.attempt}

LoopOK(r) ==
    /\ r.rest \subseteq r.matched
    /\ r.pc \in {"evaluate", "mark"} => Mine(r) = {}
    /\ r.pc = "mark" => r.rest = r.matched
    /\ r.pc = "resolve" => r.rest = {} /\ r.rule = None
    /\ r.pc \in {"create", "add", "count"} => r.rule \in r.matched \ r.rest
    /\ r.pc \in {"create", "add"} =>
          /\ r.index \in 1 .. Actions[r.rule]
          /\ \A i \in 1 .. r.index - 1 : [Row(r) EXCEPT !.index = i] \in queued
    /\ r.pc = "add" => Row(r) \in executions
    /\ r.pc = "count" => Complete(r.job, r.attempt, r.rule)
    /\ r.pc \in {"create", "add", "count", "resolve"} =>
          /\ \A x \in Mine(r) :
                /\ x.rule \notin r.rest
                /\ x.rule = r.rule /\ r.pc = "create" => x.index < r.index
                /\ x.rule = r.rule /\ r.pc = "add" => x.index <= r.index
          /\ \A x \in (r.matched \ r.rest) \ {r.rule} :
                <<r.job, r.attempt>> \in counted[x]

LoopInv == \A r \in runs : LoopOK(r)

IInv == TypeOK /\ JobInv /\ RunInv /\ RowInv /\ LoopInv

\* Every match is acted on: once the job of an event is added, every matching
\* rule gets a complete set of queued actions from one attempt, unless the job
\* fails for good, or a rule is switched off.
EveryMatchIsQueued ==
    \A j \in Jobs : \A x \in Matching[j[1]] :
        job[j].state # "none" /\ x \in active
            ~> \/ \E a \in 1 .. job[j].attempts : Complete(j, a, x)
               \/ job[j].state = "failed" \/ spent["toggle"] > 0

-----------------------------------------------------------------------------
(* The abstract promise: a job of the event queue is added once, has a      *)
(* bounded number of attempts and gets one verdict, after at least one.     *)
(* Nothing records its failure: there is no listener for this queue.        *)

Phase(j) == CASE job[j].state = "none"      -> "absent"
              [] job[j].state = "completed" -> "delivered"
              [] job[j].state = "failed"    -> "dead"
              [] OTHER                      -> "open"

Promise == INSTANCE BoundedRetry WITH
    Actions  <- Jobs,
    Enough   <- MaxAttempts,
    Limit    <- MaxAttempts + MaxStalled,
    phase    <- [j \in Jobs |-> Phase(j)],
    tries    <- [j \in Jobs |-> job[j].attempts],
    recorded <- {}

KeepsPromise == Promise!SafeSpec

-----------------------------------------------------------------------------
(* What the repository says and the code does not do (see README)          *)

\* schema.prisma: PROCESSING is "Being evaluated by rule engine".
EvaluationEnds ==
    \A e \in Events : status[e] = "PROCESSING" ~> status[e] # "PROCESSING"
=============================================================================
