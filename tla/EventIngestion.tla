-------------------------- MODULE EventIngestion --------------------------
(***************************************************************************)
(* POST /events: EventsService.submitEvent with IdempotencyService, for    *)
(* any number of requests in flight.  A request carries a source and a     *)
(* correlationId, here one correlation; the Event row a request creates is *)
(* named by the request.                                                   *)
(*                                                                         *)
(* Every await is a step.  Any statement of Postgres or Redis may fail, a  *)
(* failing write may have been applied, any key may be evicted from Redis, *)
(* and the process may crash, at any time and any number of times.         *)
(***************************************************************************)
CONSTANTS
    Requests,      \* the submissions
    Correlations,  \* pairs of sourceId and correlationId
    Keys,          \* Redis keys
    None,          \* no correlationId, or no value in Redis
    Corr,          \* the correlation of each request, or None
    Key,           \* buildKey: it drops characters, so it need not be injective
    Enabled        \* features.idempotency

ASSUME IngestionAssumption ==
    /\ None \notin Requests \cup Correlations \cup Keys
    /\ Corr \in [Requests -> Correlations \cup {None}]
    /\ Key \in [Correlations -> Keys]
    /\ Enabled \in BOOLEAN

VARIABLES
    pc,          \* where each request is
    rows,        \* the requests whose Event row was created
    status,      \* EventStatus of the row, as far as submitEvent sets it
    cache,       \* the idempotency keys in Redis
    found,       \* the event a request took from Redis or Postgres
    queued,      \* events with a job process-event-<id>
    seen         \* history: the correlation had an event when the request began

vars == <<pc, rows, status, cache, found, queued, seen>>

InFlight == {"lookup", "load", "find", "populate", "create", "store", "enqueue",
             "update"}
Answered == {"created", "duplicate", "failed"}

TypeOK ==
    /\ pc \in [Requests -> InFlight \cup Answered \cup {"idle"}]
    /\ rows \subseteq Requests
    /\ status \in [Requests -> {"RECEIVED", "PROCESSING"}]
    /\ cache \in [Keys -> Requests \cup {None}]
    /\ found \in [Requests -> Requests \cup {None}]
    /\ queued \subseteq Requests
    /\ seen \in [Requests -> BOOLEAN]

\* Mutant: the correlationId is missing from the where clause.
MatchingSource(r) == rows

\* where: { sourceId, correlationId }
Matching(r) == {e \in rows : Corr[e] = Corr[r]}

KeyOf(r) == Key[Corr[r]]

Init ==
    /\ pc = [r \in Requests |-> "idle"]
    /\ rows = {}
    /\ status = [r \in Requests |-> "RECEIVED"]
    /\ cache = [k \in Keys |-> None]
    /\ found = [r \in Requests |-> None]
    /\ queued = {}
    /\ seen = [r \in Requests |-> FALSE]

Goto(r, next) == pc' = [pc EXCEPT ![r] = next]

-----------------------------------------------------------------------------
(* submitEvent, step 1: checkIdempotency                                   *)

\* Without a correlationId, or with idempotency disabled, nothing is checked.
Checked(r) == Enabled /\ Corr[r] # None

Submit(r) ==
    /\ pc[r] = "idle"
    /\ Goto(r, IF Checked(r) THEN "lookup" ELSE "create")
    /\ seen' = [seen EXCEPT ![r] = Corr[r] # None /\ Matching(r) # {}]
    /\ UNCHANGED <<rows, status, cache, found, queued>>

\* redis.get: a miss and an error both lead to the database.
LookUp(r) ==
    /\ pc[r] = "lookup"
    /\ \/ /\ cache[KeyOf(r)] # None
          /\ found' = [found EXCEPT ![r] = cache[KeyOf(r)]]
          /\ Goto(r, "load")
       \/ Goto(r, "find") /\ UNCHANGED found
    /\ UNCHANGED <<rows, status, cache, queued, seen>>

\* event.findUnique for the cached id: inside the same try block.
Load(r) ==
    /\ pc[r] = "load"
    /\ \/ found[r] \in rows /\ Goto(r, "duplicate")
       \/ Goto(r, "find")
    /\ UNCHANGED <<rows, status, cache, found, queued, seen>>

\* Mutant: the error of the database is treated like an empty answer.
FindSwallowing(r) ==
    /\ pc[r] = "find"
    /\ \/ \E e \in Matching(r) :
             found' = [found EXCEPT ![r] = e] /\ Goto(r, "populate")
       \/ Goto(r, "create") /\ UNCHANGED found
    /\ UNCHANGED <<rows, status, cache, queued, seen>>

\* Mutant: findMany, whose answer is a list.
FindMany(r) ==
    /\ pc[r] = "find"
    /\ \/ /\ Matching(r) # {}
          /\ found' = [found EXCEPT ![r] = Matching(r)]
          /\ Goto(r, "populate")
       \/ Matching(r) = {} /\ Goto(r, "create") /\ UNCHANGED found
    /\ UNCHANGED <<rows, status, cache, queued, seen>>

\* event.findFirst: its error ends the request.  The newest row is wanted, but
\* receivedAt is the clock of the process that sent the insert and not the order
\* of the inserts: any matching row may be the newest.
Find(r) ==
    /\ pc[r] = "find"
    /\ \/ \E e \in Matching(r) :
             found' = [found EXCEPT ![r] = e] /\ Goto(r, "populate")
       \/ Matching(r) = {} /\ Goto(r, "create") /\ UNCHANGED found
       \/ Goto(r, "failed") /\ UNCHANGED found
    /\ UNCHANGED <<rows, status, cache, queued, seen>>

\* redis.set, here and in StoreKey: an error is swallowed.
SetKey(r, e) ==
    /\ \/ cache' = [cache EXCEPT ![KeyOf(r)] = e]
       \/ UNCHANGED cache
    /\ UNCHANGED <<rows, status, found, queued, seen>>

Populate(r) ==
    /\ pc[r] = "populate"
    /\ SetKey(r, found[r])
    /\ Goto(r, "duplicate")

-----------------------------------------------------------------------------
(* submitEvent, steps 2 to 6                                               *)

\* Mutant: the key is stored before the row is created.
CreateAfterKey(r) ==
    /\ pc[r] = "create"
    /\ Goto(r, IF Checked(r) THEN "store" ELSE "enqueue")
    /\ cache' = IF Checked(r) THEN [cache EXCEPT ![KeyOf(r)] = r] ELSE cache
    /\ \/ rows' = rows \cup {r}
       \/ UNCHANGED rows
    /\ UNCHANGED <<status, found, queued, seen>>

CreateEvent(r) ==
    /\ pc[r] = "create"
    /\ \/ /\ rows' = rows \cup {r}
          /\ \/ Goto(r, IF Checked(r) THEN "store" ELSE "enqueue")
             \/ Goto(r, "failed")
       \/ UNCHANGED rows /\ Goto(r, "failed")
    /\ UNCHANGED <<status, cache, found, queued, seen>>

StoreKey(r) ==
    /\ pc[r] = "store"
    /\ SetKey(r, r)
    /\ Goto(r, "enqueue")

\* Mutant: the answer does not wait for the queue.
EnqueueNever(r) ==
    /\ pc[r] = "enqueue"
    /\ Goto(r, "created")
    /\ UNCHANGED <<rows, status, cache, found, queued, seen>>

\* processingQueue.add
Enqueue(r) ==
    /\ pc[r] = "enqueue"
    /\ \/ /\ queued' = queued \cup {r}
          /\ Goto(r, "update") \/ Goto(r, "failed")
       \/ UNCHANGED queued /\ Goto(r, "failed")
    /\ UNCHANGED <<rows, status, cache, found, seen>>

UpdateStatus(r) ==
    /\ pc[r] = "update"
    /\ \/ /\ status' = [status EXCEPT ![r] = "PROCESSING"]
          /\ Goto(r, "created") \/ Goto(r, "failed")
       \/ UNCHANGED status /\ Goto(r, "failed")
    /\ UNCHANGED <<rows, cache, found, queued, seen>>

-----------------------------------------------------------------------------
(* The environment                                                         *)

\* IDEMPOTENCY_TTL_SECONDS has passed, Redis evicts the key under
\* allkeys-lru, or removeIdempotencyKey is called.
Evict(k) ==
    /\ cache[k] # None
    /\ cache' = [cache EXCEPT ![k] = None]
    /\ UNCHANGED <<pc, rows, status, found, queued, seen>>

\* The requests in flight see their connection break.
Crash ==
    /\ \E r \in Requests : pc[r] \in InFlight
    /\ pc' = [r \in Requests |-> IF pc[r] \in InFlight THEN "failed" ELSE pc[r]]
    /\ UNCHANGED <<rows, status, cache, found, queued, seen>>

Step(r) ==
    \/ LookUp(r) \/ Load(r) \/ Find(r) \/ Populate(r)
    \/ CreateEvent(r) \/ StoreKey(r) \/ Enqueue(r) \/ UpdateStatus(r)

Next ==
    \/ \E r \in Requests : Submit(r) \/ Step(r)
    \/ \E k \in Keys : Evict(k)
    \/ Crash

Spec == Init /\ [][Next]_vars

-----------------------------------------------------------------------------
(* Properties of the code                                                  *)

\* A request that begins when its correlation already has an event creates no
\* other one, whatever Redis lost or failed to answer: Redis only saves the
\* query, the database decides, and its error ends the request.
NoLateDuplicate ==
    \A r \in Requests : Enabled /\ seen[r] => r \notin rows

\* A key in Redis names an existing event of that key: the row is created
\* before the key, and never removed.
CacheSound ==
    \A k \in Keys : cache[k] # None =>
        cache[k] \in rows /\ Corr[cache[k]] # None /\ KeyOf(cache[k]) = k

\* A request answered "duplicate" is answered with an existing event of the
\* same Redis key that another request created.
DuplicateNamesEvent ==
    \A r \in Requests : pc[r] = "duplicate" =>
        /\ found[r] \in rows \ {r}
        /\ Corr[found[r]] # None /\ KeyOf(found[r]) = KeyOf(r)

\* An event that was accepted has its job.  So has the event named by a
\* "duplicate" answer, or the request that created it is still on its way to
\* the addition, unless that request failed: only then do all repetitions of
\* the submission stand for an event that is never processed.
AnsweredIsQueued ==
    \A r \in Requests :
        /\ pc[r] = "created" => r \in queued
        /\ pc[r] = "duplicate" =>
              found[r] \in queued \/ pc[found[r]] \in {"store", "enqueue", "failed"}

\* The inductive invariant behind the properties above.
\* What the answer or the next step of a request relies on.
ProgressInv ==
    \A r \in Requests :
        /\ pc[r] \in {"idle", "lookup", "load", "find", "populate", "create",
                      "duplicate"} => r \notin rows
        /\ pc[r] \in {"store", "enqueue", "update", "created"} => r \in rows
        /\ pc[r] \in {"lookup", "load", "find", "populate", "store", "duplicate"} =>
              Checked(r)
        /\ pc[r] \in {"load", "populate", "duplicate"} =>
              /\ found[r] \in rows
              /\ Corr[found[r]] # None /\ KeyOf(found[r]) = KeyOf(r)
        /\ pc[r] \in {"update", "created"} => r \in queued

\* What a request that began late is kept from.
LateInv ==
    \A r \in Requests :
        /\ seen[r] => Corr[r] # None /\ Matching(r) \ {r} # {}
        /\ Enabled /\ seen[r] => r \notin rows /\ pc[r] # "create"
        /\ pc[r] = "idle" => ~seen[r]

IngestionInv ==
    TypeOK /\ CacheSound /\ ProgressInv /\ LateInv /\ queued \subseteq rows

-----------------------------------------------------------------------------
(* What the repository says and the code does not do (see README)          *)

\* events.controller.ts: "If you provide a correlationId that has been seen
\* before from the same source, the event will be marked as duplicate and not
\* processed again."
OneEventPerCorrelation ==
    \A r, q \in queued : Corr[r] = Corr[q] /\ Corr[r] # None => r = q
=============================================================================
