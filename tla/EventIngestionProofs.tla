----------------------- MODULE EventIngestionProofs -----------------------
(***************************************************************************)
(* Theorems about EventIngestion, for any number of requests, every        *)
(* assignment of correlations to them and every key function.              *)
(***************************************************************************)
EXTENDS EventIngestion, TLAPS

LEMMA InitInv == Init => IngestionInv
  BY IngestionAssumption
  DEF Init, IngestionInv, TypeOK, CacheSound, ProgressInv, LateInv, InFlight, Answered

\* A request that arrives late is sent to the check, not to the insert.
LEMMA SubmitInv ==
  ASSUME IngestionInv, NEW r \in Requests, Submit(r)
  PROVE  IngestionInv'
<1> USE IngestionAssumption DEF IngestionInv, Submit, Goto
<1>1. TypeOK'
  BY DEF TypeOK, InFlight, Answered
<1>2. CacheSound'
  BY DEF CacheSound, KeyOf
<1>3. ProgressInv'
  BY DEF TypeOK, ProgressInv, Checked, KeyOf
<1>4. LateInv'
  BY DEF TypeOK, ProgressInv, LateInv, Matching, Checked
<1> QED
  BY <1>1, <1>2, <1>3, <1>4
\* What Redis names is a row of the key, because the keys are sound.
LEMMA LookUpInv ==
  ASSUME IngestionInv, NEW r \in Requests, LookUp(r)
  PROVE  IngestionInv'
<1> USE IngestionAssumption DEF IngestionInv, LookUp, Goto
<1>1. TypeOK'
  BY DEF TypeOK, InFlight, Answered, ProgressInv, Checked, KeyOf
<1>2. CacheSound'
  BY DEF TypeOK, CacheSound, ProgressInv, Checked, KeyOf
<1>3. ProgressInv'
  BY DEF TypeOK, CacheSound, ProgressInv, LateInv, Matching, Checked, KeyOf
<1>4. LateInv'
  BY DEF TypeOK, ProgressInv, LateInv, Matching, Checked
<1>5. queued' \subseteq rows'
  BY DEF TypeOK, ProgressInv
<1> QED
  BY <1>1, <1>2, <1>3, <1>4, <1>5

LEMMA LoadInv ==
  ASSUME IngestionInv, NEW r \in Requests, Load(r)
  PROVE  IngestionInv'
<1> USE IngestionAssumption DEF IngestionInv, Load, Goto
<1>1. TypeOK'
  BY DEF TypeOK, InFlight, Answered, ProgressInv, Checked, KeyOf
<1>2. CacheSound'
  BY DEF TypeOK, CacheSound, ProgressInv, Checked, KeyOf
<1>3. ProgressInv'
  BY DEF TypeOK, CacheSound, ProgressInv, LateInv, Matching, Checked, KeyOf
<1>4. LateInv'
  BY DEF TypeOK, ProgressInv, LateInv, Matching, Checked
<1>5. queued' \subseteq rows'
  BY DEF TypeOK, ProgressInv
<1> QED
  BY <1>1, <1>2, <1>3, <1>4, <1>5

\* The only way to the insert: no row matches, so the request was not late.
LEMMA FindInv ==
  ASSUME IngestionInv, NEW r \in Requests, Find(r)
  PROVE  IngestionInv'
<1> USE IngestionAssumption DEF IngestionInv, Find, Goto
<1>1. TypeOK'
  BY DEF TypeOK, InFlight, Answered, Matching
<1>2. CacheSound'
  BY DEF TypeOK, CacheSound, ProgressInv, Checked, KeyOf
<1>3. ProgressInv'
  BY DEF TypeOK, CacheSound, ProgressInv, LateInv, Matching, Checked, KeyOf
<1>4. LateInv'
  BY DEF TypeOK, ProgressInv, LateInv, Matching, Checked
<1>5. queued' \subseteq rows'
  BY DEF TypeOK, ProgressInv
<1> QED
  BY <1>1, <1>2, <1>3, <1>4, <1>5

LEMMA PopulateInv ==
  ASSUME IngestionInv, NEW r \in Requests, Populate(r)
  PROVE  IngestionInv'
<1> USE IngestionAssumption DEF IngestionInv, Populate, SetKey, Goto
<1>1. TypeOK'
  BY DEF TypeOK, InFlight, Answered, ProgressInv, Checked, KeyOf
<1>2. CacheSound'
  BY DEF TypeOK, CacheSound, ProgressInv, Checked, KeyOf
<1>3. ProgressInv'
  BY DEF TypeOK, CacheSound, ProgressInv, LateInv, Matching, Checked, KeyOf
<1>4. LateInv'
  BY DEF TypeOK, ProgressInv, LateInv, Matching, Checked
<1>5. queued' \subseteq rows'
  BY DEF TypeOK, ProgressInv
<1> QED
  BY <1>1, <1>2, <1>3, <1>4, <1>5

LEMMA CreateInv ==
  ASSUME IngestionInv, NEW r \in Requests, CreateEvent(r)
  PROVE  IngestionInv'
<1> USE IngestionAssumption DEF IngestionInv, CreateEvent, Goto
<1>1. TypeOK'
  BY DEF TypeOK, InFlight, Answered, ProgressInv, Checked, KeyOf
<1>2. CacheSound'
  BY DEF TypeOK, CacheSound, ProgressInv, Checked, KeyOf
<1>3. ProgressInv'
  BY DEF TypeOK, CacheSound, ProgressInv, LateInv, Matching, Checked, KeyOf
<1>4. LateInv'
  BY DEF TypeOK, ProgressInv, LateInv, Matching, Checked
<1>5. queued' \subseteq rows'
  BY DEF TypeOK, ProgressInv
<1> QED
  BY <1>1, <1>2, <1>3, <1>4, <1>5

LEMMA StoreInv ==
  ASSUME IngestionInv, NEW r \in Requests, StoreKey(r)
  PROVE  IngestionInv'
<1> USE IngestionAssumption DEF IngestionInv, StoreKey, SetKey, Goto
<1>1. TypeOK'
  BY DEF TypeOK, InFlight, Answered, ProgressInv, Checked, KeyOf
<1>2. CacheSound'
  BY DEF TypeOK, CacheSound, ProgressInv, Checked, KeyOf
<1>3. ProgressInv'
  BY DEF TypeOK, CacheSound, ProgressInv, LateInv, Matching, Checked, KeyOf
<1>4. LateInv'
  BY DEF TypeOK, ProgressInv, LateInv, Matching, Checked
<1>5. queued' \subseteq rows'
  BY DEF TypeOK, ProgressInv
<1> QED
  BY <1>1, <1>2, <1>3, <1>4, <1>5

LEMMA EnqueueInv ==
  ASSUME IngestionInv, NEW r \in Requests, Enqueue(r)
  PROVE  IngestionInv'
<1> USE IngestionAssumption DEF IngestionInv, Enqueue, Goto
<1>1. TypeOK'
  BY DEF TypeOK, InFlight, Answered, ProgressInv, Checked, KeyOf
<1>2. CacheSound'
  BY DEF TypeOK, CacheSound, ProgressInv, Checked, KeyOf
<1>3. ProgressInv'
  BY DEF TypeOK, CacheSound, ProgressInv, LateInv, Matching, Checked, KeyOf
<1>4. LateInv'
  BY DEF TypeOK, ProgressInv, LateInv, Matching, Checked
<1>5. queued' \subseteq rows'
  BY DEF TypeOK, ProgressInv
<1> QED
  BY <1>1, <1>2, <1>3, <1>4, <1>5

LEMMA UpdateInv ==
  ASSUME IngestionInv, NEW r \in Requests, UpdateStatus(r)
  PROVE  IngestionInv'
<1> USE IngestionAssumption DEF IngestionInv, UpdateStatus, Goto
<1>1. TypeOK'
  BY DEF TypeOK, InFlight, Answered, ProgressInv, Checked, KeyOf
<1>2. CacheSound'
  BY DEF TypeOK, CacheSound, ProgressInv, Checked, KeyOf
<1>3. ProgressInv'
  BY DEF TypeOK, CacheSound, ProgressInv, LateInv, Matching, Checked, KeyOf
<1>4. LateInv'
  BY DEF TypeOK, ProgressInv, LateInv, Matching, Checked
<1>5. queued' \subseteq rows'
  BY DEF TypeOK, ProgressInv
<1> QED
  BY <1>1, <1>2, <1>3, <1>4, <1>5

LEMMA StepInv ==
  ASSUME IngestionInv, NEW r \in Requests, Step(r)
  PROVE  IngestionInv'
  BY LookUpInv, LoadInv, FindInv, PopulateInv, CreateInv, StoreInv, EnqueueInv,
     UpdateInv
  DEF Step

LEMMA EvictInv ==
  ASSUME IngestionInv, NEW k \in Keys, Evict(k)
  PROVE  IngestionInv'
<1> USE IngestionAssumption DEF IngestionInv, Evict
<1>1. TypeOK'
  BY DEF TypeOK
<1>2. CacheSound'
  BY DEF TypeOK, CacheSound, KeyOf
<1>3. ProgressInv' /\ LateInv'
  BY DEF ProgressInv, LateInv, Matching, Checked, KeyOf
<1> QED
  BY <1>1, <1>2, <1>3

LEMMA CrashInv ==
  ASSUME IngestionInv, Crash
  PROVE  IngestionInv'
<1> USE IngestionAssumption DEF IngestionInv, Crash
<1>1. TypeOK'
  BY DEF TypeOK, InFlight, Answered
<1>2. CacheSound'
  BY DEF CacheSound, KeyOf
<1>3. ProgressInv'
  BY DEF TypeOK, ProgressInv, InFlight, Checked, KeyOf
<1>4. LateInv'
  BY DEF TypeOK, LateInv, Matching, InFlight
<1> QED
  BY <1>1, <1>2, <1>3, <1>4

LEMMA StutterInv == IngestionInv /\ UNCHANGED vars => IngestionInv'
  BY DEF IngestionInv, TypeOK, CacheSound, ProgressInv, LateInv, Matching, KeyOf,
         Checked, vars

-----------------------------------------------------------------------------
(* The theorems *)

\* The strengthened invariant holds in every state of submitEvent, however many
\* requests, evictions, failures and crashes interleave.
THEOREM IngestionInductive == Spec => []IngestionInv
<1>1. IngestionInv /\ [Next]_vars => IngestionInv'
  BY SubmitInv, StepInv, EvictInv, CrashInv, StutterInv DEF Next
<1> QED
  BY <1>1, InitInv, PTL DEF Spec

\* submitEvent's variables keep their types.
THEOREM IngestionTypeCorrect == Spec => []TypeOK
<1>1. IngestionInv => TypeOK
  BY DEF IngestionInv
<1> QED
  BY <1>1, IngestionInductive, PTL

\* A submission that begins after its correlation has an event never creates a
\* second one: eviction and errors of Redis only cost a query (checkIdempotency).
THEOREM LateRequestsCreateNothing == Spec => []NoLateDuplicate
<1>1. IngestionInv => NoLateDuplicate
  BY DEF IngestionInv, LateInv, NoLateDuplicate
<1> QED
  BY <1>1, IngestionInductive, PTL

\* An idempotency key always names an existing row of that key
\* (storeIdempotencyKey runs after event.create).
THEOREM KeysAreSound == Spec => []CacheSound
<1>1. IngestionInv => CacheSound
  BY DEF IngestionInv
<1> QED
  BY <1>1, IngestionInductive, PTL

\* A duplicate answer names an event that another request created.
THEOREM DuplicatesNameEvents == Spec => []DuplicateNamesEvent
<1>1. IngestionInv => DuplicateNamesEvent
  BY DEF IngestionInv, ProgressInv, DuplicateNamesEvent
<1> QED
  BY <1>1, IngestionInductive, PTL

\* What submitEvent accepts has its job, and so has what it answers as a
\* duplicate, unless the request that created it is at work or failed.
THEOREM AnsweredAreQueued == Spec => []AnsweredIsQueued
<1>1. ASSUME IngestionInv PROVE AnsweredIsQueued
  <2> USE <1>1 DEF IngestionInv, ProgressInv
  <2>1. ASSUME NEW r \in Requests, pc[r] = "created" PROVE r \in queued
    BY <2>1
  <2>2. ASSUME NEW r \in Requests, pc[r] = "duplicate"
        PROVE  found[r] \in queued \/ pc[found[r]] \in {"store", "enqueue", "failed"}
    <3>1. found[r] \in rows /\ found[r] \in Requests
      BY <2>2 DEF TypeOK
    <3>2. PICK e \in Requests : e = found[r]
      BY <3>1
    <3>3. pc[e] \in InFlight \cup Answered \cup {"idle"}
      BY <3>2 DEF TypeOK
    <3>4. pc[e] \in {"store", "enqueue", "update", "created", "failed"}
      BY <3>1, <3>2, <3>3 DEF InFlight, Answered
    <3>5. pc[e] \in {"update", "created"} => e \in queued
      OBVIOUS
    <3> QED
      BY <3>2, <3>4, <3>5
  <2> QED
    BY <2>1, <2>2 DEF AnsweredIsQueued
<1> QED
  BY <1>1, IngestionInductive, PTL
=============================================================================
