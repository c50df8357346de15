------------------------- MODULE MCEventProcessing -------------------------
(* Small instances of EventProcessing for TLC. *)
EXTENDS EventProcessing, TLC

CONSTANTS e1, x1, x2

\* Every rule matches every event; x1 has two actions.
MCMatching == [e \in Events |-> Rules]
MCActions  == [x \in Rules |-> IF x = x1 THEN 2 ELSE 1]

\* Occurrences that do not happen in a run are allowed zero times.
Allow(b) == b @@ [k \in Occurrences |-> 0]

NoFaults == Allow(<<>>)

\* One job: a failing statement, a lost reply, a crash and a lost lock.
OneJob == Allow([refused |-> 1, unacked |-> 1, crash |-> 1, lock |-> 1])

\* Two jobs of the event: reprocessEvent is called, a statement fails, the
\* process crashes, and a rule is switched off or on.
TwoJobs == Allow([reprocess |-> 1, refused |-> 1, crash |-> 1, toggle |-> 1])
=============================================================================
