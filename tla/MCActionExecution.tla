------------------------ MODULE MCActionExecution ------------------------
(* Small instances of ActionExecution for TLC. *)
EXTENDS ActionExecution, TLC

CONSTANTS a1, a2

\* Occurrences that do not happen in a run are allowed zero times.
Allow(b) == b @@ [k \in Occurrences |-> 0]

EveryFault == [refused |-> 1, unacked |-> 1, crash |-> 1, lock |-> 1, retry |-> 1]
\* With any two of these together a job may stall twice, once more than BullMQ
\* tolerates, and a run without its lock may hold the only worker slot.
Outages    == Allow([unacked |-> 1, crash |-> 1, lock |-> 2])
OneRetry   == Allow([retry |-> 1])
=============================================================================
