-------------------------- MODULE BoundedRetry --------------------------
(***************************************************************************)
(* What a queue promises of each action, without saying how: it is tried a *)
(* bounded number of times, gets one verdict that never changes, and a     *)
(* failure is recorded only after enough tries.  The actions are webhooks  *)
(* to call, for the action queue, or events to process, for the other.     *)
(***************************************************************************)
EXTENDS Naturals

CONSTANTS Actions, Enough, Limit

VARIABLES phase, tries, recorded

vars == <<phase, tries, recorded>>

Init ==
    /\ phase = [a \in Actions |-> "absent"]
    /\ tries = [a \in Actions |-> 0]
    /\ recorded = {}

Accept(a) ==
    /\ phase[a] = "absent"
    /\ phase' = [phase EXCEPT ![a] = "open"]
    /\ UNCHANGED <<tries, recorded>>

Try(a) ==
    /\ phase[a] = "open"
    /\ tries[a] < Limit
    /\ tries' = [tries EXCEPT ![a] = @ + 1]
    /\ UNCHANGED <<phase, recorded>>

\* The verdict is only given after a try.
Decide(a) ==
    /\ phase[a] = "open"
    /\ tries[a] > 0
    /\ \E verdict \in {"delivered", "dead"} :
          phase' = [phase EXCEPT ![a] = verdict]
    /\ UNCHANGED <<tries, recorded>>

Record(a) ==
    /\ phase[a] = "dead"
    /\ tries[a] >= Enough
    /\ a \notin recorded
    /\ recorded' = recorded \cup {a}
    /\ UNCHANGED <<phase, tries>>

Next == \E a \in Actions : Accept(a) \/ Try(a) \/ Decide(a) \/ Record(a)

SafeSpec == Init /\ [][Next]_vars
=============================================================================
