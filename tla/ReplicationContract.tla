------------------------ MODULE ReplicationContract ------------------------
(***************************************************************************)
(* What the replication queue promises the relay, whatever its workers,    *)
(* retries and restarts do: a job that was accepted stays pending until it *)
(* has taken effect on its target, and no accepted job is ever dropped.    *)
(* Delivery is at least once: a pending job may take effect again.         *)
(***************************************************************************)
EXTENDS Naturals

VARIABLES
    accepted,   \* jobs whose enqueue succeeded
    pending,    \* accepted jobs not yet retired
    applied     \* jobs that took effect on their target at least once

vars == <<accepted, pending, applied>>

Init == accepted = {} /\ pending = {} /\ applied = {}

\* New jobs become pending.
Accept == /\ accepted \subseteq accepted'
          /\ pending' = pending \cup (accepted' \ accepted)
          /\ UNCHANGED applied

Apply(j) == /\ applied' = applied \cup {j}
            /\ UNCHANGED <<accepted, pending>>

Retire(j) == /\ j \in applied
             /\ pending' = pending \ {j}
             /\ UNCHANGED <<accepted, applied>>

Next == Accept \/ \E j \in pending : Apply(j) \/ Retire(j)

Spec == Init /\ [][Next]_vars
=============================================================================
