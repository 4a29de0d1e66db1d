------------------------------ MODULE Workflow ------------------------------
(***************************************************************************)
(* What agent-flow promises of its work items, whatever tables, leases and *)
(* tokens it keeps them with: the item states of storage.py and the ways   *)
(* from one to the next.                                                   *)
(*                                                                         *)
(* An item is queued for a role, worked on by one attempt at a time, and   *)
(* sent on by the result of that attempt alone.  No attempt is ever handed *)
(* out twice, and an item that is green or blocked stays so.  JobStore     *)
(* implements this: jobs, leases, resources, processes and operator        *)
(* requests are how it keeps the promise.                                  *)
(***************************************************************************)
CONSTANTS Item,      \* work items
          Attempt,   \* attempts, each handed to one worker
          Idle       \* marks an item nobody works on

Role == {"investigator", "fixer", "tester"}

\* ROLE_STATES
Queued == [r \in Role |->
    CASE r = "investigator" -> "backlog" [] r = "fixer" -> "ready_for_fix"
      [] r = "tester" -> "ready_for_test"]
Active == [r \in Role |->
    CASE r = "investigator" -> "investigating" [] r = "fixer" -> "fixing"
      [] r = "tester" -> "testing"]
\* STAGE_NEXT_STATES
Onward == [r \in Role |->
    CASE r = "investigator" -> {"ready_for_fix", "blocked"}
      [] r = "fixer"        -> {"ready_for_test", "blocked"}
      [] r = "tester"       -> {"verified_green", "ready_for_fix", "blocked"}]

QueuedStates == {Queued[r] : r \in Role}
ActiveStates == {Active[r] : r \in Role}
ItemStates == {"absent", "verified_green", "blocked"} \cup QueuedStates \cup ActiveStates

VARIABLES state,     \* the state of each item
          worker,    \* the attempt that works on it
          issued,    \* attempts handed out so far
          accepted   \* attempts whose result was accepted

vars == <<state, worker, issued, accepted>>

Init ==
    /\ state = [i \in Item |-> "absent"]
    /\ worker = [i \in Item |-> Idle]
    /\ issued = {}
    /\ accepted = {}

Busy == {i \in Item : worker[i] # Idle}

\* The states and the workers once the items of S are back in their queues.
Returned(S) ==
    [i \in Item |-> IF i \in S THEN Queued[CHOOSE r \in Role : Active[r] = state[i]]
                               ELSE state[i]]
Released(S) == [i \in Item |-> IF i \in S THEN Idle ELSE worker[i]]

Create(i, s) ==
    /\ state[i] = "absent"
    /\ s \in QueuedStates \cup {"blocked"}
    /\ state' = [state EXCEPT ![i] = s]
    /\ UNCHANGED <<worker, issued, accepted>>

\* Attempts end without a result: their items wait to be worked on again.
Return(S) ==
    /\ S \subseteq Busy
    /\ state' = Returned(S)
    /\ worker' = Released(S)
    /\ UNCHANGED <<issued, accepted>>

\* Attempt a takes up item i, at once with the return of others.
Take(i, a, S) ==
    /\ S \subseteq Busy
    /\ a \in Attempt \ issued
    /\ Released(S)[i] = Idle
    /\ \E r \in Role :
          /\ Returned(S)[i] = Queued[r]
          /\ state' = [Returned(S) EXCEPT ![i] = Active[r]]
    /\ worker' = [Released(S) EXCEPT ![i] = a]
    /\ issued' = issued \cup {a}
    /\ UNCHANGED accepted

\* The result of the attempt that works on item i sends it on.
Advance(i, s) ==
    /\ i \in Busy
    /\ \E r \in Role : state[i] = Active[r] /\ s \in Onward[r]
    /\ state' = [state EXCEPT ![i] = s]
    /\ worker' = [worker EXCEPT ![i] = Idle]
    /\ accepted' = accepted \cup {worker[i]}
    /\ UNCHANGED issued

\* The attempt that works on item i fails for the last time.
GiveUp(i) ==
    /\ i \in Busy
    /\ state' = [state EXCEPT ![i] = "blocked"]
    /\ worker' = [worker EXCEPT ![i] = Idle]
    /\ UNCHANGED <<issued, accepted>>

Next ==
    \/ \E i \in Item : GiveUp(i) \/ (\E s \in ItemStates : Create(i, s) \/ Advance(i, s))
    \/ \E S \in SUBSET Item :
          \/ Return(S)
          \/ \E i \in Item, a \in Attempt : Take(i, a, S)

Spec == Init /\ [][Next]_vars

-----------------------------------------------------------------------------
TypeOK ==
    /\ state \in [Item -> ItemStates]
    /\ worker \in [Item -> Attempt \cup {Idle}]
    /\ issued \subseteq Attempt
    /\ accepted \subseteq issued

\* An item is in an active state exactly while an attempt works on it; no attempt works
\* on two items, and none goes on working once its result is in: the exclusive claims
\* and fenced results of storage.py:5681 and 8994.
ExclusiveWork ==
    /\ \A i \in Item : i \in Busy <=> state[i] \in ActiveStates
    /\ \A i \in Busy : worker[i] \in issued \ accepted
    /\ \A i, k \in Busy : worker[i] = worker[k] => i = k
=============================================================================
