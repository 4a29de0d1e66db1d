-------------------------- MODULE JobStoreWorkflow --------------------------
(***************************************************************************)
(* The durable queue implements the workflow.  An item is worked on by the *)
(* current attempt of its running job; an attempt is handed out by the     *)
(* claim that numbers it and accepted by the commit that ends it well.     *)
(***************************************************************************)
EXTENDS JobStoreProperties

RunningJobs(i, js) == {j \in Job : ItemOf(j) = i /\ js[j] = "running"}

\* The attempt that works on each item, by jobs.status and jobs.attempt_count.
WorkerAt(js, ac) ==
    [i \in Item |->
        IF RunningJobs(i, js) = {} THEN Free
        ELSE LET j == CHOOSE j \in RunningJobs(i, js) : TRUE IN <<j, ac[j]>>]

WorkerOf == WorkerAt(jobStatus, attemptCount)
Issued == {a \in Attempt : a[2] <= attemptCount[a[1]]}
Accepted == {a \in Attempt : attemptStatus[a] = "succeeded"}

W == INSTANCE Workflow WITH Idle <- Free, state <- itemState, worker <- WorkerOf,
                            issued <- Issued, accepted <- Accepted

\* What the workflow promises of its workers holds of the attempts the store records:
\* an item is active exactly while one issued attempt works on it whose result is not
\* in, though status, attempt and item are rows of three tables that eight
\* transactions move (storage.py:5797, 8994, 9170, 9300, 9429).
WorkExclusive == W!ExclusiveWork

\* Every step of the store is a step of the workflow or leaves it alone: leases that
\* lapse, tokens presented late, recovery folded into claims and requests of operators
\* never take an item where its one worker's result would not (storage.py:5681, 8994,
\* 9170, 9300, 9429, 9574).
ImplementsWorkflow == W!Spec
=============================================================================
