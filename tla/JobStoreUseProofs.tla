-------------------------- MODULE JobStoreUseProofs --------------------------
(***************************************************************************)
(* Theorems about what the running jobs of the durable queue take up: the  *)
(* items they work on, their resource leases, their places under the       *)
(* concurrency limits and their failures, for any items, resources, limits *)
(* and bounds.                                                             *)
(*                                                                         *)
(* The items: the queue implements the workflow, step by step, under the   *)
(* mapping of JobStoreWorkflow.                                            *)
(*                                                                         *)
(* The rest: every step but a claim ends the attempts of some running      *)
(* jobs, of none in most cases, and frees exactly what those held (Gives). *)
(* A claim is such a step, its recovery, followed by the taking of the     *)
(* lowest free slot of each required resource (HeldAfterClaim).            *)
(***************************************************************************)
EXTENDS JobStoreWorkflow, JobStoreProofs, FiniteSetTheorems

-----------------------------------------------------------------------------
(* The mapping. *)

\* The workflow and the queue have the same stages.
LEMMA SameStages ==
    /\ W!Role = Role
    /\ W!Queued = QueuedState
    /\ W!Active = ActiveState
    /\ W!Onward = NextStates
    /\ W!ItemStates = ItemStates
  BY DEF W!Role, Role, W!Queued, QueuedState, W!Active, ActiveState, W!Onward, NextStates,
         W!ItemStates, W!QueuedStates, W!ActiveStates, ItemStates

\* An item is idle unless a job runs for it, and then that job's attempt works on it.
LEMMA WorkerFacts ==
    ASSUME NEW js, NEW ac,
           \A j, k \in Job : js[j] = "running" /\ js[k] = "running" /\ j[1] = k[1] => j = k
    PROVE  /\ WorkerAt(js, ac) = [i \in Item |-> WorkerAt(js, ac)[i]]
           /\ \A i \in Item : (\A j \in Job : j[1] = i => js[j] # "running")
                                  => WorkerAt(js, ac)[i] = Free
           /\ \A j \in Job : js[j] = "running" => WorkerAt(js, ac)[j[1]] = <<j, ac[j]>>
<1>1. WorkerAt(js, ac) = [i \in Item |-> WorkerAt(js, ac)[i]]
  BY DEF WorkerAt
<1>2. ASSUME NEW i \in Item, \A j \in Job : j[1] = i => js[j] # "running"
      PROVE  WorkerAt(js, ac)[i] = Free
  BY <1>2 DEF WorkerAt, RunningJobs, ItemOf
<1>3. ASSUME NEW j \in Job, js[j] = "running"
      PROVE  WorkerAt(js, ac)[j[1]] = <<j, ac[j]>>
  <2>1. RunningJobs(j[1], js) = {j}
    BY <1>3 DEF RunningJobs, ItemOf
  <2>2. (CHOOSE k \in RunningJobs(j[1], js) : TRUE) = j
    BY <2>1
  <2> QED
    BY <2>1, <2>2, SameRow DEF WorkerAt
<1> QED
  BY <1>1, <1>2, <1>3

\* The workers depend on nothing but which jobs run, and under which attempt.
LEMMA SameWorkers ==
    ASSUME NEW js, NEW ac, NEW js1, NEW ac1,
           \A j \in Job : js1[j] = "running" <=> js[j] = "running",
           \A j \in Job : js[j] = "running" => ac1[j] = ac[j],
           \A j, k \in Job : js[j] = "running" /\ js[k] = "running" /\ j[1] = k[1] => j = k
    PROVE  WorkerAt(js1, ac1) = WorkerAt(js, ac)
<1>1. \A i \in Item : RunningJobs(i, js1) = RunningJobs(i, js)
  BY DEF RunningJobs
<1>2. ASSUME NEW i \in Item
      PROVE  WorkerAt(js1, ac1)[i] = WorkerAt(js, ac)[i]
  <2>1. CASE \A j \in Job : j[1] = i => js[j] # "running"
    BY <2>1, WorkerFacts
  <2>2. CASE \E j \in Job : j[1] = i /\ js[j] = "running"
    <3>1. PICK j \in Job : j[1] = i /\ js[j] = "running"
      BY <2>2
    <3> QED
      BY <3>1, WorkerFacts
  <2> QED
    BY <2>1, <2>2
<1> QED
  BY <1>2, WorkerFacts DEF WorkerAt

\* Returning the items of some running jobs is what the queue writes for those jobs.
LEMMA ReturnMaps ==
    ASSUME TypeOK, StageInv, NEW J \in SUBSET Job, \A j \in J : jobStatus[j] = "running",
           NEW x \in {"pending", "failed", "completed"}
    PROVE  LET S == {j[1] : j \in J}
           IN  /\ S \subseteq W!Busy
               /\ W!Returned(S) = ItemsRequeued(J)
               /\ W!Released(S) = WorkerAt(JobsSet(J, x), attemptCount)
<1> DEFINE S == {j[1] : j \in J}
<1>1. \A j, k \in Job :
         jobStatus[j] = "running" /\ jobStatus[k] = "running" /\ j[1] = k[1] => j = k
  BY DEF StageInv, Agree
<1>2. ASSUME NEW i \in S
      PROVE  /\ i \in W!Busy
             /\ W!Returned(S)[i] = ItemsRequeued(J)[i]
  <2>1. PICK j \in J : j[1] = i
    OBVIOUS
  <2>2. j \in Job /\ i \in Item /\ role[j] \in Role /\ jobStatus[j] = "running"
    BY <2>1, SameRow DEF TypeOK
  <2>3. WorkerOf[i] = <<j, attemptCount[j]>> /\ attemptCount[j] \in AttemptNo
    <3>1. attemptCount[j] \in 0..MaxClaims /\ attemptCount[j] > 0
      BY <2>2 DEF TypeOK, StageInv, Agree
    <3> QED
      BY <1>1, <2>1, <2>2, <3>1, WorkerFacts, BoundAssumption DEF WorkerOf, AttemptNo
  <2>4. i \in W!Busy
    BY <2>2, <2>3, MarkAssumption DEF W!Busy, Attempt
  <2>5. itemState[i] = ActiveState[role[j]]
    BY <2>1, <2>2 DEF StageInv, Agree
  <2>6. (CHOOSE r \in Role : ActiveState[r] = itemState[i]) = role[j]
    BY <2>2, <2>5, ActiveApart
  <2>7. W!Returned(S)[i] = QueuedState[role[j]]
    BY <2>2, <2>6, SameStages DEF W!Returned
  <2>8. (CHOOSE k \in J : ItemOf(k) = i) = j
    BY <1>1, <2>1, <2>2 DEF ItemOf
  <2>9. ItemsRequeued(J)[i] = QueuedState[role[j]]
    BY <2>1, <2>2, <2>8 DEF ItemsRequeued, ItemOf
  <2> QED
    BY <2>4, <2>7, <2>9
<1>3. ASSUME NEW i \in Item, i \notin S
      PROVE  W!Returned(S)[i] = ItemsRequeued(J)[i]
  BY <1>3 DEF W!Returned, ItemsRequeued, ItemOf
<1>4. W!Returned(S) = ItemsRequeued(J)
  BY <1>2, <1>3 DEF W!Returned, ItemsRequeued
<1> DEFINE js == JobsSet(J, x)
<1>5. \A j \in Job : js[j] = "running" <=> j \notin J /\ jobStatus[j] = "running"
  BY DEF JobsSet
<1> HIDE DEF js
<1>6. ASSUME NEW i \in Item
      PROVE  W!Released(S)[i] = WorkerAt(js, attemptCount)[i]
  <2>1. CASE i \in S
    <3>1. PICK j \in J : j[1] = i
      BY <2>1
    <3>2. \A k \in Job : k[1] = i => js[k] # "running"
      BY <1>1, <1>5, <3>1
    <3> QED
      BY <1>1, <1>5, <2>1, <3>2, WorkerFacts DEF W!Released
  <2>2. CASE i \notin S
    <3>1. W!Released(S)[i] = WorkerAt(jobStatus, attemptCount)[i]
      BY <2>2 DEF W!Released, WorkerOf
    <3>2. CASE \E j \in Job : j[1] = i /\ jobStatus[j] = "running"
      <4>1. PICK j \in Job : j[1] = i /\ jobStatus[j] = "running"
        BY <3>2
      <4>2. js[j] = "running"
        BY <1>5, <2>2, <4>1
      <4> QED
        BY <1>1, <1>5, <3>1, <4>1, <4>2, WorkerFacts
    <3>3. CASE \A j \in Job : j[1] = i => jobStatus[j] # "running"
      BY <1>1, <1>5, <3>1, <3>3, WorkerFacts
    <3> QED
      BY <3>2, <3>3
  <2> QED
    BY <2>1, <2>2
<1>7. W!Released(S) = WorkerAt(js, attemptCount)
  BY <1>6 DEF W!Released, WorkerAt
<1> QED
  BY <1>2, <1>4, <1>7 DEF js

-----------------------------------------------------------------------------
(* The steps. *)

\* The empty queue is the empty workflow.
LEMMA InitMaps == Init => W!Init
<1> SUFFICES ASSUME Init PROVE W!Init
  OBVIOUS
<1>1. itemState = [i \in Item |-> "absent"]
  BY DEF Init
<1>2. WorkerOf = [i \in Item |-> Free]
  BY DEF Init, WorkerOf, WorkerAt, RunningJobs
<1>3. Issued = {}
  BY AttemptPair, BoundAssumption DEF Init, Issued, AttemptNo
<1>4. Accepted = {}
  BY DEF Init, Accepted
<1> QED
  BY <1>1, <1>2, <1>3, <1>4 DEF W!Init

\* A step that moves no item, starts or ends no attempt and accepts no result leaves the
\* workflow alone; it may add jobs that do not run.
LEMMA StutterMaps ==
    ASSUME TypeOK, StageInv, itemState' = itemState, attemptCount' = attemptCount,
           attemptStatus' = attemptStatus,
           \A j \in Job : jobStatus'[j] = "running" <=> jobStatus[j] = "running"
    PROVE  UNCHANGED W!vars
<1>1. \A j, k \in Job :
         jobStatus[j] = "running" /\ jobStatus[k] = "running" /\ j[1] = k[1] => j = k
  BY DEF StageInv, Agree
<1>2. WorkerAt(jobStatus', attemptCount') = WorkerAt(jobStatus, attemptCount)
  BY <1>1, SameWorkers
<1>3. WorkerOf' = WorkerOf
  BY <1>2 DEF WorkerOf, WorkerAt, RunningJobs
<1>4. Issued' = Issued /\ Accepted' = Accepted
  BY DEF Issued, Accepted
<1> QED
  BY <1>3, <1>4 DEF W!vars

\* Ending running attempts in any way but a success accepts nothing.
LEMMA NothingAccepted ==
    ASSUME TypeOK, StageInv, NEW J \in SUBSET Job, NEW ended \in {"failed", "expired", "interrupted"}
    PROVE  {a \in Attempt : AttemptsEnded(J, ended)[a] = "succeeded"} = Accepted
  BY DEF AttemptsEnded, Accepted

\* A step that returns running jobs to their queues returns their items.
LEMMA ReturnStep ==
    ASSUME TypeOK, StageInv, NEW J \in SUBSET Job, \A j \in J : jobStatus[j] = "running",
           NEW ended \in {"failed", "expired", "interrupted"},
           itemState' = ItemsRequeued(J), jobStatus' = JobsSet(J, "pending"),
           attemptStatus' = AttemptsEnded(J, ended), attemptCount' = attemptCount
    PROVE  W!Next
<1> DEFINE S == {j[1] : j \in J}
<1>1. /\ S \subseteq W!Busy
      /\ W!Returned(S) = ItemsRequeued(J)
      /\ W!Released(S) = WorkerAt(JobsSet(J, "pending"), attemptCount)
  BY ReturnMaps
<1>2. S \in SUBSET Item
  BY SameRow
<1>3. WorkerOf' = WorkerAt(jobStatus', attemptCount')
  BY DEF WorkerOf, WorkerAt, RunningJobs
<1>4. Issued' = Issued
  BY DEF Issued
<1>5. Accepted' = Accepted
  BY NothingAccepted DEF Accepted
<1>6. W!Return(S)
  BY <1>1, <1>3, <1>4, <1>5 DEF W!Return
<1> QED
  BY <1>2, <1>6 DEF W!Next

\* A new item is created, with or without a job.
LEMMA CreateStep ==
    ASSUME TypeOK, StageInv, NEW i \in Item, NEW s \in CreatableStates,
           itemState[i] = "absent", itemState' = [itemState EXCEPT ![i] = s],
           attemptCount' = attemptCount, attemptStatus' = attemptStatus,
           \A j \in Job : jobStatus'[j] = "running" <=> jobStatus[j] = "running"
    PROVE  W!Next
<1>1. \A j, k \in Job :
         jobStatus[j] = "running" /\ jobStatus[k] = "running" /\ j[1] = k[1] => j = k
  BY DEF StageInv, Agree
<1>2. WorkerAt(jobStatus', attemptCount') = WorkerAt(jobStatus, attemptCount)
  BY <1>1, SameWorkers
<1>3. WorkerOf' = WorkerOf /\ Issued' = Issued /\ Accepted' = Accepted
  BY <1>2 DEF WorkerOf, WorkerAt, RunningJobs, Issued, Accepted
<1>4. s \in W!QueuedStates \cup {"blocked"} /\ s \in W!ItemStates
  BY SameStages DEF W!QueuedStates, CreatableStates, QueuedState, Role, ItemStates
<1>5. W!Create(i, s)
  BY <1>3, <1>4 DEF W!Create
<1> QED
  BY <1>4, <1>5 DEF W!Next

\* What a claim writes: the recovered jobs go back, and job j is taken up by an attempt
\* that was never handed out.
LEMMA TakeStep ==
    ASSUME TypeOK, StageInv, NEW j \in Job, ClaimJob(j)
    PROVE  W!Next
<1> DEFINE i == j[1]
           a == <<j, attemptCount[j] + 1>>
           S == {k[1] : k \in Recovered}
           js == JobsSet(Recovered, "pending")
           is == ItemsRequeued(Recovered)
<1>1. /\ Recovered \in SUBSET Job
      /\ \A k \in Recovered : jobStatus[k] = "running"
  BY RecoveredType DEF Recovered, StageInv
<1>2. /\ S \subseteq W!Busy
      /\ W!Returned(S) = is
      /\ W!Released(S) = WorkerAt(js, attemptCount)
  BY <1>1, ReturnMaps
<1>3. /\ attemptCount[j] < MaxClaims /\ attemptCount[j] \in Nat
      /\ js[j] = "pending" /\ is[i] = QueuedState[role[j]]
      /\ itemState' = [is EXCEPT ![i] = ActiveState[role[j]]]
      /\ jobStatus' = [js EXCEPT ![j] = "running"]
      /\ attemptCount' = [attemptCount EXCEPT ![j] = @ + 1]
      /\ attemptStatus' = [AttemptsEnded(Recovered, "expired") EXCEPT ![a] = "running"]
  BY BoundAssumption DEF ClaimJob, Claimable, ItemOf, TypeOK
<1>4. role[j] \in Role /\ i \in Item
  BY SameRow DEF TypeOK
<1>5. a \in Attempt /\ a[1] = j /\ a[2] = attemptCount[j] + 1
  BY <1>3, BoundAssumption DEF Attempt, AttemptNo
<1>6. \A k \in Job : attemptCount[k] \in Nat
  BY BoundAssumption DEF TypeOK
<1>7. Agree(is, jobCount, js, role, attemptCount, AttemptsEnded(Recovered, "expired"))
  BY <1>1, RecoveryAgrees
<1>8. /\ \A k \in Job : js[k] = "running" => k[1] # i
      /\ \A k, l \in Job : js[k] = "running" /\ js[l] = "running" /\ k[1] = l[1] => k = l
  <2>1. \A k \in Job : role[k] \in Role
    BY DEF TypeOK
  <2> HIDE DEF is, js
  <2> QED
    BY <1>3, <1>4, <1>7, <2>1, ActiveApart DEF Agree
<1>9. \A k \in Job : jobStatus'[k] = IF k = j THEN "running" ELSE js[k]
  BY <1>3 DEF JobsSet
<1>10. \A k \in Job : attemptCount'[k] = IF k = j THEN attemptCount[j] + 1 ELSE attemptCount[k]
  BY <1>3 DEF TypeOK
<1>11. a \notin Issued
  BY <1>3, <1>5, BoundAssumption DEF Issued
<1>12. Issued' = Issued \cup {a}
  <2>1. Issued' = {b \in Attempt : b[2] <= attemptCount'[b[1]]}
    BY DEF Issued
  <2>2. ASSUME NEW b \in Attempt
        PROVE  b[2] <= attemptCount'[b[1]] <=> b[2] <= attemptCount[b[1]] \/ b = a
    <3>1. b[1] \in Job /\ b[2] \in Nat /\ attemptCount[b[1]] \in Nat
      BY <1>6, AttemptPair, BoundAssumption DEF AttemptNo
    <3>2. CASE b[1] = j
      <4>1. b = a <=> b[2] = attemptCount[j] + 1
        BY <1>5, <3>2, SameRow
      <4> QED
        BY <1>10, <3>1, <3>2, <4>1
    <3>3. CASE b[1] # j
      BY <1>5, <1>10, <3>1, <3>3
    <3> QED
      BY <3>2, <3>3
  <2> QED
    BY <1>5, <2>1, <2>2 DEF Issued
<1>13. Accepted' = Accepted
  <2> DEFINE as == AttemptsEnded(Recovered, "expired")
  <2>1. {b \in Attempt : as[b] = "succeeded"} = Accepted
    BY <1>1, NothingAccepted
  <2>2. as \in [Attempt -> AttemptStates]
    BY <1>1, EndTypes DEF JobStates, AttemptStates
  <2>3. attemptStatus[a] # "succeeded" /\ as[a] # "succeeded"
    <3>1. as[a] = "none"
      BY <1>3, <1>5, <1>7 DEF Agree
    <3> QED
      BY <1>5, <2>1, <3>1 DEF Accepted
  <2> HIDE DEF as
  <2>4. \A b \in Attempt : attemptStatus'[b] = "succeeded" <=> as[b] = "succeeded"
    BY <1>3, <1>5, <2>2, <2>3 DEF as
  <2> QED
    BY <2>1, <2>4 DEF Accepted
<1> HIDE DEF js, is, a, S
<1>14. WorkerOf' = [W!Released(S) EXCEPT ![i] = a]
  <2>1. WorkerOf' = WorkerAt(jobStatus', attemptCount')
    BY DEF WorkerOf, WorkerAt, RunningJobs
  <2>2. ASSUME NEW k, NEW l, k \in Job, l \in Job, jobStatus'[k] = "running",
               jobStatus'[l] = "running", k[1] = l[1]
        PROVE  k = l
    BY <1>8, <1>9, <2>2
  <2>3. ASSUME NEW n \in Item
        PROVE  WorkerAt(jobStatus', attemptCount')[n] =
                   IF n = i THEN a ELSE WorkerAt(js, attemptCount)[n]
    <3>1. CASE n = i
      <4>1. jobStatus'[j] = "running" /\ attemptCount'[j] = attemptCount[j] + 1
        BY <1>9, <1>10
      <4> QED
        BY <2>2, <3>1, <4>1, WorkerFacts DEF a
    <3>2. CASE n # i /\ \E k \in Job : k[1] = n /\ js[k] = "running"
      <4>1. PICK k \in Job : k[1] = n /\ js[k] = "running"
        BY <3>2
      <4>2. jobStatus'[k] = "running" /\ attemptCount'[k] = attemptCount[k]
        BY <1>9, <1>10, <3>2, <4>1
      <4>3. WorkerAt(jobStatus', attemptCount')[n] = <<k, attemptCount[k]>>
        BY <2>2, <4>1, <4>2, WorkerFacts
      <4>4. WorkerAt(js, attemptCount)[n] = <<k, attemptCount[k]>>
        BY <1>8, <4>1, WorkerFacts
      <4> QED
        BY <3>2, <4>3, <4>4
    <3>3. CASE n # i /\ \A k \in Job : k[1] = n => js[k] # "running"
      <4>1. \A k \in Job : k[1] = n => jobStatus'[k] # "running"
        BY <1>9, <3>3
      <4>2. WorkerAt(jobStatus', attemptCount')[n] = Free
        BY <2>2, <4>1, WorkerFacts
      <4>3. WorkerAt(js, attemptCount)[n] = Free
        BY <1>8, <3>3, WorkerFacts
      <4> QED
        BY <3>3, <4>2, <4>3
    <3> QED
      BY <3>1, <3>2, <3>3
  <2> QED
    BY <1>2, <1>4, <2>1, <2>3 DEF WorkerAt
<1>15. W!Released(S)[i] = Free
  BY <1>2, <1>4, <1>8, WorkerFacts
<1>16. W!Take(i, a, S)
  BY <1>2, <1>3, <1>4, <1>5, <1>11, <1>12, <1>13, <1>14, <1>15, SameStages
     DEF W!Take
<1>17. S \in SUBSET Item
  BY <1>1, SameRow DEF S
<1> QED
  BY <1>4, <1>5, <1>16, <1>17 DEF W!Next

\* The end of one running attempt, whatever comes of it, as the workflow sees it.
LEMMA EndMaps ==
    ASSUME TypeOK, StageInv, NEW a \in Attempt, LiveLease(a),
           NEW x \in {"pending", "failed", "completed"}
    PROVE  LET i == ItemOf(a[1])
           IN  /\ i \in Item /\ i \in W!Busy
               /\ WorkerOf[i] = a
               /\ role[a[1]] \in Role /\ itemState[i] = ActiveState[role[a[1]]]
               /\ WorkerAt(JobsSet({a[1]}, x), attemptCount) = [WorkerOf EXCEPT ![i] = Free]
               /\ ItemsRequeued({a[1]}) = [itemState EXCEPT ![i] = QueuedState[role[a[1]]]]
<1> DEFINE j == a[1]
           i == ItemOf(a[1])
<1>1. j \in Job /\ i = j[1] /\ i \in Item /\ role[j] \in Role /\ jobStatus[j] = "running"
  BY AttemptPair, JobItem DEF ItemOf, LiveLease, TypeOK
<1>2. a = <<j, attemptCount[j]>>
  BY AttemptPair DEF LiveLease, Current
<1>3. \A k, l \in Job :
         jobStatus[k] = "running" /\ jobStatus[l] = "running" /\ k[1] = l[1] => k = l
  BY DEF StageInv, Agree
<1>4. WorkerOf[i] = a
  BY <1>1, <1>2, <1>3, WorkerFacts DEF WorkerOf
<1>5. i \in W!Busy
  BY <1>1, <1>4, MarkAssumption DEF W!Busy
<1>6. itemState[i] = ActiveState[role[j]]
  BY <1>1 DEF StageInv, Agree
<1>7. {j} \in SUBSET Job /\ \A k \in {j} : jobStatus[k] = "running"
  BY <1>1
<1>8. W!Released({k[1] : k \in {j}}) = WorkerAt(JobsSet({j}, x), attemptCount)
  BY <1>7, ReturnMaps
<1>9. {k[1] : k \in {j}} = {i}
  BY <1>1
<1>10. W!Released({i}) = [WorkerOf EXCEPT ![i] = Free]
  <2>1. WorkerOf = [n \in Item |-> WorkerOf[n]]
    BY <1>3, WorkerFacts DEF WorkerOf
  <2> QED
    BY <1>1, <2>1 DEF W!Released
<1>11. ItemsRequeued({j}) = [itemState EXCEPT ![i] = QueuedState[role[j]]]
  BY <1>1 DEF ItemsRequeued, ItemOf, TypeOK
<1> QED
  BY <1>1, <1>4, <1>5, <1>6, <1>8, <1>9, <1>10, <1>11

\* A committed result sends the item of its attempt on; the successor does not run yet.
LEMMA AdvanceStep ==
    ASSUME TypeOK, StageInv, NEW a \in Attempt, NEW next \in ItemStates,
           NEW resources \in SUBSET Resource, CommitStageResult(a, next, resources)
    PROVE  W!Next
<1> DEFINE i == ItemOf(a[1])
           js == JobsSet({a[1]}, "completed")
<1>1. /\ LiveLease(a) /\ next \in NextStates[role[a[1]]]
      /\ itemState' = [itemState EXCEPT ![i] = next]
      /\ attemptStatus' = AttemptsEnded({a[1]}, "succeeded")
      /\ attemptCount' = attemptCount
  BY DEF CommitStageResult, MayCommit
<1>2. /\ i \in Item /\ i \in W!Busy
      /\ WorkerOf[i] = a
      /\ role[a[1]] \in Role /\ itemState[i] = ActiveState[role[a[1]]]
      /\ WorkerAt(js, attemptCount) = [WorkerOf EXCEPT ![i] = Free]
  BY <1>1, EndMaps
<1>3. a[1] \in Job /\ a = Current(a[1]) /\ attemptStatus[a] = "running"
  <2>1. MayCommit(a)
    BY DEF CommitStageResult
  <2>2. attemptStatus[a] = "running"
    BY <2>1 DEF MayCommit
  <2>3. attemptCount[a[1]] = a[2]
    BY <1>1 DEF LiveLease
  <2> QED
    BY <2>2, <2>3, AttemptPair DEF Current
<1>4. Accepted' = Accepted \cup {a}
  <2>1. \A b \in Attempt : b[1] \in {a[1]} /\ b = Current(b[1]) <=> b = a
    BY <1>3
  <2>2. \A b \in Attempt : attemptStatus'[b] = IF b = a THEN "succeeded" ELSE attemptStatus[b]
    BY <1>1, <1>3, <2>1 DEF AttemptsEnded
  <2> QED
    BY <2>2 DEF Accepted
<1>5. Issued' = Issued
  BY <1>1 DEF Issued
<1>6. \A k \in Job : jobStatus'[k] = "running" <=> js[k] = "running"
  <2>1. CASE jobStatus' = js
    BY <2>1
  <2>2. ASSUME NEW r, NEW st, jobCount[i] < MaxJobs, AddJob(i, r, st, resources, js)
        PROVE  \A k \in Job : jobStatus'[k] = "running" <=> js[k] = "running"
    <3>1. jobCount[i] \in Nat /\ NextJob(i) \in Job /\ NextJob(i)[2] > jobCount[NextJob(i)[1]]
      BY <1>2, <2>2, BoundAssumption DEF NextJob, Job, TypeOK
    <3>2. jobStatus[NextJob(i)] = "absent"
      BY <3>1 DEF StageInv, Agree
    <3>3. js[NextJob(i)] # "running"
      BY <3>1, <3>2 DEF JobsSet
    <3>4. jobStatus' = [js EXCEPT ![NextJob(i)] = "pending"]
      BY <2>2 DEF AddJob
    <3>5. \A k \in Job : k # NextJob(i) => jobStatus'[k] = js[k]
      BY <3>1, <3>4 DEF JobsSet
    <3>6. jobStatus'[NextJob(i)] = "pending"
      BY <3>1, <3>4 DEF JobsSet
    <3> HIDE DEF js
    <3> QED
      BY <3>3, <3>5, <3>6
  <2>3. jobStatus' = js \/ \E r \in Successor(next), st \in Stage :
           jobCount[i] < MaxJobs /\ AddJob(i, r, st, resources, js)
    BY DEF CommitStageResult
  <2> HIDE DEF js, i
  <2> QED
    BY <2>1, <2>2, <2>3
<1> HIDE DEF js
<1>7. WorkerAt(jobStatus', attemptCount') = WorkerAt(js, attemptCount)
  <2>1. \A k, l \in Job : js[k] = "running" /\ js[l] = "running" /\ k[1] = l[1] => k = l
    BY DEF js, JobsSet, StageInv, Agree
  <2> QED
    BY <1>1, <1>6, <2>1, SameWorkers
<1>8. WorkerOf' = [WorkerOf EXCEPT ![i] = Free]
  BY <1>2, <1>7 DEF WorkerOf, WorkerAt, RunningJobs
<1>9. W!Advance(i, next)
  BY <1>1, <1>2, <1>4, <1>5, <1>8, SameStages DEF W!Advance
<1> QED
  BY <1>2, <1>9, SameStages DEF W!Next

\* A failure returns the item to its queue or blocks it for good.
LEMMA FailStep ==
    ASSUME TypeOK, StageInv, NEW a \in Attempt, NEW requeue \in BOOLEAN, FailJob(a, requeue)
    PROVE  W!Next
<1> DEFINE i == ItemOf(a[1])
           again == requeue /\ FailuresAllow(a)
<1>1. /\ LiveLease(a)
      /\ itemState' = [itemState EXCEPT ![i] = AfterFailure(a[1], again)]
      /\ EndAttempt(a, "failed", IF again THEN "pending" ELSE "failed")
  BY DEF FailJob, MayEnd
<1>2. {a[1]} \in SUBSET Job /\ \A j \in {a[1]} : jobStatus[j] = "running"
  BY <1>1, AttemptPair DEF LiveLease
<1>3. /\ i \in Item /\ i \in W!Busy
      /\ WorkerAt(JobsSet({a[1]}, "failed"), attemptCount) = [WorkerOf EXCEPT ![i] = Free]
      /\ ItemsRequeued({a[1]}) = [itemState EXCEPT ![i] = QueuedState[role[a[1]]]]
  BY <1>1, EndMaps
<1>4. /\ attemptStatus' = AttemptsEnded({a[1]}, "failed")
      /\ attemptCount' = attemptCount
  BY <1>1 DEF EndAttempt
<1>5. CASE again
  <2>1. /\ itemState' = ItemsRequeued({a[1]})
        /\ jobStatus' = JobsSet({a[1]}, "pending")
    BY <1>1, <1>3, <1>5 DEF EndAttempt, AfterFailure
  <2> QED
    BY <1>2, <1>4, <2>1, ReturnStep
<1>6. CASE ~again
  <2>1. /\ itemState' = [itemState EXCEPT ![i] = "blocked"]
        /\ jobStatus' = JobsSet({a[1]}, "failed")
    BY <1>1, <1>6 DEF EndAttempt, AfterFailure
  <2>2. WorkerOf' = [WorkerOf EXCEPT ![i] = Free]
    BY <1>3, <1>4, <2>1 DEF WorkerOf, WorkerAt, RunningJobs
  <2>3. Issued' = Issued /\ Accepted' = Accepted
    BY <1>2, <1>4, NothingAccepted DEF Issued, Accepted
  <2>4. W!GiveUp(i)
    BY <1>3, <2>1, <2>2, <2>3 DEF W!GiveUp
  <2> QED
    BY <1>3, <2>4 DEF W!Next
<1> QED
  BY <1>5, <1>6

\* Every step of the queue is a step of the workflow or leaves it alone.
LEMMA NextMaps == TypeOK /\ StageInv /\ [Next]_vars => [W!Next]_(W!vars)
<1> SUFFICES ASSUME TypeOK, StageInv, [Next]_vars PROVE W!Next \/ UNCHANGED W!vars
  OBVIOUS
<1> USE DEF itemVars, jobVars, leaseVars, processVars, controlVars
<1>s. ASSUME UNCHANGED <<itemState, jobStatus, attemptCount, attemptStatus>>
      PROVE  UNCHANGED W!vars
  BY <1>s, StutterMaps
<1>n. ASSUME NEW i \in Item, NEW r \in Role, NEW st, NEW resources, jobCount[i] < MaxJobs,
             AddJob(i, r, st, resources, jobStatus)
      PROVE  \A j \in Job : jobStatus'[j] = "running" <=> jobStatus[j] = "running"
  <2>1. jobCount[i] \in Nat /\ NextJob(i) \in Job /\ NextJob(i)[2] > jobCount[NextJob(i)[1]]
    BY <1>n, BoundAssumption DEF NextJob, Job, TypeOK
  <2>2. jobStatus[NextJob(i)] = "absent"
    BY <2>1 DEF StageInv, Agree
  <2> QED
    BY <1>n, <2>1, <2>2 DEF AddJob, TypeOK
<1>1. ASSUME NEW i \in Item, NEW state \in CreatableStates, CreateWorkItem(i, state)
      PROVE  W!Next
  BY <1>1, CreateStep DEF CreateWorkItem
<1>2. ASSUME NEW i \in Item, NEW r \in Role, NEW st \in Stage,
             NEW resources \in SUBSET Resource, CreateWorkItemWithJob(i, r, st, resources)
      PROVE  W!Next
  <2>1. QueuedState[r] \in CreatableStates
    BY DEF Role, QueuedState, CreatableStates
  <2> QED
    BY <1>2, <1>n, <2>1, CreateStep DEF CreateWorkItemWithJob, Enqueueable
<1>3. ASSUME NEW i \in Item, NEW r \in Role, NEW st \in Stage,
             NEW resources \in SUBSET Resource, EnqueueJob(i, r, st, resources)
      PROVE  UNCHANGED W!vars
  BY <1>3, <1>n, StutterMaps DEF EnqueueJob, Enqueueable
<1>r. Recovered \in SUBSET Job /\ \A j \in Recovered : jobStatus[j] = "running"
  BY RecoveredType DEF Recovered, StageInv
<1>4. ASSUME RecoverExpiredLeases PROVE W!Next
  BY <1>4, <1>r, ReturnStep DEF RecoverExpiredLeases
<1>5. ASSUME NEW a \in Attempt, InterruptJob(a) \/ CompleteOperatorInterrupt(a)
      PROVE  W!Next
  <2>1. {a[1]} \in SUBSET Job /\ \A j \in {a[1]} : jobStatus[j] = "running"
    BY <1>5, AttemptPair DEF InterruptJob, MayEnd, CompleteOperatorInterrupt, MayComplete, LiveLease
  <2> QED
    BY <1>5, <2>1, ReturnStep DEF InterruptJob, CompleteOperatorInterrupt, EndAttempt
<1>6. ASSUME NEW w \in Reconciler, NEW a \in Attempt, ResolveProcess(w, a)
      PROVE  W!Next
  <2>1. {a[1]} \in SUBSET Job /\ \A j \in {a[1]} : jobStatus[j] = "running"
    BY <1>6, AttemptPair DEF ResolveProcess, ReconciliationHeld
  <2> QED
    BY <1>6, <2>1, ReturnStep DEF ResolveProcess
<1>7. CASE ItemStep
  BY <1>1, <1>2, <1>3, <1>7, <1>s DEF ItemStep, ChangeBindings
<1>8. CASE QueueStep
  BY <1>4, <1>8, <1>s, TakeStep DEF QueueStep, LeaseLapses
<1>9. CASE WorkerStep
  BY <1>5, <1>9, <1>s, AdvanceStep, FailStep
     DEF WorkerStep, HeartbeatJob, RecordExternalProcess, ClearExternalProcess,
         RecordExternalSession
<1>10. CASE OperatorStep
  BY <1>10, <1>s DEF OperatorStep, RequestJobInterrupt, RequestJobResume
<1>11. CASE ReconcilerStep
  BY <1>6, <1>11, <1>s
     DEF ReconcilerStep, ClaimReconciliation, QuarantineProcess, ReconciliationLapses
<1>12. CASE ResourceStep
  BY <1>12, <1>s DEF ResourceStep, AcquireResource, HeartbeatResource, ReleaseResource,
                     ResourceLapses
<1>13. CASE UNCHANGED vars
  BY <1>13, <1>s DEF vars
<1> QED
  BY <1>7, <1>8, <1>9, <1>10, <1>11, <1>12, <1>13 DEF Next

\* The durable queue, with its leases, resources, processes and operator requests, does
\* nothing to a work item that the workflow does not allow.
THEOREM Implementation == Spec => ImplementsWorkflow
  BY InitMaps, NextMaps, TypeCorrect, StageCorrect, PTL DEF Spec, ImplementsWorkflow, W!Spec

-----------------------------------------------------------------------------
(* What the workflow promises of its workers. *)

\* Rows of the three tables that agree describe exclusive work.
LEMMA StagesExclusive == TypeOK /\ StageInv => WorkExclusive
<1> SUFFICES ASSUME TypeOK, StageInv
             PROVE  WorkExclusive
  OBVIOUS
<1>1. \A j, k \in Job :
         jobStatus[j] = "running" /\ jobStatus[k] = "running" /\ j[1] = k[1] => j = k
  BY DEF StageInv, Agree
<1>2. \A i \in W!Busy : \E j \in Job : j[1] = i /\ jobStatus[j] = "running"
  BY <1>1, WorkerFacts DEF W!Busy, WorkerOf
<1>3. ASSUME NEW j \in Job, jobStatus[j] = "running"
      PROVE  /\ Current(j) \in Attempt /\ Current(j)[1] = j
             /\ WorkerOf[j[1]] = Current(j)
             /\ j[1] \in W!Busy
             /\ Current(j) \in Issued \ Accepted
             /\ role[j] \in Role /\ itemState[j[1]] = ActiveState[role[j]]
  <2>1. attemptCount[j] \in AttemptNo
    BY <1>3, BoundAssumption DEF StageInv, Agree, TypeOK, AttemptNo
  <2>2. Current(j) \in Attempt /\ Current(j)[1] = j /\ Current(j)[2] = attemptCount[j]
    BY <2>1 DEF Current, Attempt
  <2>3. WorkerOf[j[1]] = Current(j)
    BY <1>1, <1>3, WorkerFacts DEF WorkerOf, Current
  <2>4. j[1] \in W!Busy
    BY <2>2, <2>3, MarkAssumption, SameRow DEF W!Busy
  <2>5. attemptStatus[Current(j)] = "running"
    BY <1>3, <2>2 DEF StageInv, Agree
  <2>6. Current(j) \in Issued \ Accepted
    BY <2>1, <2>2, <2>5 DEF Issued, Accepted, AttemptNo
  <2>7. role[j] \in Role /\ itemState[j[1]] = ActiveState[role[j]]
    BY <1>3 DEF StageInv, Agree, TypeOK
  <2> QED
    BY <2>2, <2>3, <2>4, <2>6, <2>7
<1>4. \A i \in Item : i \in W!Busy <=> itemState[i] \in W!ActiveStates
  <2>1. W!ActiveStates = {ActiveState[r] : r \in Role}
    BY SameStages DEF W!ActiveStates
  <2>2. ASSUME NEW i \in Item, i \in W!Busy
        PROVE  itemState[i] \in W!ActiveStates
    BY <1>2, <1>3, <2>1, <2>2
  <2>3. ASSUME NEW i \in Item, itemState[i] \in W!ActiveStates
        PROVE  i \in W!Busy
    <3>1. PICK r \in Role : itemState[i] = ActiveState[r]
      BY <2>1, <2>3
    <3>2. PICK j \in Job : j[1] = i /\ jobStatus[j] = "running"
      BY <3>1 DEF StageInv, Agree
    <3> QED
      BY <1>3, <3>2
  <2> QED
    BY <2>2, <2>3
<1>5. \A i \in W!Busy : WorkerOf[i] \in Issued \ Accepted
  BY <1>2, <1>3
<1>6. ASSUME NEW i \in W!Busy, NEW k \in W!Busy, WorkerOf[i] = WorkerOf[k]
      PROVE  i = k
  <2>1. PICK j \in Job : j[1] = i /\ jobStatus[j] = "running"
    BY <1>2
  <2>2. PICK l \in Job : l[1] = k /\ jobStatus[l] = "running"
    BY <1>2
  <2> QED
    BY <1>3, <1>6, <2>1, <2>2
<1> QED
  BY <1>4, <1>5, <1>6 DEF WorkExclusive, W!ExclusiveWork

\* No two attempts ever work on one item, and none goes on once its result is in.
THEOREM WorkExclusiveAlways == Spec => []WorkExclusive
  BY StagesExclusive, TypeCorrect, StageCorrect, PTL

-----------------------------------------------------------------------------
(* Leases, limits and failures: the inductive invariant. *)

\* The leases (hd; sl of them lapsed) are those of the current attempts of the running
\* jobs: each holds one slot of every resource it requires and no other, and what has
\* lapsed on its own belongs to no job.  Like Agree it speaks of tables.
Held(js, nd, ac, hd, sl) ==
    /\ \A j \in Job : js[j] = "running" =>
          \A r \in nd[j] : \E s \in Slot : s[1] = r /\ hd[s] = <<j, ac[j]>>
    /\ \A s, t \in Slot : hd[s] \in Attempt /\ hd[t] = hd[s] /\ s[1] = t[1] => s = t
    /\ \A s \in Slot : hd[s] \in Attempt =>
          /\ js[hd[s][1]] = "running"
          /\ hd[s][2] = ac[hd[s][1]]
          /\ s[1] \in nd[hd[s][1]]
    /\ \A s \in sl : hd[s] \in Owner

Leases == Held(jobStatus, needs, attemptCount, holder, slotLapsed)

Running == {j \in Job : jobStatus[j] = "running"}

UseInv ==
    /\ Leases
    /\ IsFiniteSet(Running)
    /\ ConcurrencyLimits
    /\ FailureBudget

-----------------------------------------------------------------------------
(* The steps that end attempts. *)

\* What ending the current attempts of the running jobs in J, or no attempt, does to the
\* tables: its slots become free, an attempt of J that fails leaves its job open only
\* within the budget, and others stay as they are but for new jobs and standalone leases.
Gives(J) ==
    /\ J \in SUBSET Running
    /\ \A j \in J : jobStatus'[j] # "running"
    /\ \A j \in Job \ J : \/ jobStatus'[j] = jobStatus[j]
                          \/ jobStatus[j] = "absent" /\ jobStatus'[j] = "pending"
    /\ \A j \in Job : jobStatus[j] # "absent" => needs'[j] = needs[j] /\ role'[j] = role[j]
    /\ attemptCount' = attemptCount
    /\ \A s \in Slot :
          IF \E j \in J : holder[s] = Current(j) THEN holder'[s] = Free
          ELSE \/ holder'[s] = holder[s]
               \/ {holder[s], holder'[s]} \subseteq Owner \cup {Free}
    /\ \A s \in slotLapsed' : s \in Slot /\ holder'[s] \in Owner
    /\ \A a \in Attempt : attemptStatus'[a] = "failed" =>
          \/ attemptStatus[a] = "failed"
          \/ /\ a[1] \in J /\ a[2] = attemptCount[a[1]]
             /\ jobStatus'[a[1]] = "pending" => FailuresAllow(a)

\* Which marks are attempts.
LEMMA Marks ==
    /\ Free \notin Attempt
    /\ \A o \in Owner : o \notin Attempt /\ o # Free
    /\ \A a \in Attempt : a # Free /\ a \notin Owner
  BY MarkAssumption

\* The attempt of a running job is a row of the table.
LEMMA CurrentRow ==
    ASSUME TypeOK, StageInv, NEW j \in Job, jobStatus[j] = "running"
    PROVE  Current(j) \in Attempt /\ Current(j)[1] = j /\ Current(j)[2] = attemptCount[j]
<1>1. attemptCount[j] \in 0..MaxClaims /\ attemptCount[j] > 0
  BY DEF TypeOK, StageInv, Agree
<1> QED
  BY <1>1, BoundAssumption DEF Current, Attempt, AttemptNo

\* The leases that are left are those of the jobs that still run.
LEMMA HeldAfterEnds ==
    ASSUME TypeOK, StageInv, Leases, NEW J \in SUBSET Running,
           NEW js, NEW nd, NEW hd, NEW sl,
           \A j \in J : js[j] # "running",
           \A j \in Job \ J : \/ js[j] = jobStatus[j]
                              \/ jobStatus[j] = "absent" /\ js[j] = "pending",
           \A j \in Job : jobStatus[j] # "absent" => nd[j] = needs[j],
           \A s \in Slot :
              IF \E j \in J : holder[s] = Current(j) THEN hd[s] = Free
              ELSE \/ hd[s] = holder[s]
                   \/ {holder[s], hd[s]} \subseteq Owner \cup {Free},
           \A s \in sl : s \in Slot /\ hd[s] \in Owner
    PROVE  Held(js, nd, attemptCount, hd, sl)
<1>0. \A j \in J : j \in Job /\ jobStatus[j] = "running"
  BY DEF Running
<1>1. ASSUME NEW s \in Slot, hd[s] \in Attempt
      PROVE  /\ holder[s] = hd[s]
             /\ hd[s][1] \in Job \ J
             /\ jobStatus[hd[s][1]] = "running"
             /\ hd[s][2] = attemptCount[hd[s][1]]
             /\ s[1] \in needs[hd[s][1]]
  <2>1. holder[s] = hd[s] /\ ~ \E j \in J : holder[s] = Current(j)
    BY <1>1, Marks
  <2>2. /\ jobStatus[holder[s][1]] = "running"
        /\ holder[s][2] = attemptCount[holder[s][1]]
        /\ s[1] \in needs[holder[s][1]]
    BY <1>1, <2>1 DEF Leases, Held
  <2>3. holder[s][1] \in Job /\ holder[s] = Current(holder[s][1])
    BY <1>1, <2>1, <2>2, AttemptPair DEF Current
  <2> QED
    BY <2>1, <2>2, <2>3
<1>2. ASSUME NEW j \in Job, js[j] = "running"
      PROVE  j \notin J /\ jobStatus[j] = "running" /\ nd[j] = needs[j]
  BY <1>2
<1>3. ASSUME NEW j \in Job, js[j] = "running", NEW r \in nd[j]
      PROVE  \E s \in Slot : s[1] = r /\ hd[s] = <<j, attemptCount[j]>>
  <2>1. j \notin J /\ jobStatus[j] = "running" /\ nd[j] = needs[j]
    BY <1>2, <1>3
  <2>2. PICK s \in Slot : s[1] = r /\ holder[s] = Current(j)
    BY <1>3, <2>1 DEF Leases, Held, Current
  <2>3. holder[s] \in Attempt /\ holder[s][1] = j
    BY <2>1, <2>2, CurrentRow
  <2>4. ~ \E k \in J : holder[s] = Current(k)
    BY <1>0, <2>1, <2>3, CurrentRow
  <2>5. hd[s] = holder[s]
    BY <2>3, <2>4, Marks
  <2> QED
    BY <2>2, <2>5 DEF Current
<1>4. \A s, t \in Slot : hd[s] \in Attempt /\ hd[t] = hd[s] /\ s[1] = t[1] => s = t
  BY <1>1 DEF Leases, Held
<1>5. ASSUME NEW s \in Slot, hd[s] \in Attempt
      PROVE  /\ js[hd[s][1]] = "running"
             /\ hd[s][2] = attemptCount[hd[s][1]]
             /\ s[1] \in nd[hd[s][1]]
  BY <1>1, <1>5
<1> QED
  BY <1>3, <1>4, <1>5 DEF Held

LEMMA GivesLeases ==
    ASSUME TypeOK, StageInv, Leases, NEW J, Gives(J)
    PROVE  Leases'
<1>1. /\ J \in SUBSET Running
      /\ \A j \in J : jobStatus'[j] # "running"
      /\ \A j \in Job \ J : \/ jobStatus'[j] = jobStatus[j]
                            \/ jobStatus[j] = "absent" /\ jobStatus'[j] = "pending"
      /\ \A j \in Job : jobStatus[j] # "absent" => needs'[j] = needs[j]
      /\ \A s \in Slot :
            IF \E j \in J : holder[s] = Current(j) THEN holder'[s] = Free
            ELSE \/ holder'[s] = holder[s]
                 \/ {holder[s], holder'[s]} \subseteq Owner \cup {Free}
      /\ \A s \in slotLapsed' : s \in Slot /\ holder'[s] \in Owner
      /\ attemptCount' = attemptCount
  BY DEF Gives
<1>2. Held(jobStatus', needs', attemptCount, holder', slotLapsed')
  BY <1>1, HeldAfterEnds
<1>3. attemptCount' = attemptCount
  BY <1>1
<1>4. Held(jobStatus', needs', attemptCount', holder', slotLapsed')
  BY <1>2, <1>3
<1> QED
  BY <1>4 DEF Leases, Held

\* Fewer jobs run and no other budget is drawn on.
LEMMA GivesLimits ==
    ASSUME TypeOK, StageInv, IsFiniteSet(Running), ConcurrencyLimits, NEW J, Gives(J)
    PROVE  IsFiniteSet(Running') /\ ConcurrencyLimits'
<1>1. Running' \in SUBSET Running /\ \A j \in Running' : role'[j] = role[j]
  BY DEF Running, Gives
<1>2. /\ IsFiniteSet(Running')
      /\ Cardinality(Running') <= Cardinality(Running)
  BY <1>1, FS_Subset
<1>3. ASSUME NEW r \in Role
      PROVE  Cardinality({j \in Running' : role'[j] = r}) <= RoleLimit[r]
  <2> DEFINE now == {j \in Running' : role'[j] = r}
             was == {j \in Running : role[j] = r}
  <2>1. was \in SUBSET Running /\ now \in SUBSET was
    BY <1>1
  <2>2. IsFiniteSet(was)
    BY <2>1, FS_Subset
  <2>3. IsFiniteSet(now) /\ Cardinality(now) <= Cardinality(was)
    BY <2>1, <2>2, FS_Subset
  <2>4. Cardinality(was) <= RoleLimit[r]
    BY DEF ConcurrencyLimits, Running
  <2>5. /\ Cardinality(was) \in Nat /\ Cardinality(now) \in Nat
        /\ RoleLimit[r] \in Nat
    BY <2>2, <2>3, FS_CardinalityType, BoundAssumption
  <2> HIDE DEF now, was
  <2>6. Cardinality(now) <= RoleLimit[r]
    BY <2>3, <2>4, <2>5
  <2> QED
    BY <2>6 DEF now
<1>4. Cardinality(Running') <= GlobalLimit
  <2>1. Cardinality(Running) <= GlobalLimit
    BY DEF ConcurrencyLimits, Running
  <2>2. /\ Cardinality(Running) \in Nat /\ Cardinality(Running') \in Nat
        /\ GlobalLimit \in Nat
    BY <1>2, FS_CardinalityType, BoundAssumption
  <2> QED
    BY <1>2, <2>1, <2>2
<1> QED
  BY <1>2, <1>3, <1>4 DEF ConcurrencyLimits, Running

\* The failed attempts of a job.
Failed(j) == {n \in AttemptNo : attemptStatus[<<j, n>>] = "failed"}

\* Failures are counted within 1..MaxClaims.
LEMMA FailuresFinite ==
    ASSUME NEW S \in SUBSET AttemptNo
    PROVE  IsFiniteSet(S) /\ Cardinality(S) \in Nat
<1>1. IsFiniteSet(AttemptNo)
  BY FS_Interval, BoundAssumption DEF AttemptNo
<1>2. IsFiniteSet(S)
  BY <1>1, FS_Subset
<1> QED
  BY <1>2, FS_CardinalityType

\* A job whose failures do not grow keeps its budget.
LEMMA BudgetKept ==
    ASSUME NEW S \in SUBSET AttemptNo, NEW T \in SUBSET S, Cardinality(S) < MaxAttempts
    PROVE  Cardinality(T) < MaxAttempts
<1>1. IsFiniteSet(S) /\ Cardinality(S) \in Nat /\ Cardinality(T) \in Nat
  BY FailuresFinite
<1>2. Cardinality(T) <= Cardinality(S)
  BY <1>1, FS_Subset
<1> QED
  BY <1>1, <1>2, BoundAssumption

LEMMA GivesBudget ==
    ASSUME TypeOK, StageInv, FailureBudget, NEW J, Gives(J)
    PROVE  FailureBudget'
<1> SUFFICES ASSUME NEW j \in Job, jobStatus'[j] \in {"pending", "running"}
             PROVE  Cardinality(Failed(j)') < MaxAttempts
  BY DEF FailureBudget, OpenJob, Failed
<1>1. \A n \in AttemptNo : <<j, n>> \in Attempt /\ <<j, n>>[1] = j /\ <<j, n>>[2] = n
  BY DEF Attempt
<1>2. Failed(j) \in SUBSET AttemptNo /\ Failed(j)' \in SUBSET AttemptNo
  BY DEF Failed
<1>3. CASE jobStatus[j] = "absent"
  <2>1. attemptCount[j] = 0 /\ j \notin J
    BY <1>3 DEF StageInv, Agree, Gives, Running
  <2>2. \A n \in AttemptNo : attemptStatus[<<j, n>>] = "none"
    BY <1>1, <2>1, BoundAssumption DEF StageInv, Agree, AttemptNo
  <2>3. Failed(j)' = {}
    BY <1>1, <2>1, <2>2 DEF Failed, Gives
  <2> QED
    BY <2>3, FS_EmptySet, BoundAssumption
<1>4. CASE jobStatus[j] # "absent" /\ Failed(j)' \subseteq Failed(j)
  <2>1. jobStatus[j] \in {"pending", "running"}
    BY <1>4 DEF Gives, Running
  <2>2. Cardinality(Failed(j)) < MaxAttempts
    BY <2>1 DEF FailureBudget, OpenJob, Failed
  <2> QED
    BY <1>2, <1>4, <2>2, BudgetKept
<1>5. ASSUME NEW n \in Failed(j)', n \notin Failed(j)
      PROVE  Cardinality(Failed(j)') < MaxAttempts
  <2> DEFINE most == {m \in AttemptNo : m = n \/ attemptStatus[<<j, m>>] = "failed"}
  <2>1. /\ j \in J /\ n = attemptCount[j]
        /\ jobStatus'[j] = "pending" => FailuresAllow(<<j, n>>)
    BY <1>1, <1>2, <1>5 DEF Failed, Gives
  <2>2. jobStatus'[j] = "pending"
    BY <2>1 DEF Gives
  <2>3. Cardinality(most) < MaxAttempts
    BY <2>1, <2>2 DEF FailuresAllow
  <2>4. \A m \in Failed(j)' : m \in AttemptNo /\ (m \in Failed(j) \/ m = n)
    BY <1>1, <1>2, <2>1 DEF Failed, Gives
  <2>5. Failed(j)' \in SUBSET most /\ most \in SUBSET AttemptNo
    BY <2>4 DEF Failed
  <2> HIDE DEF most
  <2> QED
    BY <2>3, <2>5, BudgetKept
<1> QED
  BY <1>3, <1>4, <1>5

LEMMA GivesKeep ==
    ASSUME TypeOK, StageInv, UseInv, NEW J, Gives(J)
    PROVE  UseInv'
  BY GivesLeases, GivesLimits, GivesBudget DEF UseInv

-----------------------------------------------------------------------------
(* The claim. *)

\* A resource with a free slot has a lowest one.
LEMMA LowestExists ==
    ASSUME NEW rows, NEW r, \E s \in Slot : s[1] = r /\ rows[s] = Free
    PROVE  \E s \in Slot : s[1] = r /\ LowestFree(s, rows)
<1> DEFINE T == {s[2] : s \in {t \in Slot : t[1] = r /\ rows[t] = Free}}
<1>1. \A s \in Slot : s[2] \in Nat /\ s = <<s[1], s[2]>>
  BY LimitAssumption DEF Slot
<1>2. T \in SUBSET Nat /\ T # {}
  BY <1>1
<1>3. PICK n \in T : \A m \in T : ~ (<<m, n>> \in OpToRel(<, Nat))
  BY <1>2, NatLessThanWellFounded, WFMin, Zenon
<1>4. n \in Nat /\ \A m \in T : ~ (m < n)
  BY <1>2, <1>3 DEF OpToRel
<1>5. PICK s \in Slot : s[1] = r /\ rows[s] = Free /\ s[2] = n
  OBVIOUS
<1>6. \A t \in Slot : t[1] = s[1] /\ t[2] < s[2] => rows[t] # Free
  BY <1>4, <1>5
<1> QED
  BY <1>5, <1>6 DEF LowestFree

\* The lowest free slot is one slot.
LEMMA LowestUnique ==
    ASSUME NEW rows, NEW s \in Slot, NEW t \in Slot, s[1] = t[1],
           LowestFree(s, rows), LowestFree(t, rows)
    PROVE  s = t
<1>1. s[2] \in Nat /\ t[2] \in Nat /\ s = <<s[1], s[2]>> /\ t = <<t[1], t[2]>>
  BY LimitAssumption DEF Slot
<1>2. s[2] = t[2]
  BY <1>1 DEF LowestFree
<1> QED
  BY <1>1, <1>2

\* A claim in tables that agree takes one slot of each required resource.
LEMMA HeldAfterClaim ==
    ASSUME TypeOK, NEW js \in [Job -> JobStates],
           NEW hd \in [Slot -> Attempt \cup Owner \cup {Free}],
           Held(js, needs, attemptCount, hd, {}),
           \A k \in Job : js[k] = "running" => Current(k) \in Attempt,
           NEW j \in Job, js[j] # "running", attemptCount[j] < MaxClaims,
           \A r \in needs[j] : \E s \in Slot : s[1] = r /\ hd[s] = Free
    PROVE  Held([js EXCEPT ![j] = "running"], needs, [attemptCount EXCEPT ![j] = @ + 1],
                [s \in Slot |-> IF s[1] \in needs[j] /\ LowestFree(s, hd)
                                THEN <<j, attemptCount[j] + 1>> ELSE hd[s]], {})
<1> DEFINE a == <<j, attemptCount[j] + 1>>
           js1 == [js EXCEPT ![j] = "running"]
           ac1 == [attemptCount EXCEPT ![j] = @ + 1]
           hd1 == [s \in Slot |-> IF s[1] \in needs[j] /\ LowestFree(s, hd) THEN a ELSE hd[s]]
<1>1. a \in Attempt /\ a[1] = j /\ a[2] = attemptCount[j] + 1
  BY BoundAssumption DEF TypeOK, Attempt, AttemptNo
<1>2. \A k \in Job : /\ js1[k] = IF k = j THEN "running" ELSE js[k]
                     /\ ac1[k] = IF k = j THEN attemptCount[j] + 1 ELSE attemptCount[k]
  BY DEF TypeOK
<1>3. ASSUME NEW s \in Slot
      PROVE  \/ s[1] \in needs[j] /\ LowestFree(s, hd) /\ hd1[s] = a
             \/ ~ (s[1] \in needs[j] /\ LowestFree(s, hd)) /\ hd1[s] = hd[s]
  OBVIOUS
<1>4. a = <<j, ac1[j]>> /\ ac1[j] = attemptCount[j] + 1
  BY <1>2
<1>5. \A s \in Slot : hd[s] \in Attempt => hd[s][1] \in Job /\ hd[s][1] # j
  BY AttemptPair DEF Held
<1> HIDE DEF a, js1, ac1, hd1
<1>6. ASSUME NEW k \in Job, js1[k] = "running", NEW r \in needs[k]
      PROVE  \E s \in Slot : s[1] = r /\ hd1[s] = <<k, ac1[k]>>
  <2>1. CASE k = j
    <3>1. PICK s \in Slot : s[1] = r /\ LowestFree(s, hd)
      BY <1>6, <2>1, LowestExists
    <3> QED
      BY <1>3, <1>4, <1>6, <2>1, <3>1
  <2>2. CASE k # j
    <3>1. js[k] = "running" /\ ac1[k] = attemptCount[k]
      BY <1>2, <1>6, <2>2
    <3>2. PICK s \in Slot : s[1] = r /\ hd[s] = <<k, attemptCount[k]>>
      BY <1>6, <3>1 DEF Held
    <3>3. hd[s] # Free
      BY <3>1, <3>2, Marks DEF Current
    <3> QED
      BY <1>3, <3>1, <3>2, <3>3 DEF LowestFree
  <2> QED
    BY <2>1, <2>2
<1>7. ASSUME NEW s \in Slot, NEW t \in Slot, hd1[s] \in Attempt, hd1[t] = hd1[s], s[1] = t[1]
      PROVE  s = t
  <2>1. CASE hd1[s] = a
    <3>1. LowestFree(s, hd) /\ LowestFree(t, hd)
      BY <1>1, <1>3, <1>5, <1>7, <2>1
    <3> QED
      BY <1>7, <3>1, LowestUnique
  <2>2. CASE hd1[s] # a
    <3>1. hd1[s] = hd[s] /\ hd1[t] = hd[t]
      BY <1>3, <1>7, <2>2
    <3> QED
      BY <1>7, <3>1 DEF Held
  <2> QED
    BY <2>1, <2>2
<1>8. ASSUME NEW s \in Slot, hd1[s] \in Attempt
      PROVE  /\ js1[hd1[s][1]] = "running"
             /\ hd1[s][2] = ac1[hd1[s][1]]
             /\ s[1] \in needs[hd1[s][1]]
  <2>1. CASE s[1] \in needs[j] /\ hd1[s] = a
    BY <1>1, <1>2, <2>1
  <2>2. CASE hd1[s] = hd[s]
    BY <1>2, <1>5, <1>8, <2>2 DEF Held
  <2> QED
    BY <1>3, <2>1, <2>2
<1> QED
  BY <1>6, <1>7, <1>8 DEF Held, a, js1, ac1, hd1

\* What recovery leaves for the claim.
LEMMA RecoveryHeld ==
    ASSUME TypeOK, StageInv, Leases
    PROVE  /\ Recovered \in SUBSET Running
           /\ Held(JobsSet(Recovered, "pending"), needs, attemptCount, HoldersAfterRecovery, {})
           /\ \A s \in Slot :
                 IF \E j \in Recovered : holder[s] = Current(j) THEN HoldersAfterRecovery[s] = Free
                 ELSE \/ HoldersAfterRecovery[s] = holder[s]
                      \/ {holder[s], HoldersAfterRecovery[s]} \subseteq Owner \cup {Free}
<1>1. Recovered \in SUBSET Running
  BY RecoveredType DEF Recovered, Running, StageInv
<1>2. \A j \in Job :
         JobsSet(Recovered, "pending")[j] = IF j \in Recovered THEN "pending" ELSE jobStatus[j]
  BY DEF JobsSet
<1>3. ASSUME NEW s \in Slot
      PROVE  IF \E j \in Recovered : holder[s] = Current(j) THEN HoldersAfterRecovery[s] = Free
             ELSE \/ HoldersAfterRecovery[s] = holder[s]
                  \/ {holder[s], HoldersAfterRecovery[s]} \subseteq Owner \cup {Free}
  <2>1. s \in slotLapsed => holder[s] \in Owner
    BY DEF Leases, Held
  <2> QED
    BY <2>1 DEF HoldersAfterRecovery, SlotsFreed
<1>4. Held(JobsSet(Recovered, "pending"), needs, attemptCount, HoldersAfterRecovery, {})
  <2> DEFINE js == JobsSet(Recovered, "pending")
             hd == HoldersAfterRecovery
             none == {}
  <2>1. /\ \A j \in Recovered : js[j] # "running"
        /\ \A j \in Job \ Recovered : \/ js[j] = jobStatus[j]
                                      \/ jobStatus[j] = "absent" /\ js[j] = "pending"
        /\ \A j \in Job : jobStatus[j] # "absent" => needs[j] = needs[j]
        /\ \A s \in none : s \in Slot /\ hd[s] \in Owner
    BY <1>1, <1>2 DEF Running
  <2>2. \A s \in Slot :
           IF \E j \in Recovered : holder[s] = Current(j) THEN hd[s] = Free
           ELSE hd[s] = holder[s] \/ {holder[s], hd[s]} \subseteq Owner \cup {Free}
    BY <1>3
  <2> HIDE DEF js, hd, none
  <2>3. Held(js, needs, attemptCount, hd, none)
    BY <1>1, <2>1, <2>2, HeldAfterEnds
  <2> QED
    BY <2>3 DEF js, hd, none
<1> QED
  BY <1>1, <1>3, <1>4

LEMMA ClaimLeases ==
    ASSUME TypeOK, StageInv, Leases, NEW j \in Job, ClaimJob(j)
    PROVE  Leases'
<1> DEFINE js == JobsSet(Recovered, "pending")
           hd == HoldersAfterRecovery
<1>1. /\ js \in [Job -> JobStates]
      /\ hd \in [Slot -> Attempt \cup Owner \cup {Free}]
      /\ Held(js, needs, attemptCount, hd, {})
  BY RecoveryHeld, RecoveredType, EndTypes DEF JobStates, AttemptStates
<1>2. \A k \in Job : js[k] = "running" => Current(k) \in Attempt
  BY CurrentRow DEF JobsSet
<1>3. /\ js[j] # "running" /\ attemptCount[j] < MaxClaims
      /\ \A r \in needs[j] : \E s \in Slot : s[1] = r /\ hd[s] = Free
  BY DEF ClaimJob, Claimable
<1>4. /\ jobStatus' = [js EXCEPT ![j] = "running"]
      /\ attemptCount' = [attemptCount EXCEPT ![j] = @ + 1]
      /\ holder' = [s \in Slot |-> IF s[1] \in needs[j] /\ LowestFree(s, hd)
                                   THEN <<j, attemptCount[j] + 1>> ELSE hd[s]]
      /\ slotLapsed' = {} /\ needs' = needs
  BY DEF ClaimJob
<1> HIDE DEF js, hd
<1>5. Held(jobStatus', needs, attemptCount', holder', slotLapsed')
  BY <1>1, <1>2, <1>3, <1>4, HeldAfterClaim
<1> QED
  BY <1>4, <1>5 DEF Leases, Held

LEMMA ClaimLimits ==
    ASSUME TypeOK, StageInv, IsFiniteSet(Running), ConcurrencyLimits,
           NEW j \in Job, ClaimJob(j)
    PROVE  IsFiniteSet(Running') /\ ConcurrencyLimits'
<1> DEFINE js == JobsSet(Recovered, "pending")
           left == {k \in Job : js[k] = "running"}
<1>1. /\ Cardinality(left) < GlobalLimit
      /\ Cardinality({k \in left : role[k] = role[j]}) < RoleLimit[role[j]]
      /\ role' = role
  BY DEF ClaimJob, Claimable, WithinLimits
<1>2. left \in SUBSET Running /\ Running' = left \cup {j}
  <2>1. \A k \in Job : js[k] = IF k \in Recovered THEN "pending" ELSE jobStatus[k]
    BY DEF JobsSet
  <2>2. js \in [Job -> JobStates]
    BY RecoveredType, EndTypes DEF JobStates, AttemptStates
  <2>3. jobStatus' = [js EXCEPT ![j] = "running"]
    BY DEF ClaimJob
  <2> HIDE DEF js
  <2> QED
    BY <2>1, <2>2, <2>3 DEF Running
<1> HIDE DEF js, left
<1>3. IsFiniteSet(left) /\ IsFiniteSet(Running')
  BY <1>2, FS_Subset, FS_AddElement
<1>4. Cardinality(Running') <= GlobalLimit
  <2>1. Cardinality(Running') <= Cardinality(left) + 1 /\ Cardinality(left) \in Nat
    BY <1>2, <1>3, FS_AddElement, FS_CardinalityType
  <2>2. Cardinality(Running') \in Nat /\ GlobalLimit \in Nat
    BY <1>3, FS_CardinalityType, BoundAssumption
  <2> QED
    BY <1>1, <2>1, <2>2
<1>5. ASSUME NEW r \in Role
      PROVE  Cardinality({k \in Running' : role'[k] = r}) <= RoleLimit[r]
  <2> DEFINE now == {k \in Running' : role'[k] = r}
             kept == {k \in left : role[k] = r}
             was == {k \in Running : role[k] = r}
  <2>1. /\ was \in SUBSET Running /\ kept \in SUBSET was
        /\ now = IF role[j] = r THEN kept \cup {j} ELSE kept
    BY <1>1, <1>2
  <2>2. Cardinality(was) <= RoleLimit[r] /\ (role[j] = r => Cardinality(kept) < RoleLimit[r])
    BY <1>1 DEF ConcurrencyLimits, Running
  <2> HIDE DEF now, kept, was
  <2>3. IsFiniteSet(was) /\ Cardinality(was) \in Nat
    BY <2>1, FS_Subset, FS_CardinalityType
  <2>4. IsFiniteSet(kept) /\ Cardinality(kept) \in Nat /\ Cardinality(kept) <= Cardinality(was)
    BY <2>1, <2>3, FS_Subset, FS_CardinalityType
  <2>5. RoleLimit[r] \in Nat
    BY BoundAssumption
  <2>6. CASE role[j] # r
    BY <2>1, <2>2, <2>3, <2>4, <2>5, <2>6 DEF now
  <2>7. CASE role[j] = r
    <3>1. /\ IsFiniteSet(kept \cup {j})
          /\ Cardinality(kept \cup {j}) = IF j \in kept THEN Cardinality(kept)
                                          ELSE Cardinality(kept) + 1
      BY <2>4, FS_AddElement
    <3>2. Cardinality(now) <= Cardinality(kept) + 1 /\ Cardinality(now) \in Nat
      BY <2>1, <2>4, <2>7, <3>1
    <3>3. Cardinality(now) <= RoleLimit[r]
      BY <2>2, <2>4, <2>5, <2>7, <3>2
    <3> QED
      BY <3>3 DEF now
  <2> QED
    BY <2>6, <2>7
<1> QED
  BY <1>3, <1>4, <1>5 DEF ConcurrencyLimits, Running

LEMMA ClaimBudget ==
    ASSUME TypeOK, StageInv, FailureBudget, NEW j \in Job, ClaimJob(j)
    PROVE  FailureBudget'
<1> SUFFICES ASSUME NEW k \in Job, jobStatus'[k] \in {"pending", "running"}
             PROVE  Cardinality(Failed(k)') < MaxAttempts
  BY DEF FailureBudget, OpenJob, Failed
<1> DEFINE a == <<j, attemptCount[j] + 1>>
           as == AttemptsEnded(Recovered, "expired")
           js == JobsSet(Recovered, "pending")
<1>1. /\ jobStatus' = [js EXCEPT ![j] = "running"] /\ js[j] = "pending"
      /\ attemptStatus' = [as EXCEPT ![a] = "running"]
  BY DEF ClaimJob, Claimable
<1>2. as \in [Attempt -> AttemptStates] /\ js \in [Job -> JobStates]
  BY RecoveredType, EndTypes DEF JobStates, AttemptStates
<1>3. /\ \A b \in Attempt : as[b] = "failed" => attemptStatus[b] = "failed"
      /\ \A i \in Job : js[i] = jobStatus[i] \/ (js[i] = "pending" /\ i \in Recovered)
  BY DEF AttemptsEnded, JobsSet
<1>4. \A i \in Recovered : jobStatus[i] = "running"
  BY DEF Recovered, StageInv
<1> HIDE DEF as, js, a
<1>5. jobStatus[k] \in {"pending", "running"}
  BY <1>1, <1>2, <1>3, <1>4
<1>6. \A n \in AttemptNo : <<k, n>> \in Attempt
  BY DEF Attempt
<1>7. Failed(k)' \in SUBSET Failed(k) /\ Failed(k) \in SUBSET AttemptNo
  BY <1>1, <1>2, <1>3, <1>6 DEF Failed
<1>8. Cardinality(Failed(k)) < MaxAttempts
  BY <1>5 DEF FailureBudget, OpenJob, Failed
<1> QED
  BY <1>7, <1>8, BudgetKept

LEMMA ClaimKeeps ==
    ASSUME TypeOK, StageInv, UseInv, NEW j \in Job, ClaimJob(j)
    PROVE  UseInv'
  BY ClaimLeases, ClaimLimits, ClaimBudget DEF UseInv

-----------------------------------------------------------------------------
(* Every other step ends attempts, of no job in most cases. *)

\* A step that ends nothing and moves standalone leases at most.
LEMMA NothingGiven ==
    ASSUME TypeOK, StageInv, Leases,
           \A j \in Job : \/ jobStatus'[j] = jobStatus[j]
                          \/ jobStatus[j] = "absent" /\ jobStatus'[j] = "pending",
           \A j \in Job : jobStatus[j] # "absent" => needs'[j] = needs[j] /\ role'[j] = role[j],
           UNCHANGED <<attemptCount, attemptStatus>>,
           \A s \in Slot : \/ holder'[s] = holder[s]
                           \/ {holder[s], holder'[s]} \subseteq Owner \cup {Free},
           \A s \in slotLapsed' : s \in Slot /\ holder'[s] \in Owner
    PROVE  Gives({})
  BY DEF Gives

\* The row of a new job is not one of a job that exists.
LEMMA NewRow ==
    ASSUME TypeOK, StageInv, NEW i \in Item, NEW r, NEW st, NEW resources, NEW status,
           status \in [Job -> JobStates], jobCount[i] < MaxJobs,
           AddJob(i, r, st, resources, status)
    PROVE  /\ \A j \in Job : \/ jobStatus'[j] = status[j]
                             \/ jobStatus[j] = "absent" /\ jobStatus'[j] = "pending"
           /\ \A j \in Job : jobStatus[j] # "absent" =>
                 jobStatus'[j] = status[j] /\ needs'[j] = needs[j] /\ role'[j] = role[j]
<1>1. jobCount[i] \in Nat /\ NextJob(i) \in Job /\ NextJob(i)[2] > jobCount[NextJob(i)[1]]
  BY BoundAssumption DEF NextJob, Job, TypeOK
<1>2. jobStatus[NextJob(i)] = "absent"
  BY <1>1 DEF StageInv, Agree
<1> QED
  BY <1>1, <1>2 DEF AddJob, TypeOK

LEMMA ItemGives == ASSUME TypeOK, StageInv, Leases, ItemStep PROVE Gives({})
<1> USE DEF jobVars, leaseVars
<1>1. jobStatus \in [Job -> JobStates] /\ slotLapsed \subseteq Slot
  BY DEF TypeOK
<1>2. \A s \in slotLapsed : holder[s] \in Owner
  BY DEF Leases, Held
<1>3. CASE \E i \in Item, state \in CreatableStates : CreateWorkItem(i, state)
  BY <1>1, <1>2, <1>3, NothingGiven DEF CreateWorkItem
<1>4. ASSUME NEW i \in Item, NEW r \in Role, NEW st \in Stage, NEW resources \in SUBSET Resource,
             CreateWorkItemWithJob(i, r, st, resources) \/ EnqueueJob(i, r, st, resources)
      PROVE  Gives({})
  <2>1. /\ jobCount[i] < MaxJobs /\ AddJob(i, r, st, resources, jobStatus)
        /\ UNCHANGED <<attemptCount, attemptStatus, holder, slotLapsed>>
    BY <1>4 DEF CreateWorkItemWithJob, EnqueueJob, Enqueueable
  <2>2. /\ \A j \in Job : \/ jobStatus'[j] = jobStatus[j]
                          \/ jobStatus[j] = "absent" /\ jobStatus'[j] = "pending"
        /\ \A j \in Job : jobStatus[j] # "absent" => needs'[j] = needs[j] /\ role'[j] = role[j]
    BY <1>1, <2>1, NewRow
  <2> QED
    BY <1>1, <1>2, <2>1, <2>2, NothingGiven
<1>5. CASE \E i \in Item : ChangeBindings(i)
  BY <1>1, <1>2, <1>5, NothingGiven DEF ChangeBindings
<1> QED
  BY <1>3, <1>4, <1>5 DEF ItemStep

LEMMA RecoveryGives ==
    ASSUME TypeOK, StageInv, Leases, RecoverExpiredLeases
    PROVE  Gives(Recovered)
<1>1. /\ Recovered \in SUBSET Running
      /\ \A s \in Slot :
            IF \E j \in Recovered : holder[s] = Current(j) THEN HoldersAfterRecovery[s] = Free
            ELSE \/ HoldersAfterRecovery[s] = holder[s]
                 \/ {holder[s], HoldersAfterRecovery[s]} \subseteq Owner \cup {Free}
  BY RecoveryHeld
<1>2. /\ \A j \in Job : jobStatus'[j] = IF j \in Recovered THEN "pending" ELSE jobStatus[j]
      /\ \A a \in Attempt : attemptStatus'[a] = "failed" => attemptStatus[a] = "failed"
      /\ holder' = HoldersAfterRecovery /\ slotLapsed' = {}
      /\ UNCHANGED <<needs, role, attemptCount>>
  BY DEF RecoverExpiredLeases, JobsSet, AttemptsEnded
<1>3. \A j \in Recovered : j \in Job
  BY <1>1 DEF Running
<1> QED
  BY <1>1, <1>2, <1>3 DEF Gives

\* What the end of one attempt writes.
LEMMA OneGives ==
    ASSUME TypeOK, StageInv, Leases, NEW a \in Attempt,
           jobStatus[a[1]] = "running", a = Current(a[1]),
           jobStatus'[a[1]] # "running",
           \A j \in Job : j # a[1] => \/ jobStatus'[j] = jobStatus[j]
                                      \/ jobStatus[j] = "absent" /\ jobStatus'[j] = "pending",
           \A j \in Job : jobStatus[j] # "absent" => needs'[j] = needs[j] /\ role'[j] = role[j],
           NEW ended \in {"succeeded", "failed", "expired", "interrupted"},
           attemptStatus' = AttemptsEnded({a[1]}, ended),
           ended = "failed" /\ jobStatus'[a[1]] = "pending" => FailuresAllow(a),
           holder' = SlotsFreed({a[1]}),
           UNCHANGED <<attemptCount, slotLapsed>>
    PROVE  Gives({a[1]})
<1> DEFINE J == {a[1]}
<1>1. J \in SUBSET Running /\ \A j \in Job : j \in J <=> j = a[1]
  BY AttemptPair DEF Running
<1>2. \A s \in Slot : holder'[s] = IF \E j \in J : holder[s] = Current(j) THEN Free ELSE holder[s]
  BY DEF SlotsFreed
<1>3. \A s \in slotLapsed : s \in Slot /\ holder[s] \in Owner
  BY DEF TypeOK, Leases, Held
<1>4. \A s \in slotLapsed' : s \in Slot /\ holder'[s] \in Owner
  <2>1. ASSUME NEW s \in slotLapsed
        PROVE  s \in Slot /\ holder'[s] = holder[s]
    <3>1. a \notin Owner /\ holder[s] # a
      BY <1>3, Marks
    <3> QED
      BY <1>2, <1>3, <3>1
  <2> QED
    BY <1>3, <2>1
<1>5. \A b \in Attempt : attemptStatus'[b] = "failed" =>
         \/ attemptStatus[b] = "failed"
         \/ b = a /\ ended = "failed"
  BY DEF AttemptsEnded
<1>6. a[2] = attemptCount[a[1]]
  BY AttemptPair DEF Current
<1>7. \A b \in Attempt : attemptStatus'[b] = "failed" =>
         \/ attemptStatus[b] = "failed"
         \/ /\ b[1] \in J /\ b[2] = attemptCount[b[1]]
            /\ jobStatus'[b[1]] = "pending" => FailuresAllow(b)
  BY <1>5, <1>6
<1> QED
  BY <1>1, <1>2, <1>4, <1>7 DEF Gives

LEMMA WorkerGives ==
    ASSUME TypeOK, StageInv, Leases, WorkerStep
    PROVE  \E J : Gives(J)
<1> USE DEF jobVars, leaseVars
<1>0. \A s \in slotLapsed : s \in Slot /\ holder[s] \in Owner
  BY DEF TypeOK, Leases, Held
<1>1. ASSUME NEW a \in Attempt, NEW s,
             \/ HeartbeatJob(a) \/ RecordExternalProcess(a) \/ ClearExternalProcess(a)
             \/ RecordExternalSession(a, s)
      PROVE  Gives({})
  <2>1. UNCHANGED <<jobStatus, role, needs, attemptCount, attemptStatus, holder, slotLapsed>>
    BY <1>1 DEF HeartbeatJob, RecordExternalProcess, ClearExternalProcess, RecordExternalSession
  <2> QED
    BY <1>0, <2>1, NothingGiven
<1>2. \A a \in Attempt : LiveLease(a) =>
         a[1] \in Job /\ jobStatus[a[1]] = "running" /\ a = Current(a[1])
  BY AttemptPair DEF LiveLease, Current
<1>3. ASSUME NEW a \in Attempt, LiveLease(a), NEW next \in {"pending", "failed"},
             NEW ended \in {"failed", "interrupted"}, EndAttempt(a, ended, next),
             ended = "failed" /\ next = "pending" => FailuresAllow(a)
      PROVE  Gives({a[1]})
  <2>1. /\ jobStatus'[a[1]] = next
        /\ \A j \in Job : j # a[1] => jobStatus'[j] = jobStatus[j]
        /\ attemptStatus' = AttemptsEnded({a[1]}, ended)
        /\ holder' = SlotsFreed({a[1]})
        /\ UNCHANGED <<role, needs, attemptCount, slotLapsed>>
    BY <1>2, <1>3 DEF EndAttempt, JobsSet
  <2> QED
    BY <1>2, <1>3, <2>1, OneGives
<1>4. ASSUME NEW a \in Attempt, InterruptJob(a) \/ CompleteOperatorInterrupt(a)
      PROVE  Gives({a[1]})
  BY <1>3, <1>4 DEF InterruptJob, CompleteOperatorInterrupt, MayEnd, MayComplete
<1>5. ASSUME NEW a \in Attempt, NEW requeue \in BOOLEAN, FailJob(a, requeue)
      PROVE  Gives({a[1]})
  <2>1. PICK next \in {"pending", "failed"} :
           EndAttempt(a, "failed", next) /\ (next = "pending" => FailuresAllow(a))
    BY <1>5 DEF FailJob
  <2>2. LiveLease(a)
    BY <1>5 DEF FailJob, MayEnd
  <2> QED
    BY <1>3, <2>1, <2>2
<1>6. ASSUME NEW a \in Attempt, NEW next \in ItemStates, NEW resources \in SUBSET Resource,
             CommitStageResult(a, next, resources)
      PROVE  Gives({a[1]})
  <2> DEFINE js == JobsSet({a[1]}, "completed")
             i == ItemOf(a[1])
  <2>1. /\ a[1] \in Job /\ jobStatus[a[1]] = "running" /\ a = Current(a[1]) /\ i \in Item
    BY <1>2, <1>6, JobItem DEF CommitStageResult, MayCommit
  <2>2. /\ attemptStatus' = AttemptsEnded({a[1]}, "succeeded")
        /\ holder' = SlotsFreed({a[1]})
        /\ UNCHANGED <<attemptCount, slotLapsed>>
    BY <1>6 DEF CommitStageResult
  <2>3. \/ jobStatus' = js /\ UNCHANGED <<role, needs>>
        \/ \E r \in Successor(next), st \in Stage :
              jobCount[i] < MaxJobs /\ AddJob(i, r, st, resources, js)
    BY <1>6 DEF CommitStageResult
  <2>4. /\ js \in [Job -> JobStates] /\ js[a[1]] = "completed"
        /\ \A j \in Job : j # a[1] => js[j] = jobStatus[j]
    BY <2>1 DEF JobsSet, TypeOK, JobStates
  <2> HIDE DEF js, i
  <2>5. /\ \A j \in Job : \/ jobStatus'[j] = js[j]
                          \/ jobStatus[j] = "absent" /\ jobStatus'[j] = "pending"
        /\ \A j \in Job : jobStatus[j] # "absent" =>
              jobStatus'[j] = js[j] /\ needs'[j] = needs[j] /\ role'[j] = role[j]
    BY <2>1, <2>3, <2>4, NewRow
  <2>6. /\ jobStatus'[a[1]] # "running"
        /\ \A j \in Job : j # a[1] => \/ jobStatus'[j] = jobStatus[j]
                                      \/ jobStatus[j] = "absent" /\ jobStatus'[j] = "pending"
        /\ \A j \in Job : jobStatus[j] # "absent" => needs'[j] = needs[j] /\ role'[j] = role[j]
    BY <2>1, <2>4, <2>5
  <2> QED
    BY <2>1, <2>2, <2>6, OneGives
<1> QED
  BY <1>1, <1>4, <1>5, <1>6 DEF WorkerStep

LEMMA ReconcilerGives ==
    ASSUME TypeOK, StageInv, Leases, ReconcilerStep
    PROVE  \E J : Gives(J)
<1> USE DEF jobVars, leaseVars
<1>1. ASSUME NEW w \in Reconciler, NEW a \in Attempt, ResolveProcess(w, a)
      PROVE  Gives({a[1]})
  <2>1. a[1] \in Job /\ jobStatus[a[1]] = "running" /\ a = Current(a[1])
    BY <1>1, AttemptPair DEF ResolveProcess, ReconciliationHeld
  <2>2. /\ jobStatus'[a[1]] = "pending"
        /\ \A j \in Job : j # a[1] => jobStatus'[j] = jobStatus[j]
        /\ attemptStatus' = AttemptsEnded({a[1]}, "expired")
        /\ holder' = SlotsFreed({a[1]})
        /\ UNCHANGED <<role, needs, attemptCount, slotLapsed>>
    BY <1>1, <2>1 DEF ResolveProcess, JobsSet
  <2> QED
    BY <2>1, <2>2, OneGives
<1>2. ASSUME NEW w, NEW a, NEW retry,
             \/ ClaimReconciliation(w, a, retry) \/ QuarantineProcess(w, a)
             \/ ReconciliationLapses(a)
      PROVE  Gives({})
  <2>1. UNCHANGED <<jobStatus, role, needs, attemptCount, attemptStatus, holder, slotLapsed>>
    BY <1>2 DEF ClaimReconciliation, QuarantineProcess, ReconciliationLapses
  <2>2. \A s \in slotLapsed : s \in Slot /\ holder[s] \in Owner
    BY DEF TypeOK, Leases, Held
  <2> QED
    BY <2>1, <2>2, NothingGiven
<1> QED
  BY <1>1, <1>2 DEF ReconcilerStep

\* Standalone leases come and go among themselves: an expired one belongs to no job.
LEMMA ResourceGives ==
    ASSUME TypeOK, StageInv, Leases, ResourceStep
    PROVE  Gives({})
<1> PICK r \in Resource \ Registered :
       \/ \E o \in Owner : AcquireResource(r, o) \/ HeartbeatResource(r, o) \/ ReleaseResource(r, o)
       \/ ResourceLapses(r)
  BY DEF ResourceStep
<1> DEFINE s == <<r, 1>>
<1>1. s \in Slot
  BY LimitAssumption DEF Slot
<1>2. holder \in [Slot -> Attempt \cup Owner \cup {Free}] /\ slotLapsed \subseteq Slot
  BY DEF TypeOK
<1>3. \A t \in slotLapsed : t \in Slot /\ holder[t] \in Owner
  BY DEF TypeOK, Leases, Held
<1>4. UNCHANGED <<jobStatus, role, needs, attemptCount, attemptStatus>>
  BY DEF AcquireResource, HeartbeatResource, ReleaseResource, ResourceLapses, jobVars
<1>5. \/ \E o \in Owner : /\ holder[s] = Free \/ s \in slotLapsed
                          /\ holder' = [holder EXCEPT ![s] = o]
                          /\ slotLapsed' = slotLapsed \ {s}
      \/ holder' = holder /\ slotLapsed' = slotLapsed \ {s}
      \/ /\ holder[s] \in Owner
         /\ holder' = [holder EXCEPT ![s] = Free]
         /\ slotLapsed' = slotLapsed \ {s}
      \/ /\ holder[s] \in Owner /\ holder' = holder
         /\ slotLapsed' = slotLapsed \cup {s}
  BY DEF AcquireResource, HeartbeatResource, ReleaseResource, ResourceLapses, Takeable
<1> HIDE DEF s
<1>6. \A t \in Slot : \/ holder'[t] = holder[t]
                      \/ {holder[t], holder'[t]} \subseteq Owner \cup {Free}
  BY <1>1, <1>2, <1>3, <1>5
<1>7. \A t \in slotLapsed' : t \in Slot /\ holder'[t] \in Owner
  BY <1>1, <1>2, <1>3, <1>5
<1> QED
  BY <1>4, <1>6, <1>7, NothingGiven

-----------------------------------------------------------------------------
(* The theorems. *)

LEMMA UseInit == Init => UseInv
<1> SUFFICES ASSUME Init PROVE UseInv
  OBVIOUS
<1>1. Leases
  BY Marks DEF Init, Leases, Held
<1>2. Running = {} /\ \A r \in Role : {j \in Running : role[j] = r} = {}
  BY DEF Init, Running
<1>3. IsFiniteSet(Running) /\ ConcurrencyLimits
  BY <1>2, FS_EmptySet, BoundAssumption DEF ConcurrencyLimits, Running
<1>4. FailureBudget
  BY DEF Init, FailureBudget, OpenJob
<1> QED
  BY <1>1, <1>3, <1>4 DEF UseInv

LEMMA UseStep == TypeOK /\ StageInv /\ UseInv /\ [Next]_vars => UseInv'
<1> SUFFICES ASSUME TypeOK, StageInv, UseInv, [Next]_vars PROVE UseInv'
  OBVIOUS
<1>0. Leases
  BY DEF UseInv
<1>1. CASE \E j \in Job : ClaimJob(j)
  BY <1>1, ClaimKeeps
<1>2. CASE ~ \E j \in Job : ClaimJob(j)
  <2>0. \A s \in slotLapsed : s \in Slot /\ holder[s] \in Owner
    BY <1>0 DEF TypeOK, Leases, Held
  <2>1. CASE ItemStep
    BY <1>0, <2>1, ItemGives, GivesKeep
  <2>2. CASE QueueStep
    <3>1. CASE RecoverExpiredLeases
      BY <1>0, <3>1, RecoveryGives, GivesKeep
    <3>2. ASSUME NEW j \in Job, LeaseLapses(j)
          PROVE  Gives({})
      BY <1>0, <2>0, <3>2, NothingGiven DEF LeaseLapses, leaseVars
    <3> QED
      BY <1>2, <2>2, <3>1, <3>2, GivesKeep DEF QueueStep
  <2>3. CASE WorkerStep
    BY <1>0, <2>3, WorkerGives, GivesKeep
  <2>4. CASE OperatorStep
    <3>1. UNCHANGED <<jobStatus, role, needs, attemptCount, attemptStatus, holder, slotLapsed>>
      BY <2>4 DEF OperatorStep, RequestJobInterrupt, RequestJobResume, jobVars, leaseVars
    <3>2. Gives({})
      BY <1>0, <2>0, <3>1, NothingGiven
    <3> QED
      BY <3>2, GivesKeep
  <2>5. CASE ReconcilerStep
    BY <1>0, <2>5, ReconcilerGives, GivesKeep
  <2>6. CASE ResourceStep
    BY <1>0, <2>6, ResourceGives, GivesKeep
  <2>7. CASE UNCHANGED vars
    <3>1. Gives({})
      BY <1>0, <2>0, <2>7, NothingGiven DEF vars, jobVars, leaseVars
    <3> QED
      BY <3>1, GivesKeep
  <2> QED
    BY <2>1, <2>2, <2>3, <2>4, <2>5, <2>6, <2>7 DEF Next
<1> QED
  BY <1>1, <1>2

\* What the running jobs use up is accounted for in every reachable state.
THEOREM UseInvariant == Spec => []UseInv
  BY UseInit, UseStep, TypeCorrect, StageCorrect, PTL DEF Spec

\* The leases of a job in the words of the property.
LEMMA LeasesFollow ==
    ASSUME TypeOK, StageInv, Leases
    PROVE  ResourcesFollowJob
<1>1. ASSUME NEW j \in Job, jobStatus[j] = "running"
      PROVE  FenceExact(j)
  <2>1. Current(j) \in Attempt
    BY <1>1, CurrentRow
  <2>2. \A n \in AttemptNo : <<j, n>> \in Attempt /\ <<j, n>>[1] = j /\ <<j, n>>[2] = n
    BY DEF Attempt
  <2>3. \A s \in Slot, n \in AttemptNo :
           holder[s] = <<j, n>> => n = attemptCount[j] /\ s[1] \in needs[j]
    BY <2>2 DEF Leases, Held
  <2>4. \A r \in needs[j] : \E s \in Slot : s[1] = r /\ holder[s] = Current(j)
    BY <1>1 DEF Leases, Held, Current
  <2>5. \A s, t \in Slot :
           holder[s] = Current(j) /\ holder[t] = Current(j) /\ s[1] = t[1] => s = t
    BY <2>1 DEF Leases, Held
  <2> QED
    BY <2>3, <2>4, <2>5 DEF FenceExact
<1>2. \A s \in Slot, a \in Attempt :
         holder[s] = a => jobStatus[a[1]] = "running" /\ a = Current(a[1])
  BY AttemptPair DEF Leases, Held, Current
<1> QED
  BY <1>1, <1>2 DEF ResourcesFollowJob, Leases, Held

\* No lease outlives its attempt and none is lost before it ends.
THEOREM ResourcesFollowJobAlways == Spec => []ResourcesFollowJob
<1>1. TypeOK /\ StageInv /\ UseInv => ResourcesFollowJob
  BY LeasesFollow DEF UseInv
<1> QED
  BY <1>1, TypeCorrect, StageCorrect, UseInvariant, PTL

\* Recovery, and with it every claim, never meets a lapsed job it must refuse.
THEOREM RecoveryNeverBlockedAlways == Spec => []RecoveryNeverBlocked
<1>1. ASSUME TypeOK, StageInv, UseInv
      PROVE  RecoveryNeverBlocked
  <2> USE <1>1
  <2>1. \A j \in Recovered : j \in Job /\ jobStatus[j] = "running"
    BY DEF Recovered, StageInv, TypeOK
  <2>2. \A j \in Recovered : FenceExact(j)
    BY <2>1, LeasesFollow DEF UseInv, ResourcesFollowJob
  <2>3. \A j \in Recovered : InStage(j) /\ attemptStatus[Current(j)] = "running"
    BY <2>1, CurrentRow DEF StageInv, Agree, InStage, ItemOf
  <2>4. \A j, k \in Recovered : ItemOf(j) = ItemOf(k) => j = k
    BY <2>1 DEF StageInv, Agree, ItemOf
  <2> QED
    BY <2>2, <2>3, <2>4 DEF RecoveryNeverBlocked, RecoveryPossible, Expirable
<1> QED
  BY <1>1, TypeCorrect, StageCorrect, UseInvariant, PTL

\* No claim exceeds the limits of the campaign, the recovery inside it included.
THEOREM ConcurrencyLimitsAlways == Spec => []ConcurrencyLimits
<1>1. UseInv => ConcurrencyLimits
  BY DEF UseInv
<1> QED
  BY <1>1, UseInvariant, PTL

\* A job that may run again has failed fewer than max_attempts times.
THEOREM FailureBudgetAlways == Spec => []FailureBudget
<1>1. UseInv => FailureBudget
  BY DEF UseInv
<1> QED
  BY <1>1, UseInvariant, PTL
=============================================================================
