--------------------------- MODULE JobStoreProofs ---------------------------
(***************************************************************************)
(* Theorems about the durable queue, for any items, resources, limits,     *)
(* sessions, reconcilers and bounds.                                       *)
(*                                                                         *)
(* The tables first: their types, and how jobs, attempts and items agree   *)
(* (StageInv).  Then what hangs on an attempt: its process, its            *)
(* reconciler, its provider session and the operator's requests            *)
(* (ControlInv).  The argument for those: a step ends the attempts of some *)
(* running jobs (Ends), or claims a job after recovery has ended some      *)
(* (Takes), or leaves jobs and attempts alone (Keeps).  An attempt ends    *)
(* only with its process resolved, and nothing but the attempt's own life  *)
(* carries a request or a session from one state to the next.              *)
(***************************************************************************)
EXTENDS JobStoreProperties, TLAPS, WellFoundedInduction

-----------------------------------------------------------------------------
(* The helpers that describe the end of attempts are well typed. *)

\* A row that a job or an attempt names is one of the table.
LEMMA AttemptPair ==
    ASSUME NEW a \in Attempt
    PROVE  a[1] \in Job /\ a[2] \in AttemptNo /\ a = <<a[1], a[2]>>
  BY DEF Attempt

\* Every job belongs to an item.
LEMMA JobItem ==
    ASSUME NEW j \in Job
    PROVE  ItemOf(j) \in Item
  BY DEF Job, ItemOf

\* The stages queue from and work in states of an item.
LEMMA StageStates ==
    ASSUME NEW r \in Role
    PROVE  QueuedState[r] \in ItemStates /\ ActiveState[r] \in ItemStates
  BY DEF Role, QueuedState, ActiveState, ItemStates

\* What ending the attempts of some jobs writes is well typed.
LEMMA EndTypes ==
    ASSUME TypeOK, NEW S \in SUBSET Job,
           NEW js \in JobStates, NEW as \in AttemptStates
    PROVE  /\ JobsSet(S, js) \in [Job -> JobStates]
           /\ AttemptsEnded(S, as) \in [Attempt -> AttemptStates]
           /\ SlotsFreed(S) \in [Slot -> Attempt \cup Owner \cup {Free}]
           /\ ItemsRequeued(S) \in [Item -> ItemStates]
           /\ InterruptsDropped(S) \in [Job -> 0..MaxClaims]
           /\ InterruptSessionsDropped(S) \in [Job -> Session \cup {NoSession}]
<1>1. JobsSet(S, js) \in [Job -> JobStates]
  BY DEF JobsSet, TypeOK
<1>2. AttemptsEnded(S, as) \in [Attempt -> AttemptStates]
  BY DEF AttemptsEnded, TypeOK
<1>3. SlotsFreed(S) \in [Slot -> Attempt \cup Owner \cup {Free}]
  BY DEF SlotsFreed, TypeOK
<1>4. ItemsRequeued(S) \in [Item -> ItemStates]
  <2> SUFFICES ASSUME NEW i \in Item, NEW k \in S, ItemOf(k) = i
               PROVE  QueuedState[role[CHOOSE j \in S : ItemOf(j) = i]] \in ItemStates
    BY DEF ItemsRequeued, TypeOK
  <2>1. (CHOOSE j \in S : ItemOf(j) = i) \in S
    OBVIOUS
  <2>2. role[CHOOSE j \in S : ItemOf(j) = i] \in Role
    BY <2>1 DEF TypeOK
  <2> QED
    BY <2>2, StageStates
<1>5. InterruptsDropped(S) \in [Job -> 0..MaxClaims]
  BY BoundAssumption DEF InterruptsDropped, TypeOK
<1>6. InterruptSessionsDropped(S) \in [Job -> Session \cup {NoSession}]
  BY DEF InterruptSessionsDropped, TypeOK
<1> QED
  BY <1>1, <1>2, <1>3, <1>4, <1>5, <1>6

\* Recovery chooses among the jobs.
LEMMA RecoveredType ==
    ASSUME TypeOK
    PROVE  /\ Recovered \in SUBSET Job
           /\ HoldersAfterRecovery \in [Slot -> Attempt \cup Owner \cup {Free}]
<1>1. Recovered \in SUBSET Job
  BY DEF Recovered, TypeOK
<1>2. SlotsFreed(Recovered) \in [Slot -> Attempt \cup Owner \cup {Free}]
  BY <1>1, EndTypes DEF JobStates, AttemptStates
<1> QED
  BY <1>1, <1>2 DEF HoldersAfterRecovery, TypeOK

\* Inserting a job row keeps the tables well typed.
LEMMA AddJobTypes ==
    ASSUME TypeOK, NEW i \in Item, NEW r \in Role, NEW st \in Stage,
           NEW resources \in SUBSET Resource,
           NEW status \in [Job -> JobStates],
           jobCount[i] < MaxJobs, AddJob(i, r, st, resources, status)
    PROVE  /\ jobCount' \in [Item -> 0..MaxJobs]
           /\ jobStatus' \in [Job -> JobStates]
           /\ role' \in [Job -> Role]
           /\ stage' \in [Job -> Stage]
           /\ needs' \in [Job -> SUBSET Resource]
<1>1. jobCount[i] + 1 \in 0..MaxJobs
  BY BoundAssumption DEF TypeOK
<1>2. "pending" \in JobStates
  BY DEF JobStates
<1> QED
  BY <1>1, <1>2 DEF AddJob, TypeOK

-----------------------------------------------------------------------------
(* Type correctness. *)

\* The initial tables are well typed.
LEMMA TypeInit == Init => TypeOK
<1> SUFFICES ASSUME Init PROVE TypeOK
  OBVIOUS
<1>1. (CHOOSE st \in Stage : TRUE) \in Stage
  BY BoundAssumption
<1>2. 0 \in 0..MaxJobs /\ 0 \in 0..MaxClaims
  BY BoundAssumption
<1> QED
  BY <1>1, <1>2 DEF Init, TypeOK, ItemStates, JobStates, Role, AttemptStates,
                    ProcessStates

\* Every step keeps the tables well typed.
LEMMA TypeNext == TypeOK /\ [Next]_vars => TypeOK'
<1> SUFFICES ASSUME TypeOK, [Next]_vars PROVE TypeOK'
  OBVIOUS
<1> USE DEF itemVars, jobVars, leaseVars, processVars, controlVars
<1>s. /\ {"pending", "running", "completed", "failed"} \subseteq JobStates
      /\ {"running", "succeeded", "failed", "expired", "interrupted"} \subseteq AttemptStates
      /\ {"active", "quarantined", "stopped"} \subseteq ProcessStates
      /\ "blocked" \in ItemStates
  BY DEF JobStates, AttemptStates, ProcessStates, ItemStates
<1>n. 0 \in 0..MaxClaims /\ AttemptNo \subseteq 0..MaxClaims
  BY BoundAssumption DEF AttemptNo
<1>1. ASSUME NEW i \in Item, NEW state \in CreatableStates, CreateWorkItem(i, state)
      PROVE  TypeOK'
  <2>1. state \in ItemStates
    BY DEF CreatableStates, ItemStates
  <2> QED
    BY <1>1, <2>1 DEF CreateWorkItem, TypeOK
<1>2. ASSUME NEW i \in Item, NEW r \in Role, NEW st \in Stage,
             NEW resources \in SUBSET Resource,
             CreateWorkItemWithJob(i, r, st, resources)
      PROVE  TypeOK'
  <2>1. jobCount[i] < MaxJobs /\ AddJob(i, r, st, resources, jobStatus)
    BY <1>2 DEF CreateWorkItemWithJob, Enqueueable
  <2>2. /\ jobCount' \in [Item -> 0..MaxJobs]
        /\ jobStatus' \in [Job -> JobStates]
        /\ role' \in [Job -> Role]
        /\ stage' \in [Job -> Stage]
        /\ needs' \in [Job -> SUBSET Resource]
    BY <2>1, AddJobTypes DEF TypeOK
  <2> QED
    BY <1>2, <2>2, StageStates DEF CreateWorkItemWithJob, TypeOK
<1>3. ASSUME NEW i \in Item, NEW r \in Role, NEW st \in Stage,
             NEW resources \in SUBSET Resource, EnqueueJob(i, r, st, resources)
      PROVE  TypeOK'
  <2>1. jobCount[i] < MaxJobs /\ AddJob(i, r, st, resources, jobStatus)
    BY <1>3 DEF EnqueueJob, Enqueueable
  <2>2. /\ jobCount' \in [Item -> 0..MaxJobs]
        /\ jobStatus' \in [Job -> JobStates]
        /\ role' \in [Job -> Role]
        /\ stage' \in [Job -> Stage]
        /\ needs' \in [Job -> SUBSET Resource]
    BY <2>1, AddJobTypes DEF TypeOK
  <2> QED
    BY <1>3, <2>2 DEF EnqueueJob, TypeOK
<1>4. ASSUME NEW i \in Item, ChangeBindings(i)
      PROVE  TypeOK'
  BY <1>4 DEF ChangeBindings, TypeOK
<1>5. ASSUME RecoverExpiredLeases
      PROVE  TypeOK'
  <2>1. Recovered \in SUBSET Job
    BY RecoveredType
  <2> QED
    BY <1>5, <1>s, <2>1, EndTypes, RecoveredType DEF RecoverExpiredLeases, TypeOK
<1>6. ASSUME NEW j \in Job, ClaimJob(j)
      PROVE  TypeOK'
  <2> DEFINE a == <<j, attemptCount[j] + 1>>
  <2>1. Recovered \in SUBSET Job /\ j \in Job
    BY RecoveredType
  <2>2. attemptCount[j] + 1 \in 0..MaxClaims /\ a \in Attempt
    BY <1>6, BoundAssumption DEF ClaimJob, Claimable, TypeOK, Attempt, AttemptNo
  <2>3. itemState' \in [Item -> ItemStates]
    <3>1. ItemsRequeued(Recovered) \in [Item -> ItemStates]
      BY <1>s, <2>1, EndTypes
    <3>2. ActiveState[role[j]] \in ItemStates
      BY StageStates DEF TypeOK
    <3> QED
      BY <1>6, <3>1, <3>2 DEF ClaimJob, Claimable
  <2>4. jobStatus' \in [Job -> JobStates]
    <3>1. JobsSet(Recovered, "pending") \in [Job -> JobStates]
      BY <1>s, <2>1, EndTypes
    <3> QED
      BY <1>6, <1>s, <3>1 DEF ClaimJob, Claimable
  <2>5. attemptStatus' \in [Attempt -> AttemptStates]
    <3>1. AttemptsEnded(Recovered, "expired") \in [Attempt -> AttemptStates]
      BY <1>s, <2>1, EndTypes
    <3> QED
      BY <1>6, <1>s, <3>1 DEF ClaimJob, Claimable
  <2>6. holder' \in [Slot -> Attempt \cup Owner \cup {Free}]
    <3>1. holder' = [s \in Slot |->
                       IF s[1] \in needs[j] /\ LowestFree(s, HoldersAfterRecovery)
                       THEN a ELSE HoldersAfterRecovery[s]]
      BY <1>6 DEF ClaimJob, Claimable
    <3> QED
      BY <2>2, <3>1, RecoveredType
  <2>7. /\ interruptAt' \in [Job -> 0..MaxClaims]
        /\ interruptSession' \in [Job -> Session \cup {NoSession}]
    BY <1>6, <1>s, <2>1, EndTypes DEF ClaimJob, Claimable
  <2>8. /\ resumedFrom' \in [Attempt -> 0..MaxClaims]
        /\ resumeFrom' \in [Job -> 0..MaxClaims]
        /\ attemptCount' \in [Job -> 0..MaxClaims]
    BY <1>6, <1>n, <2>2 DEF ClaimJob, Claimable, TypeOK
  <2> QED
    BY <1>6, <2>3, <2>4, <2>5, <2>6, <2>7, <2>8 DEF ClaimJob, Claimable, TypeOK
<1>7. ASSUME NEW j \in Job, LeaseLapses(j)
      PROVE  TypeOK'
  BY <1>7 DEF LeaseLapses, TypeOK
<1>8. ASSUME NEW a \in Attempt, HeartbeatJob(a)
      PROVE  TypeOK'
  BY <1>8 DEF HeartbeatJob, TypeOK
<1>9. ASSUME NEW a \in Attempt, NEW next \in ItemStates,
             NEW resources \in SUBSET Resource, CommitStageResult(a, next, resources)
      PROVE  TypeOK'
  <2>1. a[1] \in Job /\ {a[1]} \in SUBSET Job /\ ItemOf(a[1]) \in Item
    BY AttemptPair, JobItem
  <2>2. /\ AttemptsEnded({a[1]}, "succeeded") \in [Attempt -> AttemptStates]
        /\ SlotsFreed({a[1]}) \in [Slot -> Attempt \cup Owner \cup {Free}]
        /\ JobsSet({a[1]}, "completed") \in [Job -> JobStates]
    BY <1>s, <2>1, EndTypes
  <2>3. /\ jobCount' \in [Item -> 0..MaxJobs]
        /\ jobStatus' \in [Job -> JobStates]
        /\ role' \in [Job -> Role]
        /\ stage' \in [Job -> Stage]
        /\ needs' \in [Job -> SUBSET Resource]
    <3>1. CASE /\ jobStatus' = JobsSet({a[1]}, "completed")
               /\ UNCHANGED <<jobCount, role, stage, needs>>
      BY <2>2, <3>1 DEF TypeOK
    <3>2. ASSUME NEW r \in Successor(next), NEW st \in Stage,
                 jobCount[ItemOf(a[1])] < MaxJobs,
                 AddJob(ItemOf(a[1]), r, st, resources, JobsSet({a[1]}, "completed"))
          PROVE  /\ jobCount' \in [Item -> 0..MaxJobs]
                 /\ jobStatus' \in [Job -> JobStates]
                 /\ role' \in [Job -> Role]
                 /\ stage' \in [Job -> Stage]
                 /\ needs' \in [Job -> SUBSET Resource]
      <4>1. r \in Role
        BY <3>2 DEF Successor, Role
      <4> QED
        BY <2>1, <2>2, <3>2, <4>1, AddJobTypes
    <3> QED
      BY <1>9, <3>1, <3>2 DEF CommitStageResult, MayCommit
  <2> QED
    BY <1>9, <2>1, <2>2, <2>3 DEF CommitStageResult, MayCommit, TypeOK
<1>10. ASSUME NEW a \in Attempt, NEW ended \in AttemptStates, NEW next \in JobStates,
              EndAttempt(a, ended, next),
              itemState' \in [Item -> ItemStates],
              interruptAt' \in [Job -> 0..MaxClaims],
              interruptSession' \in [Job -> Session \cup {NoSession}]
       PROVE  TypeOK'
  <2>1. {a[1]} \in SUBSET Job
    BY AttemptPair
  <2>2. /\ AttemptsEnded({a[1]}, ended) \in [Attempt -> AttemptStates]
        /\ SlotsFreed({a[1]}) \in [Slot -> Attempt \cup Owner \cup {Free}]
        /\ JobsSet({a[1]}, next) \in [Job -> JobStates]
    BY <2>1, EndTypes
  <2> QED
    BY <1>10, <2>2 DEF EndAttempt, TypeOK
<1>11. ASSUME NEW a \in Attempt, NEW requeue \in BOOLEAN, FailJob(a, requeue)
       PROVE  TypeOK'
  <2>1. a[1] \in Job /\ role[a[1]] \in Role
    BY AttemptPair DEF TypeOK
  <2>2. itemState' \in [Item -> ItemStates]
    BY <1>11, <1>s, <2>1, StageStates DEF FailJob, MayEnd, AfterFailure, TypeOK
  <2>3. PICK next \in {"pending", "failed"} : EndAttempt(a, "failed", next)
    BY <1>11 DEF FailJob, MayEnd, AfterFailure
  <2>4. interruptAt' = interruptAt /\ interruptSession' = interruptSession
    BY <1>11 DEF FailJob, MayEnd, AfterFailure
  <2>5. next \in JobStates /\ "failed" \in AttemptStates
    BY <1>s
  <2> QED
    BY <1>10, <2>2, <2>3, <2>4, <2>5 DEF TypeOK
<1>12. ASSUME NEW a \in Attempt, InterruptJob(a)
       PROVE  TypeOK'
  <2>1. itemState' \in [Item -> ItemStates]
    BY <1>12, <1>s, AttemptPair, EndTypes DEF InterruptJob, MayEnd
  <2> QED
    BY <1>10, <1>12, <1>s, <2>1 DEF InterruptJob, MayEnd, TypeOK
<1>13. ASSUME NEW a \in Attempt, CompleteOperatorInterrupt(a)
       PROVE  TypeOK'
  <2>1. {a[1]} \in SUBSET Job
    BY AttemptPair
  <2>2. /\ itemState' \in [Item -> ItemStates]
        /\ interruptAt' \in [Job -> 0..MaxClaims]
        /\ interruptSession' \in [Job -> Session \cup {NoSession}]
    BY <1>13, <1>s, <2>1, EndTypes DEF CompleteOperatorInterrupt, MayComplete
  <2> QED
    BY <1>10, <1>13, <1>s, <2>2 DEF CompleteOperatorInterrupt, MayComplete
<1>14. ASSUME NEW a \in Attempt, RecordExternalProcess(a) \/ ClearExternalProcess(a)
       PROVE  TypeOK'
  BY <1>14, <1>s DEF RecordExternalProcess, ClearExternalProcess, TypeOK
<1>15. ASSUME NEW a \in Attempt, NEW s \in Session, RecordExternalSession(a, s)
       PROVE  TypeOK'
  BY <1>15 DEF RecordExternalSession, TypeOK
<1>16. ASSUME NEW a \in Attempt, RequestJobInterrupt(a)
       PROVE  TypeOK'
  BY <1>16, <1>n, AttemptPair DEF RequestJobInterrupt, TypeOK
<1>17. ASSUME NEW a \in Attempt, RequestJobResume(a)
       PROVE  TypeOK'
  BY <1>17, <1>n, AttemptPair DEF RequestJobResume, TypeOK
<1>18. ASSUME NEW w \in Reconciler, NEW a \in Attempt, NEW retry \in BOOLEAN,
              ClaimReconciliation(w, a, retry)
       PROVE  TypeOK'
  BY <1>18 DEF ClaimReconciliation, TypeOK
<1>19. ASSUME NEW w \in Reconciler, NEW a \in Attempt, QuarantineProcess(w, a)
       PROVE  TypeOK'
  BY <1>19, <1>s DEF QuarantineProcess, TypeOK
<1>20. ASSUME NEW w \in Reconciler, NEW a \in Attempt, ResolveProcess(w, a)
       PROVE  TypeOK'
  <2>1. {a[1]} \in SUBSET Job
    BY AttemptPair
  <2>2. /\ AttemptsEnded({a[1]}, "expired") \in [Attempt -> AttemptStates]
        /\ SlotsFreed({a[1]}) \in [Slot -> Attempt \cup Owner \cup {Free}]
        /\ JobsSet({a[1]}, "pending") \in [Job -> JobStates]
        /\ ItemsRequeued({a[1]}) \in [Item -> ItemStates]
        /\ InterruptsDropped({a[1]}) \in [Job -> 0..MaxClaims]
        /\ InterruptSessionsDropped({a[1]}) \in [Job -> Session \cup {NoSession}]
    BY <1>s, <2>1, EndTypes
  <2> QED
    BY <1>20, <1>s, <2>2 DEF ResolveProcess, TypeOK
<1>21. ASSUME NEW a \in Attempt, ReconciliationLapses(a)
       PROVE  TypeOK'
  BY <1>21 DEF ReconciliationLapses, TypeOK
<1>22. ASSUME NEW r \in Resource \ Registered, NEW o \in Owner,
              \/ AcquireResource(r, o)
              \/ HeartbeatResource(r, o)
              \/ ReleaseResource(r, o)
       PROVE  TypeOK'
  BY <1>22 DEF AcquireResource, HeartbeatResource, ReleaseResource, TypeOK
<1>23. ASSUME NEW r \in Resource \ Registered, ResourceLapses(r)
       PROVE  TypeOK'
  <2>1. r \in Resource /\ Limit[r] = 1
    BY LimitAssumption
  <2>2. <<r, 1>> \in Slot
    BY <2>1, LimitAssumption DEF Slot
  <2> QED
    BY <1>23, <2>2 DEF ResourceLapses, TypeOK
<1>24. CASE UNCHANGED vars
  BY <1>24 DEF vars, TypeOK
<1>25. CASE ItemStep
  BY <1>1, <1>2, <1>3, <1>4, <1>25 DEF ItemStep
<1>26. CASE QueueStep
  BY <1>5, <1>6, <1>7, <1>26 DEF QueueStep
<1>27. CASE WorkerStep
  BY <1>8, <1>9, <1>11, <1>12, <1>13, <1>14, <1>15, <1>27 DEF WorkerStep
<1>28. CASE OperatorStep
  BY <1>16, <1>17, <1>28 DEF OperatorStep
<1>29. CASE ReconcilerStep
  BY <1>18, <1>19, <1>20, <1>21, <1>29 DEF ReconcilerStep
<1>30. CASE ResourceStep
  BY <1>22, <1>23, <1>30 DEF ResourceStep
<1> QED
  BY <1>24, <1>25, <1>26, <1>27, <1>28, <1>29, <1>30 DEF Next

\* The tables of the store stay well typed whatever its callers do, in
\* particular no claim, commit or recovery writes a row that names no attempt.
THEOREM TypeCorrect == Spec => []TypeOK
  BY TypeInit, TypeNext, PTL DEF Spec

-----------------------------------------------------------------------------
(* Items, jobs and attempts agree. *)

\* The agreement of the tables work_items (is), jobs (js, rl, ac; jc counts its
\* rows) and attempts (as).  It speaks of tables, not of variables, so that it
\* can be stated of what recovery leaves in the middle of a claim.
Agree(is, jc, js, rl, ac, as) ==
    /\ \A j \in Job : js[j] = "absent" <=> j[2] > jc[j[1]]
    /\ \A j \in Job : js[j] = "absent" => ac[j] = 0
    /\ \A i \in Item : is[i] = "absent" => jc[i] = 0
    /\ \A j \in Job : js[j] = "running" => ac[j] > 0
    /\ \A j \in Job : js[j] = "running" => is[j[1]] = ActiveState[rl[j]]
    /\ \A i \in Item, r \in Role :
          is[i] = ActiveState[r] => \E j \in Job : j[1] = i /\ js[j] = "running"
    /\ \A j, k \in Job :
          js[j] = "running" /\ js[k] = "running" /\ j[1] = k[1] => j = k
    /\ \A a \in Attempt :
          /\ as[a] = "none" <=> a[2] > ac[a[1]]
          /\ as[a] = "running" <=> js[a[1]] = "running" /\ a[2] = ac[a[1]]
          /\ as[a] = "succeeded" <=> js[a[1]] = "completed" /\ a[2] = ac[a[1]]

StageInv ==
    /\ Agree(itemState, jobCount, jobStatus, role, attemptCount, attemptStatus)
    /\ \A j \in lapsed : jobStatus[j] = "running"

\* The work states of an item are never ones it can be created, queued or left in.
LEMMA ActiveApart ==
    ASSUME NEW r \in Role
    PROVE  /\ ActiveState[r] \notin CreatableStates
           /\ ActiveState[r] # "absent"
           /\ \A q \in Role : ActiveState[r] # QueuedState[q]
           /\ \A q \in Role : ActiveState[r] \notin NextStates[q]
           /\ \A q \in Role : QueuedState[q] # "absent"
           /\ \A q \in Role : "absent" \notin NextStates[q]
           /\ \A q \in Role : ActiveState[q] = ActiveState[r] => q = r
  BY DEF Role, ActiveState, QueuedState, NextStates, CreatableStates

\* Two rows with the same item and number are the same job; likewise attempts.
LEMMA SameRow ==
    /\ \A j, k \in Job : j[1] = k[1] /\ j[2] = k[2] => j = k
    /\ \A a, b \in Attempt : a[1] = b[1] /\ a[2] = b[2] => a = b
    /\ \A a \in Attempt, j \in Job : a = Current(j) <=> a[1] = j /\ a[2] = attemptCount[j]
    /\ \A j \in Job : j[1] \in Item /\ j[2] \in 1..MaxJobs /\ j = <<j[1], j[2]>>
  BY DEF Job, Attempt, Current

\* Ending the attempts of running jobs, with their items moved out of their work
\* states, keeps the tables in agreement.
LEMMA EndAgrees ==
    ASSUME TypeOK, StageInv,
           NEW S \in SUBSET Job, \A j \in S : jobStatus[j] = "running",
           NEW is \in [Item -> ItemStates],
           \A i \in Item :
              IF \E j \in S : j[1] = i
              THEN is[i] # "absent" /\ \A r \in Role : is[i] # ActiveState[r]
              ELSE is[i] = itemState[i],
           NEW next \in {"pending", "failed", "completed"},
           NEW ended \in {"succeeded", "failed", "expired", "interrupted"},
           ended = "succeeded" <=> next = "completed"
    PROVE  Agree(is, jobCount, JobsSet(S, next), role, attemptCount,
                 AttemptsEnded(S, ended))
<1> DEFINE js == JobsSet(S, next)
           as == AttemptsEnded(S, ended)
<1>1. \A j \in Job : js[j] = IF j \in S THEN next ELSE jobStatus[j]
  BY DEF JobsSet
<1>2. ASSUME NEW a \in Attempt
      PROVE  as[a] = IF a[1] \in S /\ a[2] = attemptCount[a[1]]
                     THEN ended ELSE attemptStatus[a]
  <2>1. a[1] \in S => (a = Current(a[1]) <=> a[2] = attemptCount[a[1]])
    BY SameRow, AttemptPair
  <2>2. a[1] \in S /\ a[2] = attemptCount[a[1]] => attemptStatus[a] = "running"
    BY AttemptPair DEF StageInv, Agree
  <2> QED
    BY <2>1, <2>2 DEF AttemptsEnded
<1> HIDE DEF js, as
<1>3. \A j \in Job : js[j] = "absent" <=> j[2] > jobCount[j[1]]
  BY <1>1 DEF StageInv, Agree
<1>4. \A j \in Job : js[j] = "absent" => attemptCount[j] = 0
  BY <1>1 DEF StageInv, Agree
<1>5. \A i \in Item : is[i] = "absent" => jobCount[i] = 0
  BY DEF StageInv, Agree
<1>6. \A j \in Job : js[j] = "running" => attemptCount[j] > 0
  BY <1>1 DEF StageInv, Agree
<1>7. ASSUME NEW j \in Job, js[j] = "running"
      PROVE  is[j[1]] = ActiveState[role[j]]
  <2>1. j \notin S /\ jobStatus[j] = "running" /\ j[1] \in Item
    BY <1>1, <1>7, SameRow
  <2>2. ~ \E k \in S : k[1] = j[1]
    BY <2>1 DEF StageInv, Agree
  <2> QED
    BY <2>1, <2>2 DEF StageInv, Agree
<1>8. ASSUME NEW i \in Item, NEW r \in Role, is[i] = ActiveState[r]
      PROVE  \E j \in Job : j[1] = i /\ js[j] = "running"
  <2>1. (~ \E j \in S : j[1] = i) /\ itemState[i] = ActiveState[r]
    BY <1>8
  <2>2. PICK j \in Job : j[1] = i /\ jobStatus[j] = "running"
    BY <2>1 DEF StageInv, Agree
  <2> QED
    BY <1>1, <2>1, <2>2
<1>9. \A j, k \in Job :
         js[j] = "running" /\ js[k] = "running" /\ j[1] = k[1] => j = k
  BY <1>1 DEF StageInv, Agree
<1>10. ASSUME NEW a \in Attempt
       PROVE  /\ as[a] = "none" <=> a[2] > attemptCount[a[1]]
              /\ as[a] = "running" <=> js[a[1]] = "running" /\ a[2] = attemptCount[a[1]]
              /\ as[a] = "succeeded" <=>
                    js[a[1]] = "completed" /\ a[2] = attemptCount[a[1]]
  <2>1. a[1] \in Job /\ a[2] \in Nat /\ attemptCount[a[1]] \in Nat
    BY AttemptPair, BoundAssumption DEF TypeOK, AttemptNo
  <2>2. /\ attemptStatus[a] = "none" <=> a[2] > attemptCount[a[1]]
        /\ attemptStatus[a] = "running" <=>
              jobStatus[a[1]] = "running" /\ a[2] = attemptCount[a[1]]
        /\ attemptStatus[a] = "succeeded" <=>
              jobStatus[a[1]] = "completed" /\ a[2] = attemptCount[a[1]]
    BY DEF StageInv, Agree
  <2>3. CASE a[1] \in S /\ a[2] = attemptCount[a[1]]
    <3>1. as[a] = ended /\ js[a[1]] = next
      BY <1>1, <1>2, <2>1, <2>3
    <3>2. ~ (a[2] > attemptCount[a[1]])
      BY <2>1, <2>3
    <3> QED
      BY <2>3, <3>1, <3>2
  <2>4. CASE a[1] \in S /\ a[2] # attemptCount[a[1]]
    <3>1. as[a] = attemptStatus[a] /\ js[a[1]] = next
      BY <1>1, <1>2, <2>1, <2>4
    <3> QED
      BY <2>2, <2>4, <3>1
  <2>5. CASE a[1] \notin S
    <3>1. as[a] = attemptStatus[a] /\ js[a[1]] = jobStatus[a[1]]
      BY <1>1, <1>2, <2>1, <2>5
    <3> QED
      BY <2>2, <3>1
  <2> QED
    BY <2>3, <2>4, <2>5
<1> QED
  BY <1>3, <1>4, <1>5, <1>6, <1>7, <1>8, <1>9, <1>10 DEF Agree, js, as

\* Inserting a pending job of a known item keeps the tables in agreement.
LEMMA AddAgrees ==
    ASSUME NEW is \in [Item -> ItemStates], NEW jc \in [Item -> 0..MaxJobs],
           NEW js \in [Job -> JobStates], NEW rl \in [Job -> Role],
           NEW ac \in [Job -> 0..MaxClaims], NEW as \in [Attempt -> AttemptStates],
           Agree(is, jc, js, rl, ac, as),
           NEW i \in Item, NEW r \in Role, is[i] # "absent", jc[i] < MaxJobs
    PROVE  Agree(is, [jc EXCEPT ![i] = @ + 1], [js EXCEPT ![<<i, jc[i] + 1>>] = "pending"],
                 [rl EXCEPT ![<<i, jc[i] + 1>>] = r], ac, as)
<1> DEFINE new == <<i, jc[i] + 1>>
           jc1 == [jc EXCEPT ![i] = @ + 1]
           js1 == [js EXCEPT ![new] = "pending"]
           rl1 == [rl EXCEPT ![new] = r]
<1>1. \A k \in Item : jc[k] \in 0..MaxJobs /\ jc[k] \in Nat
  BY BoundAssumption
<1>2. new \in Job /\ new[1] = i /\ new[2] = jc[i] + 1
  BY <1>1, BoundAssumption DEF Job
<1>3. js[new] = "absent" /\ ac[new] = 0
  BY <1>1, <1>2 DEF Agree
<1>4. \A j \in Job : j # new => js1[j] = js[j] /\ rl1[j] = rl[j]
  OBVIOUS
<1>5. js1[new] = "pending"
  BY <1>2
<1>6. \A k \in Item : jc1[k] = IF k = i THEN jc[k] + 1 ELSE jc[k]
  OBVIOUS
<1> HIDE DEF new, jc1, js1, rl1
<1>7. ASSUME NEW j \in Job
      PROVE  js1[j] = "absent" <=> j[2] > jc1[j[1]]
  <2>1. j[1] \in Item /\ j[2] \in Nat /\ jc[j[1]] \in Nat
    BY <1>1, SameRow, BoundAssumption
  <2>2. CASE j = new
    BY <1>2, <1>5, <1>6, <2>1, <2>2
  <2>3. CASE j # new
    <3>1. j[1] = i => j[2] # jc[i] + 1
      BY <1>2, <2>3, SameRow
    <3>2. js[j] = "absent" <=> j[2] > jc[j[1]]
      BY DEF Agree
    <3>3. j[2] > jc[j[1]] <=> j[2] > jc1[j[1]]
      BY <1>6, <2>1, <3>1
    <3> QED
      BY <1>4, <2>3, <3>2, <3>3
  <2> QED
    BY <2>2, <2>3
<1>8. \A j \in Job : js1[j] = "absent" => ac[j] = 0
  BY <1>4, <1>5 DEF Agree
<1>9. \A k \in Item : is[k] = "absent" => jc1[k] = 0
  BY <1>6 DEF Agree
<1>10. \A j \in Job : js1[j] = "running" => js[j] = "running" /\ rl1[j] = rl[j]
  BY <1>4, <1>5
<1>11. \A j \in Job : js[j] = "running" => js1[j] = "running"
  BY <1>3, <1>4
<1>12. \A j \in Job : js1[j] = "completed" <=> js[j] = "completed"
  BY <1>3, <1>4, <1>5
<1>13. \A j \in Job : js1[j] = "running" => ac[j] > 0 /\ is[j[1]] = ActiveState[rl1[j]]
  BY <1>10 DEF Agree
<1>14. \A k \in Item, q \in Role :
          is[k] = ActiveState[q] => \E j \in Job : j[1] = k /\ js1[j] = "running"
  BY <1>11 DEF Agree
<1>15. \A j, k \in Job :
          js1[j] = "running" /\ js1[k] = "running" /\ j[1] = k[1] => j = k
  BY <1>10 DEF Agree
<1>16. \A a \in Attempt :
          /\ as[a] = "none" <=> a[2] > ac[a[1]]
          /\ as[a] = "running" <=> js1[a[1]] = "running" /\ a[2] = ac[a[1]]
          /\ as[a] = "succeeded" <=> js1[a[1]] = "completed" /\ a[2] = ac[a[1]]
  BY <1>10, <1>11, <1>12, AttemptPair DEF Agree
<1> QED
  BY <1>7, <1>8, <1>9, <1>13, <1>14, <1>15, <1>16 DEF Agree, new, jc1, js1, rl1

\* Claiming a pending job whose item waits for it keeps the tables in agreement.
LEMMA ClaimAgrees ==
    ASSUME NEW is \in [Item -> ItemStates], NEW jc \in [Item -> 0..MaxJobs],
           NEW js \in [Job -> JobStates], NEW rl \in [Job -> Role],
           NEW ac \in [Job -> 0..MaxClaims], NEW as \in [Attempt -> AttemptStates],
           Agree(is, jc, js, rl, ac, as),
           NEW j \in Job, js[j] = "pending", is[j[1]] = QueuedState[rl[j]],
           ac[j] < MaxClaims
    PROVE  Agree([is EXCEPT ![j[1]] = ActiveState[rl[j]]], jc,
                 [js EXCEPT ![j] = "running"], rl, [ac EXCEPT ![j] = @ + 1],
                 [as EXCEPT ![<<j, ac[j] + 1>>] = "running"])
<1> DEFINE a == <<j, ac[j] + 1>>
           is1 == [is EXCEPT ![j[1]] = ActiveState[rl[j]]]
           js1 == [js EXCEPT ![j] = "running"]
           ac1 == [ac EXCEPT ![j] = @ + 1]
           as1 == [as EXCEPT ![a] = "running"]
<1>1. \A k \in Job : ac[k] \in Nat /\ rl[k] \in Role
  BY BoundAssumption
<1>2. a \in Attempt /\ a[1] = j /\ a[2] = ac[j] + 1
  BY <1>1, BoundAssumption DEF Attempt, AttemptNo
<1>3. \A k \in Job : k # j => js1[k] = js[k] /\ ac1[k] = ac[k]
  OBVIOUS
<1>4. js1[j] = "running" /\ ac1[j] = ac[j] + 1
  OBVIOUS
<1>5. \A i \in Item : is1[i] = IF i = j[1] THEN ActiveState[rl[j]] ELSE is[i]
  OBVIOUS
<1>6. as1[a] = "running" /\ \A b \in Attempt : b # a => as1[b] = as[b]
  BY <1>2
<1> HIDE DEF a, is1, js1, ac1, as1
<1>7. \A k \in Job : js[k] = "running" => k[1] # j[1]
  BY <1>1, ActiveApart DEF Agree
<1>8. \A k \in Job : js1[k] = "absent" <=> k[2] > jc[k[1]]
  BY <1>3, <1>4 DEF Agree
<1>9. \A k \in Job : js1[k] = "absent" => ac1[k] = 0
  BY <1>3, <1>4 DEF Agree
<1>10. \A i \in Item : is1[i] = "absent" => jc[i] = 0
  BY <1>1, <1>5, ActiveApart DEF Agree
<1>11. \A k \in Job : js1[k] = "running" => ac1[k] > 0
  BY <1>1, <1>3, <1>4 DEF Agree
<1>12. \A k \in Job : js1[k] = "running" => is1[k[1]] = ActiveState[rl[k]]
  BY <1>3, <1>5, <1>7, SameRow DEF Agree
<1>13. ASSUME NEW i \in Item, NEW r \in Role, is1[i] = ActiveState[r]
       PROVE  \E k \in Job : k[1] = i /\ js1[k] = "running"
  <2>1. CASE i = j[1]
    BY <1>4, <2>1
  <2>2. CASE i # j[1]
    <3>1. PICK k \in Job : k[1] = i /\ js[k] = "running"
      BY <1>5, <1>13, <2>2 DEF Agree
    <3> QED
      BY <1>3, <2>2, <3>1
  <2> QED
    BY <2>1, <2>2
<1>14. \A k, l \in Job :
          js1[k] = "running" /\ js1[l] = "running" /\ k[1] = l[1] => k = l
  BY <1>3, <1>7 DEF Agree
<1>15. ASSUME NEW b \in Attempt
       PROVE  /\ as1[b] = "none" <=> b[2] > ac1[b[1]]
              /\ as1[b] = "running" <=> js1[b[1]] = "running" /\ b[2] = ac1[b[1]]
              /\ as1[b] = "succeeded" <=> js1[b[1]] = "completed" /\ b[2] = ac1[b[1]]
  <2>1. b[1] \in Job /\ b[2] \in Nat /\ ac[b[1]] \in Nat
    BY <1>1, AttemptPair, BoundAssumption DEF AttemptNo
  <2>2. /\ as[b] = "none" <=> b[2] > ac[b[1]]
        /\ as[b] = "running" <=> js[b[1]] = "running" /\ b[2] = ac[b[1]]
        /\ as[b] = "succeeded" <=> js[b[1]] = "completed" /\ b[2] = ac[b[1]]
    BY DEF Agree
  <2>3. CASE b = a
    <3>1. ~ (b[2] > ac1[b[1]]) /\ b[2] = ac1[b[1]]
      BY <1>1, <1>2, <1>4, <2>3
    <3>2. as1[b] = "running" /\ js1[b[1]] = "running"
      BY <1>2, <1>4, <1>6, <2>3
    <3> QED
      BY <3>1, <3>2
  <2>4. CASE b # a /\ b[1] = j
    <3>1. b[2] # ac[j] + 1
      BY <1>2, <2>4, SameRow
    <3>2. b[2] # ac1[j] /\ (b[2] > ac1[j] <=> b[2] > ac[j])
      BY <1>4, <2>1, <2>4, <3>1
    <3>3. as1[b] = as[b] /\ js[b[1]] = "pending" /\ js1[b[1]] = "running"
      BY <1>4, <1>6, <2>4
    <3> QED
      BY <2>2, <2>4, <3>2, <3>3
  <2>5. CASE b[1] # j
    <3>1. b # a /\ as1[b] = as[b] /\ js1[b[1]] = js[b[1]] /\ ac1[b[1]] = ac[b[1]]
      BY <1>2, <1>3, <1>6, <2>1, <2>5
    <3> QED
      BY <2>2, <3>1
  <2> QED
    BY <2>3, <2>4, <2>5
<1> QED
  BY <1>8, <1>9, <1>10, <1>11, <1>12, <1>13, <1>14, <1>15
     DEF Agree, a, is1, js1, ac1, as1

\* Recovery moves exactly the items of the recovered jobs, back to a queue.
LEMMA RequeuedItems ==
    ASSUME TypeOK, NEW S \in SUBSET Job
    PROVE  \A i \in Item :
              IF \E j \in S : j[1] = i
              THEN /\ ItemsRequeued(S)[i] # "absent"
                   /\ \A r \in Role : ItemsRequeued(S)[i] # ActiveState[r]
              ELSE ItemsRequeued(S)[i] = itemState[i]
<1> SUFFICES ASSUME NEW i \in Item
             PROVE  IF \E j \in S : j[1] = i
                    THEN /\ ItemsRequeued(S)[i] # "absent"
                         /\ \A r \in Role : ItemsRequeued(S)[i] # ActiveState[r]
                    ELSE ItemsRequeued(S)[i] = itemState[i]
  OBVIOUS
<1>1. CASE \E j \in S : j[1] = i
  <2>1. PICK k \in S : ItemsRequeued(S)[i] = QueuedState[role[k]]
    <3>1. (CHOOSE j \in S : ItemOf(j) = i) \in S
      BY <1>1 DEF ItemOf
    <3> QED
      BY <1>1, <3>1 DEF ItemsRequeued, ItemOf
  <2>2. role[k] \in Role
    BY DEF TypeOK
  <2> QED
    BY <1>1, <2>1, <2>2, ActiveApart
<1>2. CASE ~ \E j \in S : j[1] = i
  BY <1>2 DEF ItemsRequeued, ItemOf
<1> QED
  BY <1>1, <1>2

\* What recovery writes before a claim goes on keeps the tables in agreement.
LEMMA RecoveryAgrees ==
    ASSUME TypeOK, StageInv, NEW S \in SUBSET Job,
           \A j \in S : jobStatus[j] = "running"
    PROVE  Agree(ItemsRequeued(S), jobCount, JobsSet(S, "pending"), role,
                 attemptCount, AttemptsEnded(S, "expired"))
<1>1. ItemsRequeued(S) \in [Item -> ItemStates]
  BY EndTypes DEF JobStates, AttemptStates
<1> QED
  BY <1>1, RequeuedItems, EndAgrees

\* A worker's end of its attempt keeps the tables in agreement.
LEMMA OneEndAgrees ==
    ASSUME TypeOK, StageInv, TypeOK', NEW a \in Attempt, LiveLease(a),
           NEW x, x # "absent", \A r \in Role : x # ActiveState[r],
           itemState' = [itemState EXCEPT ![ItemOf(a[1])] = x],
           NEW next \in {"pending", "failed", "completed"},
           NEW ended \in {"succeeded", "failed", "expired", "interrupted"},
           ended = "succeeded" <=> next = "completed"
    PROVE  Agree(itemState', jobCount, JobsSet({a[1]}, next), role, attemptCount,
                 AttemptsEnded({a[1]}, ended))
<1>1. {a[1]} \in SUBSET Job /\ a[1][1] \in Item
  BY AttemptPair, SameRow
<1>2. \A j \in {a[1]} : jobStatus[j] = "running"
  BY DEF LiveLease
<1>3. itemState' \in [Item -> ItemStates]
  BY DEF TypeOK
<1>4. \A i \in Item :
         IF \E j \in {a[1]} : j[1] = i
         THEN itemState'[i] # "absent" /\ \A r \in Role : itemState'[i] # ActiveState[r]
         ELSE itemState'[i] = itemState[i]
  BY <1>1 DEF ItemOf, TypeOK
<1> QED
  BY <1>1, <1>2, <1>3, <1>4, EndAgrees

\* The empty tables agree.
LEMMA StageInit == Init => StageInv
<1> SUFFICES ASSUME Init PROVE StageInv
  OBVIOUS
<1>1. \A j \in Job : j[2] > 0
  BY SameRow, BoundAssumption
<1>2. \A a \in Attempt : a[2] > 0
  BY AttemptPair, BoundAssumption DEF AttemptNo
<1>3. \A r \in Role : ActiveState[r] # "absent"
  BY ActiveApart
<1>4. \A a \in Attempt : a[1] \in Job
  BY AttemptPair
<1> QED
  BY <1>1, <1>2, <1>3, <1>4, SameRow DEF Init, StageInv, Agree

\* Every step keeps items, jobs and attempts in agreement.
LEMMA StageNext == TypeOK /\ TypeOK' /\ StageInv /\ [Next]_vars => StageInv'
<1> SUFFICES ASSUME TypeOK, TypeOK', StageInv, [Next]_vars PROVE StageInv'
  OBVIOUS
<1> USE DEF itemVars, jobVars, leaseVars, processVars, controlVars
<1>t. /\ itemState \in [Item -> ItemStates]
      /\ jobCount \in [Item -> 0..MaxJobs]
      /\ jobStatus \in [Job -> JobStates]
      /\ role \in [Job -> Role]
      /\ attemptCount \in [Job -> 0..MaxClaims]
      /\ attemptStatus \in [Attempt -> AttemptStates]
      /\ lapsed \subseteq Job
  BY DEF TypeOK
<1>a. Agree(itemState, jobCount, jobStatus, role, attemptCount, attemptStatus)
  BY DEF StageInv
<1>l. \A j \in lapsed : jobStatus[j] = "running"
  BY DEF StageInv
<1>u. ASSUME UNCHANGED <<itemState, jobCount, jobStatus, role, attemptCount,
                         attemptStatus>>,
             \A j \in lapsed' : j \in lapsed \/ jobStatus[j] = "running"
      PROVE  StageInv'
  BY <1>u, <1>a, <1>l DEF StageInv
<1>1. ASSUME NEW i \in Item, NEW state \in ItemStates, itemState[i] = "absent",
             state # "absent", \A r \in Role : state # ActiveState[r]
      PROVE  Agree([itemState EXCEPT ![i] = state], jobCount, jobStatus, role,
                   attemptCount, attemptStatus)
  <2>1. \A j \in Job : jobStatus[j] = "running" => j[1] # i /\ role[j] \in Role
    BY <1>1, <1>a, <1>t, ActiveApart DEF Agree
  <2> QED
    BY <1>1, <1>a, <1>t, <2>1, SameRow DEF Agree
<1>2. ASSUME NEW i \in Item, NEW state \in CreatableStates, CreateWorkItem(i, state)
      PROVE  StageInv'
  <2>1. /\ state \in ItemStates /\ state # "absent"
        /\ \A r \in Role : state # ActiveState[r]
    BY ActiveApart DEF CreatableStates, ItemStates
  <2> QED
    BY <1>1, <1>2, <1>l, <2>1 DEF CreateWorkItem, StageInv
<1>3. ASSUME NEW i \in Item, NEW r \in Role, NEW st \in Stage,
             NEW resources \in SUBSET Resource,
             CreateWorkItemWithJob(i, r, st, resources)
      PROVE  StageInv'
  <2> DEFINE is == [itemState EXCEPT ![i] = QueuedState[r]]
  <2>1. Agree(is, jobCount, jobStatus, role, attemptCount, attemptStatus)
    BY <1>1, <1>3, ActiveApart, StageStates DEF CreateWorkItemWithJob
  <2>2. is \in [Item -> ItemStates] /\ is[i] # "absent"
    BY <1>t, ActiveApart, StageStates
  <2>3. jobCount[i] < MaxJobs /\ AddJob(i, r, st, resources, jobStatus)
    BY <1>3 DEF CreateWorkItemWithJob, Enqueueable
  <2> HIDE DEF is
  <2>4. Agree(is, jobCount', jobStatus', role', attemptCount, attemptStatus)
    BY <1>t, <2>1, <2>2, <2>3, AddAgrees DEF AddJob, NextJob
  <2>5. \A j \in lapsed : jobStatus'[j] = "running"
    BY <1>t, <1>l, <1>a, <2>3, SameRow, BoundAssumption DEF AddJob, NextJob, Agree
  <2> QED
    BY <1>3, <2>4, <2>5 DEF CreateWorkItemWithJob, StageInv, is
<1>4. ASSUME NEW i \in Item, NEW r \in Role, NEW st \in Stage,
             NEW resources \in SUBSET Resource, EnqueueJob(i, r, st, resources)
      PROVE  StageInv'
  <2>1. itemState[i] # "absent"
    BY <1>4, ActiveApart DEF EnqueueJob, Enqueueable
  <2>2. jobCount[i] < MaxJobs /\ AddJob(i, r, st, resources, jobStatus)
    BY <1>4 DEF EnqueueJob, Enqueueable
  <2>3. Agree(itemState, jobCount', jobStatus', role', attemptCount, attemptStatus)
    BY <1>t, <1>a, <2>1, <2>2, AddAgrees DEF AddJob, NextJob
  <2>4. \A j \in lapsed : jobStatus'[j] = "running"
    BY <1>t, <1>l, <1>a, <2>2, SameRow, BoundAssumption DEF AddJob, NextJob, Agree
  <2> QED
    BY <1>4, <2>3, <2>4 DEF EnqueueJob, StageInv
<1>5. ASSUME NEW i \in Item, ChangeBindings(i)
      PROVE  StageInv'
  BY <1>5, <1>u DEF ChangeBindings
<1>r. /\ Recovered \in SUBSET Job
      /\ \A j \in Recovered : jobStatus[j] = "running"
  BY <1>l, RecoveredType DEF Recovered
<1>6. ASSUME RecoverExpiredLeases
      PROVE  StageInv'
  <2>1. Agree(itemState', jobCount', jobStatus', role', attemptCount', attemptStatus')
    BY <1>6, <1>r, RecoveryAgrees DEF RecoverExpiredLeases
  <2>2. \A j \in lapsed' : jobStatus'[j] = "running"
    BY <1>6, <1>l, <1>t DEF RecoverExpiredLeases, JobsSet
  <2> QED
    BY <2>1, <2>2 DEF StageInv
<1>7. ASSUME NEW j \in Job, ClaimJob(j)
      PROVE  StageInv'
  <2> DEFINE is == ItemsRequeued(Recovered)
             js == JobsSet(Recovered, "pending")
             as == AttemptsEnded(Recovered, "expired")
  <2>1. Agree(is, jobCount, js, role, attemptCount, as)
    BY <1>r, RecoveryAgrees
  <2>2. /\ is \in [Item -> ItemStates]
        /\ js \in [Job -> JobStates]
        /\ as \in [Attempt -> AttemptStates]
    BY <1>r, EndTypes DEF JobStates, AttemptStates
  <2>3. /\ js[j] = "pending" /\ is[j[1]] = QueuedState[role[j]]
        /\ attemptCount[j] < MaxClaims
    BY <1>7 DEF ClaimJob, Claimable, ItemOf
  <2>4. /\ itemState' = [is EXCEPT ![j[1]] = ActiveState[role[j]]]
        /\ jobStatus' = [js EXCEPT ![j] = "running"]
        /\ attemptCount' = [attemptCount EXCEPT ![j] = @ + 1]
        /\ attemptStatus' = [as EXCEPT ![<<j, attemptCount[j] + 1>>] = "running"]
        /\ jobCount' = jobCount /\ role' = role
        /\ lapsed' = lapsed \ Recovered
    BY <1>7 DEF ClaimJob, Claimable, ItemOf
  <2>5. \A k \in Job : k \notin Recovered => js[k] = jobStatus[k]
    BY DEF JobsSet
  <2> HIDE DEF is, js, as
  <2>6. Agree(itemState', jobCount', jobStatus', role', attemptCount', attemptStatus')
    BY <1>t, <2>1, <2>2, <2>3, <2>4, ClaimAgrees
  <2>7. \A k \in lapsed' : jobStatus'[k] = "running"
    BY <1>t, <1>l, <2>2, <2>4, <2>5
  <2> QED
    BY <2>6, <2>7 DEF StageInv
<1>8. ASSUME NEW j \in Job, LeaseLapses(j)
      PROVE  StageInv'
  BY <1>8, <1>u DEF LeaseLapses
<1>9. ASSUME NEW a \in Attempt, HeartbeatJob(a)
      PROVE  StageInv'
  BY <1>9, <1>u DEF HeartbeatJob
<1>10. ASSUME NEW a \in Attempt, LiveLease(a), NEW next \in JobStates,
              jobStatus' = JobsSet({a[1]}, next), lapsed' = lapsed
       PROVE  \A j \in lapsed' : jobStatus'[j] = "running"
  BY <1>10, <1>l, <1>t DEF LiveLease, JobsSet
<1>11. ASSUME NEW a \in Attempt, NEW next \in ItemStates,
              NEW resources \in SUBSET Resource, CommitStageResult(a, next, resources)
       PROVE  StageInv'
  <2>1. a[1] \in Job /\ ItemOf(a[1]) \in Item /\ role[a[1]] \in Role /\ LiveLease(a)
    BY <1>11, <1>t, AttemptPair, JobItem DEF CommitStageResult, MayCommit
  <2>2. next # "absent" /\ \A r \in Role : next # ActiveState[r]
    BY <1>11, <2>1, ActiveApart DEF CommitStageResult, MayCommit
  <2>3. /\ itemState' = [itemState EXCEPT ![ItemOf(a[1])] = next]
        /\ attemptStatus' = AttemptsEnded({a[1]}, "succeeded")
        /\ attemptCount' = attemptCount /\ lapsed' = lapsed
    BY <1>11 DEF CommitStageResult, MayCommit
  <2>4. Agree(itemState', jobCount, JobsSet({a[1]}, "completed"), role, attemptCount',
              attemptStatus')
    BY <2>1, <2>2, <2>3, OneEndAgrees
  <2>5. CASE /\ jobStatus' = JobsSet({a[1]}, "completed")
             /\ UNCHANGED <<jobCount, role, stage, needs>>
    BY <1>10, <2>1, <2>3, <2>4, <2>5 DEF StageInv, JobStates
  <2>6. ASSUME NEW r \in Successor(next), NEW st \in Stage,
               jobCount[ItemOf(a[1])] < MaxJobs,
               AddJob(ItemOf(a[1]), r, st, resources, JobsSet({a[1]}, "completed"))
        PROVE  StageInv'
    <3> DEFINE js == JobsSet({a[1]}, "completed")
    <3>1. r \in Role
      BY <2>6 DEF Successor, Role
    <3>2. js \in [Job -> JobStates]
      BY <2>1, EndTypes DEF JobStates, AttemptStates
    <3>3. itemState'[ItemOf(a[1])] # "absent"
      BY <1>t, <2>1, <2>2, <2>3
    <3>4. itemState' \in [Item -> ItemStates] /\ attemptStatus' \in [Attempt -> AttemptStates]
      BY DEF TypeOK
    <3>5. \A j \in lapsed : js[j] = "running"
      BY <1>l, <1>t, <2>1 DEF LiveLease, JobsSet
    <3> HIDE DEF js
    <3>6. Agree(itemState', jobCount', jobStatus', role', attemptCount', attemptStatus')
      BY <1>t, <2>1, <2>3, <2>4, <2>6, <3>1, <3>2, <3>3, <3>4, AddAgrees
         DEF AddJob, NextJob, js
    <3>7. \A j \in lapsed' : jobStatus'[j] = "running"
      <4>a. /\ jobCount[ItemOf(a[1])] \in Nat
            /\ jobCount[ItemOf(a[1])] + 1 \in 1..MaxJobs
        BY <1>t, <2>1, <2>6, BoundAssumption
      <4>b. /\ NextJob(ItemOf(a[1])) \in Job
            /\ ItemOf(NextJob(ItemOf(a[1]))) = ItemOf(a[1])
            /\ NextJob(ItemOf(a[1]))[2] > jobCount[ItemOf(a[1])]
        BY <2>1, <4>a DEF NextJob, Job, ItemOf
      <4>1. NextJob(ItemOf(a[1])) \in Job /\ js[NextJob(ItemOf(a[1]))] = "absent"
        BY <2>4, <4>b DEF Agree, ItemOf, js
      <4>2. jobStatus' = [js EXCEPT ![NextJob(ItemOf(a[1]))] = "pending"]
        BY <2>6 DEF AddJob, js
      <4> QED
        BY <1>t, <2>3, <3>2, <3>5, <4>1, <4>2
    <3> QED
      BY <3>6, <3>7 DEF StageInv
  <2> QED
    BY <1>11, <2>5, <2>6 DEF CommitStageResult, MayCommit
<1>12. ASSUME NEW a \in Attempt, LiveLease(a), NEW x, x # "absent",
              \A r \in Role : x # ActiveState[r],
              itemState' = [itemState EXCEPT ![ItemOf(a[1])] = x],
              NEW next \in {"pending", "failed"},
              NEW ended \in {"failed", "expired", "interrupted"},
              jobStatus' = JobsSet({a[1]}, next),
              attemptStatus' = AttemptsEnded({a[1]}, ended),
              UNCHANGED <<jobCount, role, attemptCount, lapsed>>
       PROVE  StageInv'
  <2>1. Agree(itemState', jobCount, JobsSet({a[1]}, next), role, attemptCount,
              AttemptsEnded({a[1]}, ended))
    BY <1>12, OneEndAgrees
  <2> QED
    BY <1>10, <1>12, <2>1 DEF StageInv, JobStates
<1>13. ASSUME NEW a \in Attempt, NEW requeue \in BOOLEAN, FailJob(a, requeue)
       PROVE  StageInv'
  <2>1. role[a[1]] \in Role
    BY <1>t, AttemptPair
  <2>2. PICK x \in {QueuedState[role[a[1]]], "blocked"} :
           itemState' = [itemState EXCEPT ![ItemOf(a[1])] = x]
    BY <1>13 DEF FailJob, MayEnd, AfterFailure
  <2>3. x # "absent" /\ \A r \in Role : x # ActiveState[r]
    BY <2>1, <2>2, ActiveApart DEF CreatableStates
  <2>4. PICK next \in {"pending", "failed"} : EndAttempt(a, "failed", next)
    BY <1>13 DEF FailJob, MayEnd, AfterFailure
  <2>5. LiveLease(a)
    BY <1>13 DEF FailJob, MayEnd, AfterFailure
  <2> QED
    BY <1>12, <2>2, <2>3, <2>4, <2>5 DEF EndAttempt
<1>14. ASSUME NEW a \in Attempt, LiveLease(a), itemState' = ItemsRequeued({a[1]}),
              NEW ended \in {"expired", "interrupted"},
              jobStatus' = JobsSet({a[1]}, "pending"),
              attemptStatus' = AttemptsEnded({a[1]}, ended),
              UNCHANGED <<jobCount, role, attemptCount, lapsed>>
       PROVE  StageInv'
  <2>1. a[1] \in Job /\ role[a[1]] \in Role /\ ItemOf(a[1]) \in Item
    BY <1>t, AttemptPair, JobItem
  <2>2. itemState' = [itemState EXCEPT ![ItemOf(a[1])] = QueuedState[role[a[1]]]]
    BY <1>14, <1>t, <2>1 DEF ItemsRequeued
  <2>3. /\ QueuedState[role[a[1]]] # "absent"
        /\ \A r \in Role : QueuedState[role[a[1]]] # ActiveState[r]
    BY <2>1, ActiveApart DEF CreatableStates
  <2>4. ended \in {"failed", "expired", "interrupted"} /\ "pending" \in {"pending", "failed"}
    BY <1>14
  <2> QED
    BY <1>12, <1>14, <2>2, <2>3, <2>4
<1>15. ASSUME NEW a \in Attempt, InterruptJob(a) \/ CompleteOperatorInterrupt(a)
       PROVE  StageInv'
  BY <1>14, <1>15 DEF InterruptJob, MayEnd, CompleteOperatorInterrupt, MayComplete, EndAttempt
<1>16. ASSUME NEW a \in Attempt, RecordExternalProcess(a) \/ ClearExternalProcess(a)
       PROVE  StageInv'
  BY <1>16, <1>u DEF RecordExternalProcess, ClearExternalProcess
<1>17. ASSUME NEW a \in Attempt, NEW s \in Session, RecordExternalSession(a, s)
       PROVE  StageInv'
  BY <1>17, <1>u DEF RecordExternalSession
<1>18. ASSUME NEW a \in Attempt, RequestJobInterrupt(a) \/ RequestJobResume(a)
       PROVE  StageInv'
  BY <1>18, <1>u DEF RequestJobInterrupt, RequestJobResume
<1>19. ASSUME NEW w \in Reconciler, NEW a \in Attempt, NEW retry \in BOOLEAN,
              ClaimReconciliation(w, a, retry) \/ QuarantineProcess(w, a)
       PROVE  StageInv'
  BY <1>19, <1>u DEF ClaimReconciliation, QuarantineProcess
<1>20. ASSUME NEW w \in Reconciler, NEW a \in Attempt, ResolveProcess(w, a)
       PROVE  StageInv'
  <2>1. {a[1]} \in SUBSET Job /\ jobStatus[a[1]] = "running"
    BY <1>20, AttemptPair DEF ResolveProcess, ReconciliationHeld
  <2>2. Agree(itemState', jobCount', jobStatus', role', attemptCount', attemptStatus')
    BY <1>20, <2>1, RecoveryAgrees DEF ResolveProcess
  <2>3. \A j \in lapsed' : jobStatus'[j] = "running"
    BY <1>20, <1>l, <1>t DEF ResolveProcess, JobsSet
  <2> QED
    BY <2>2, <2>3 DEF StageInv
<1>21. ASSUME NEW a \in Attempt, ReconciliationLapses(a)
       PROVE  StageInv'
  BY <1>21, <1>u DEF ReconciliationLapses
<1>22. ASSUME ResourceStep
       PROVE  StageInv'
  BY <1>22, <1>u DEF ResourceStep, AcquireResource, HeartbeatResource,
                     ReleaseResource, ResourceLapses
<1>23. CASE UNCHANGED vars
  BY <1>23, <1>u DEF vars
<1>24. CASE ItemStep
  BY <1>2, <1>3, <1>4, <1>5, <1>24 DEF ItemStep
<1>25. CASE QueueStep
  BY <1>6, <1>7, <1>8, <1>25 DEF QueueStep
<1>26. CASE WorkerStep
  BY <1>9, <1>11, <1>13, <1>15, <1>16, <1>17, <1>26 DEF WorkerStep
<1>27. CASE OperatorStep
  BY <1>18, <1>27 DEF OperatorStep
<1>28. CASE ReconcilerStep
  BY <1>19, <1>20, <1>21, <1>28 DEF ReconcilerStep
<1> QED
  BY <1>22, <1>23, <1>24, <1>25, <1>26, <1>27, <1>28 DEF Next

\* The three tables agree in every reachable state.
THEOREM StageCorrect == Spec => []StageInv
  BY TypeInit, TypeNext, StageInit, StageNext, PTL DEF Spec

\* No interleaving of claims, outcomes, recoveries and reconciliations leaves an item in
\* a work state without the one job that runs for it, or runs two; the attempts of a job
\* are gapless, at most its newest runs, and a success is the newest of a completed job.
THEOREM TablesAgreeAlways == Spec => []TablesAgree
<1>1. StageInv => ItemFollowsJob
  BY DEF StageInv, Agree, ItemFollowsJob, InStage, ItemOf
<1>2. StageInv => AttemptsFollowJob
  BY SameRow, AttemptPair DEF StageInv, Agree, AttemptsFollowJob
<1>3. StageInv => TablesAgree
  BY <1>1, <1>2 DEF TablesAgree
<1> QED
  BY <1>3, StageCorrect, PTL

-----------------------------------------------------------------------------
(* What hangs on an attempt: the inductive invariant. *)

\* A pending interrupt aims at the attempt that runs.
InterruptCurrent ==
    \A j \in Job :
        interruptAt[j] # 0 => jobStatus[j] = "running" /\ interruptAt[j] = attemptCount[j]

\* An attempt resumes none but the one before it.
ResumedInTurn ==
    \A a \in Attempt : resumedFrom[a] # 0 => resumedFrom[a] = a[2] - 1

\* An attempt that has not begun has no session.
SessionsBegun ==
    \A a \in Attempt : attemptStatus[a] = "none" => session[a] = NoSession

ControlInv ==
    /\ ProcessKeepsJob
    /\ InterruptCurrent
    /\ ResumeStaysExact
    /\ ResumedInTurn
    /\ SessionsBegun
    /\ SessionLineage

-----------------------------------------------------------------------------
(* The three kinds of steps. *)

EndStates == {"succeeded", "failed", "expired", "interrupted"}

\* The current attempts of the running jobs in J end, each with its process resolved and
\* its interrupt obeyed, a lapsed one by expiring; jobs may be added and leases lapse.
Ends(J) ==
    /\ J \in SUBSET Job
    /\ \A j \in J :
          /\ jobStatus[j] = "running" /\ jobStatus'[j] # "running"
          /\ proc'[Current(j)] \notin {"active", "quarantined"}
          /\ recon'[Current(j)] = Nobody
          /\ attemptStatus'[Current(j)] \in EndStates
          /\ j \in lapsed => attemptStatus'[Current(j)] = "expired"
          /\ interruptAt[j] # 0 => attemptStatus'[Current(j)] \in {"expired", "interrupted"}
          /\ interruptAt'[j] = 0
    /\ \A j \in Job \ J :
          /\ jobStatus'[j] = jobStatus[j] \/ (jobStatus[j] = "absent" /\ jobStatus'[j] = "pending")
          /\ j \in lapsed => j \in lapsed'
          /\ interruptAt'[j] = interruptAt[j]
    /\ \A a \in Attempt :
          a[1] \notin J \/ a # Current(a[1]) =>
              /\ attemptStatus'[a] = attemptStatus[a]
              /\ proc'[a] = proc[a]
              /\ recon'[a] = recon[a]
    /\ UNCHANGED <<attemptCount, session, resumedFrom, resumeFrom>>

\* Job j is claimed, once recovery has ended the attempts of the jobs in J.
Takes(J, j) ==
    LET a == <<j, attemptCount[j] + 1>>
    IN
    /\ a \in Attempt /\ attemptCount[j] \in Nat
    /\ jobStatus[j] = "pending" \/ j \in J
    /\ J \in SUBSET lapsed
    /\ \A k \in J : ~Unresolved(Current(k))
    /\ resumeFrom[j] # 0 => ResumeExact(j)
    /\ \A k \in Job :
          /\ jobStatus'[k] = IF k = j THEN "running" ELSE IF k \in J THEN "pending" ELSE jobStatus[k]
          /\ attemptCount'[k] = IF k = j THEN attemptCount[j] + 1 ELSE attemptCount[k]
          /\ interruptAt'[k] = IF k \in J THEN 0 ELSE interruptAt[k]
          /\ resumeFrom'[k] = IF k = j THEN 0 ELSE resumeFrom[k]
    /\ \A b \in Attempt :
          /\ attemptStatus'[b] =
                IF b = a THEN "running"
                ELSE IF b[1] \in J /\ b = Current(b[1]) THEN "expired" ELSE attemptStatus[b]
          /\ resumedFrom'[b] = IF b = a THEN resumeFrom[j] ELSE resumedFrom[b]
    /\ lapsed' = lapsed \ J
    /\ UNCHANGED <<processVars, session>>

\* Only what hangs on the attempts may change.
Keeps == UNCHANGED <<jobStatus, attemptCount, attemptStatus, lapsed>>

\* Where the attempt of a running job stands.
LEMMA CurrentFacts ==
    ASSUME TypeOK, StageInv
    PROVE  /\ \A j \in Job : jobStatus[j] = "running" =>
                 /\ Current(j) \in Attempt
                 /\ Current(j)[1] = j /\ Current(j)[2] = attemptCount[j]
                 /\ attemptStatus[Current(j)] = "running"
           /\ \A a \in Attempt : attemptStatus[a] = "running" =>
                 jobStatus[a[1]] = "running" /\ a = Current(a[1])
           /\ \A j \in Job : attemptCount[j] \in Nat
           /\ \A a \in Attempt : a[1] \in Job /\ a[2] \in Nat /\ a[2] > 0
           /\ \A j \in lapsed : j \in Job /\ jobStatus[j] = "running"
<1>1. \A j \in Job : attemptCount[j] \in 0..MaxClaims /\ attemptCount[j] \in Nat
  BY BoundAssumption DEF TypeOK
<1>2. \A a \in Attempt : a[1] \in Job /\ a[2] \in Nat /\ a[2] > 0
  BY AttemptPair, BoundAssumption DEF AttemptNo
<1>3. ASSUME NEW j \in Job, jobStatus[j] = "running"
      PROVE  /\ Current(j) \in Attempt
             /\ Current(j)[1] = j /\ Current(j)[2] = attemptCount[j]
             /\ attemptStatus[Current(j)] = "running"
  <2>1. attemptCount[j] > 0
    BY <1>3 DEF StageInv, Agree
  <2>2. Current(j) \in Attempt /\ Current(j)[1] = j /\ Current(j)[2] = attemptCount[j]
    BY <1>1, <2>1, BoundAssumption DEF Current, Attempt, AttemptNo
  <2> QED
    BY <1>3, <2>2 DEF StageInv, Agree
<1>4. \A a \in Attempt : attemptStatus[a] = "running" =>
         jobStatus[a[1]] = "running" /\ a = Current(a[1])
  BY <1>2, SameRow DEF StageInv, Agree
<1> QED
  BY <1>1, <1>2, <1>3, <1>4 DEF StageInv, TypeOK

-----------------------------------------------------------------------------
(* Each kind keeps the invariant. *)

\* A step that ends attempts.
LEMMA EndsKeep ==
    ASSUME TypeOK, StageInv, ControlInv, NEW J, Ends(J)
    PROVE  ControlInv'
<1> USE CurrentFacts
<1>1. \A a \in Attempt : a[1] \notin J \/ a # Current(a[1]) =>
         /\ attemptStatus'[a] = attemptStatus[a]
         /\ proc'[a] = proc[a]
         /\ recon'[a] = recon[a]
  BY DEF Ends
<1>2. ProcessKeepsJob'
  <2> SUFFICES ASSUME NEW a \in Attempt
               PROVE  /\ proc'[a] \in {"active", "quarantined"} =>
                            jobStatus'[a[1]] = "running" /\ a = Current(a[1])'
                      /\ proc'[a] = "quarantined" \/ recon'[a] # Nobody =>
                            proc'[a] \in {"active", "quarantined"} /\ a[1] \in lapsed'
    BY DEF ProcessKeepsJob
  <2>1. Current(a[1])' = Current(a[1])
    BY DEF Ends, Current
  <2>2. CASE a[1] \in J /\ a = Current(a[1])
    BY <2>2 DEF Ends
  <2>3. CASE a[1] \notin J
    BY <1>1, <2>1, <2>3 DEF ControlInv, ProcessKeepsJob, Ends
  <2>4. CASE a # Current(a[1])
    BY <1>1, <2>1, <2>4 DEF ControlInv, ProcessKeepsJob
  <2> QED
    BY <2>2, <2>3, <2>4
<1>3. InterruptCurrent'
  BY DEF ControlInv, InterruptCurrent, Ends
<1>4. ResumeStaysExact'
  <2> SUFFICES ASSUME NEW j \in Job, resumeFrom[j] # 0
               PROVE  jobStatus'[j] = "pending" /\ ResumeExact(j)'
    BY DEF ResumeStaysExact, Ends
  <2>1. jobStatus[j] = "pending" /\ ResumeExact(j)
    BY DEF ControlInv, ResumeStaysExact
  <2>2. <<j, resumeFrom[j]>> \in Attempt
    BY BoundAssumption DEF TypeOK, Attempt, AttemptNo
  <2> QED
    BY <1>1, <2>1, <2>2 DEF Ends, ResumeExact
<1>5. ResumedInTurn'
  BY DEF ControlInv, ResumedInTurn, Ends
<1>6. SessionsBegun'
  <2>1. \A a \in Attempt : attemptStatus'[a] = "none" => attemptStatus[a] = "none"
    BY <1>1 DEF Ends, EndStates
  <2> QED
    BY <2>1 DEF ControlInv, SessionsBegun, Ends
<1>7. SessionLineage'
  BY DEF ControlInv, SessionLineage, Ends
<1> QED
  BY <1>2, <1>3, <1>4, <1>5, <1>6, <1>7 DEF ControlInv

\* A claim.
LEMMA TakesKeep ==
    ASSUME TypeOK, StageInv, ControlInv, NEW J, NEW j \in Job, Takes(J, j)
    PROVE  ControlInv'
<1> DEFINE a == <<j, attemptCount[j] + 1>>
<1> USE CurrentFacts
<1>1. /\ a \in Attempt /\ a[1] = j /\ a[2] = attemptCount[j] + 1
      /\ attemptStatus[a] = "none"
      /\ jobStatus[j] = "running" => j \in J
  <2>1. a \in Attempt /\ a[2] > attemptCount[a[1]]
    BY DEF Takes
  <2>2. attemptStatus[a] = "none"
    BY <2>1 DEF StageInv, Agree
  <2> QED
    BY <2>1, <2>2 DEF Takes
<1>2. \A k \in Job : k # j => Current(k)' = Current(k)
  BY DEF Takes, Current
<1>3. ASSUME NEW b \in Attempt, Unresolved(b)
      PROVE  b[1] # j /\ b[1] \notin J
  <2>1. jobStatus[b[1]] = "running" /\ b = Current(b[1])
    BY <1>3 DEF ControlInv, ProcessKeepsJob, Unresolved
  <2>2. b[1] \notin J
    BY <1>3, <2>1 DEF Takes
  <2> QED
    BY <1>1, <2>1, <2>2
<1>4. ProcessKeepsJob'
  <2> SUFFICES ASSUME NEW b \in Attempt
               PROVE  /\ proc[b] \in {"active", "quarantined"} =>
                            jobStatus'[b[1]] = "running" /\ b = Current(b[1])'
                      /\ proc[b] = "quarantined" \/ recon[b] # Nobody =>
                            proc[b] \in {"active", "quarantined"} /\ b[1] \in lapsed'
    BY DEF ProcessKeepsJob, Takes, processVars
  <2>1. CASE Unresolved(b)
    <3>1. b[1] # j /\ b[1] \notin J
      BY <1>3, <2>1
    <3>2. jobStatus'[b[1]] = jobStatus[b[1]] /\ Current(b[1])' = Current(b[1])
      BY <1>2, <3>1 DEF Takes
    <3> QED
      BY <2>1, <3>1, <3>2 DEF ControlInv, ProcessKeepsJob, Unresolved, Takes
  <2>2. CASE ~Unresolved(b)
    BY <2>2 DEF ControlInv, ProcessKeepsJob, Unresolved
  <2> QED
    BY <2>1, <2>2
<1>5. InterruptCurrent'
  <2> SUFFICES ASSUME NEW k \in Job, interruptAt'[k] # 0
               PROVE  jobStatus'[k] = "running" /\ interruptAt'[k] = attemptCount'[k]
    BY DEF InterruptCurrent
  <2>1. k \notin J /\ interruptAt[k] # 0
    BY DEF Takes
  <2>2. jobStatus[k] = "running" /\ interruptAt[k] = attemptCount[k]
    BY <2>1 DEF ControlInv, InterruptCurrent
  <2>3. k # j
    BY <1>1, <2>1, <2>2
  <2> QED
    BY <2>1, <2>2, <2>3 DEF Takes
<1>6. ResumeStaysExact'
  <2> SUFFICES ASSUME NEW k \in Job, resumeFrom'[k] # 0
               PROVE  jobStatus'[k] = "pending" /\ ResumeExact(k)'
    BY DEF ResumeStaysExact
  <2>1. k # j /\ resumeFrom'[k] = resumeFrom[k] /\ resumeFrom[k] # 0
    BY DEF Takes
  <2>2. jobStatus[k] = "pending" /\ ResumeExact(k)
    BY <2>1 DEF ControlInv, ResumeStaysExact
  <2>3. <<k, resumeFrom[k]>> \in Attempt
    BY <2>1, BoundAssumption DEF TypeOK, Attempt, AttemptNo
  <2>4. k \notin J
    BY <2>2 DEF Takes
  <2>5. attemptStatus'[<<k, resumeFrom[k]>>] = attemptStatus[<<k, resumeFrom[k]>>]
    BY <2>1, <2>3, <2>4 DEF Takes
  <2> QED
    BY <2>1, <2>2, <2>4, <2>5 DEF Takes, ResumeExact, processVars
<1>7. ResumedInTurn'
  <2>1. resumeFrom[j] # 0 => resumeFrom[j] = attemptCount[j]
    BY DEF Takes, ResumeExact
  <2>2. resumeFrom[j] # 0 => resumeFrom[j] = a[2] - 1
    BY <1>1, <2>1
  <2>3. \A b \in Attempt : resumedFrom'[b] = IF b = a THEN resumeFrom[j] ELSE resumedFrom[b]
    BY DEF Takes
  <2> HIDE DEF a
  <2> QED
    BY <2>2, <2>3 DEF ControlInv, ResumedInTurn
<1>8. SessionsBegun'
  BY DEF ControlInv, SessionsBegun, Takes
<1>9. SessionLineage'
  <2> SUFFICES ASSUME NEW b \in Attempt, NEW c \in Attempt,
                      session[b] = session[c], session[c] # NoSession, b # c
               PROVE  /\ b[1] = c[1]
                      /\ b[2] < c[2] =>
                            /\ resumedFrom'[c] = c[2] - 1
                            /\ session[<<c[1], c[2] - 1>>] = session[c]
    BY DEF SessionLineage, Takes
  <2>1. c # a
    BY <1>1 DEF ControlInv, SessionsBegun
  <2>2. resumedFrom'[c] = resumedFrom[c]
    BY <2>1 DEF Takes
  <2> QED
    BY <2>2 DEF ControlInv, SessionLineage
<1> QED
  BY <1>4, <1>5, <1>6, <1>7, <1>8, <1>9 DEF ControlInv

\* A step of an operator, a process, a session or a reconciler, which leaves the attempts
\* as they are.
HangsOn ==
    \/ \E a \in Attempt :
          \/ RequestJobInterrupt(a) \/ RequestJobResume(a)
          \/ RecordExternalProcess(a) \/ ClearExternalProcess(a)
          \/ ReconciliationLapses(a)
          \/ \E s \in Session : RecordExternalSession(a, s)
          \/ \E w \in Reconciler :
                \/ QuarantineProcess(w, a)
                \/ \E retry \in BOOLEAN : ClaimReconciliation(w, a, retry)

\* The parts of the invariant that only some of these steps can disturb.
LEMMA ProcessStep ==
    ASSUME TypeOK, StageInv, ControlInv, Keeps, NEW a \in Attempt,
           jobStatus[a[1]] = "running", a = Current(a[1]),
           \A b \in Attempt \ {a} : proc'[b] = proc[b] /\ recon'[b] = recon[b],
           proc'[a] = "quarantined" \/ recon'[a] # Nobody =>
               proc'[a] \in {"active", "quarantined"} /\ a[1] \in lapsed,
           UNCHANGED controlVars
    PROVE  ControlInv'
<1> USE CurrentFacts DEF Keeps, controlVars
<1>1. ProcessKeepsJob'
  BY DEF ControlInv, ProcessKeepsJob, Current
<1>2. ResumeStaysExact'
  <2> SUFFICES ASSUME NEW j \in Job, resumeFrom[j] # 0
               PROVE  jobStatus[j] = "pending" /\ ResumeExact(j)'
    BY DEF ResumeStaysExact
  <2>1. jobStatus[j] = "pending" /\ ResumeExact(j)
    BY DEF ControlInv, ResumeStaysExact
  <2>2. <<j, resumeFrom[j]>> \in Attempt /\ <<j, resumeFrom[j]>> # a
    BY <2>1, BoundAssumption DEF TypeOK, Attempt, AttemptNo
  <2> QED
    BY <2>1, <2>2 DEF ResumeExact
<1>3. InterruptCurrent' /\ ResumedInTurn' /\ SessionsBegun' /\ SessionLineage'
  BY DEF ControlInv, InterruptCurrent, ResumedInTurn, SessionsBegun, SessionLineage
<1> QED
  BY <1>1, <1>2, <1>3 DEF ControlInv

\* An operator's request.
LEMMA RequestStep ==
    ASSUME TypeOK, StageInv, ControlInv, NEW a \in Attempt,
           RequestJobInterrupt(a) \/ RequestJobResume(a)
    PROVE  Keeps /\ ControlInv'
<1> USE CurrentFacts DEF jobVars, processVars
<1>1. Keeps /\ UNCHANGED <<processVars, session, resumedFrom>>
  BY DEF RequestJobInterrupt, RequestJobResume, Keeps
<1>2. ProcessKeepsJob' /\ ResumedInTurn' /\ SessionsBegun' /\ SessionLineage'
  BY <1>1 DEF ControlInv, ProcessKeepsJob, ResumedInTurn, SessionsBegun, SessionLineage, Keeps,
              Current
<1>3. InterruptCurrent'
  BY DEF ControlInv, InterruptCurrent, RequestJobInterrupt, RequestJobResume, LiveLease, TypeOK
<1>4. ResumeStaysExact'
  <2> SUFFICES ASSUME NEW j \in Job, resumeFrom'[j] # 0
               PROVE  jobStatus'[j] = "pending" /\ ResumeExact(j)'
    BY DEF ResumeStaysExact
  <2>1. CASE resumeFrom'[j] = resumeFrom[j]
    BY <1>1, <2>1 DEF ControlInv, ResumeStaysExact, ResumeExact, Keeps
  <2>2. CASE resumeFrom'[j] # resumeFrom[j]
    <3>1. RequestJobResume(a) /\ j = a[1] /\ resumeFrom'[j] = a[2]
      BY <2>2 DEF RequestJobInterrupt, RequestJobResume, TypeOK
    <3> QED
      BY <1>1, <3>1, AttemptPair DEF RequestJobResume, ResumeExact, Keeps
  <2> QED
    BY <2>1, <2>2
<1> QED
  BY <1>1, <1>2, <1>3, <1>4 DEF ControlInv

\* A session is recorded: it is new, or that of the attempt resumed.
LEMMA SessionStep ==
    ASSUME TypeOK, StageInv, ControlInv, NEW a \in Attempt, NEW s \in Session,
           RecordExternalSession(a, s)
    PROVE  Keeps /\ ControlInv'
<1> USE CurrentFacts DEF jobVars, processVars
<1>1. Keeps /\ UNCHANGED <<processVars, resumedFrom, interruptAt, resumeFrom>>
  BY DEF RecordExternalSession, Keeps
<1>2. /\ attemptStatus[a] = "running" /\ a = Current(a[1]) /\ session[a] = NoSession
      /\ SessionFree(a, s) /\ s # NoSession
      /\ resumedFrom[a] # 0 => s = session[<<a[1], resumedFrom[a]>>]
      /\ \A b \in Attempt : session'[b] = IF b = a THEN s ELSE session[b]
  BY MarkAssumption DEF RecordExternalSession, TypeOK
<1>3. ProcessKeepsJob' /\ InterruptCurrent' /\ ResumedInTurn'
  BY <1>1 DEF ControlInv, ProcessKeepsJob, InterruptCurrent, ResumedInTurn, Keeps, Current
<1>4. SessionsBegun'
  BY <1>1, <1>2 DEF ControlInv, SessionsBegun, Keeps
<1>5. ResumeStaysExact'
  <2> SUFFICES ASSUME NEW j \in Job, resumeFrom[j] # 0
               PROVE  jobStatus[j] = "pending" /\ ResumeExact(j)'
    BY <1>1 DEF ResumeStaysExact, Keeps
  <2>1. jobStatus[j] = "pending" /\ ResumeExact(j)
    BY DEF ControlInv, ResumeStaysExact
  <2>2. <<j, resumeFrom[j]>> \in Attempt /\ <<j, resumeFrom[j]>> # a
    BY <1>2, <2>1, BoundAssumption DEF TypeOK, Attempt, AttemptNo
  <2> QED
    BY <1>1, <1>2, <2>1, <2>2 DEF ResumeExact, Keeps, processVars
<1>6. SessionLineage'
  <2>0. ASSUME NEW b \in Attempt, b[1] = a[1], b # a, session[b] # NoSession
        PROVE  b[2] < a[2]
    <3>1. attemptStatus[b] # "none"
      BY <2>0 DEF ControlInv, SessionsBegun
    <3>2. b[2] <= attemptCount[a[1]] /\ a[2] = attemptCount[a[1]]
      BY <1>2, <2>0, <3>1 DEF StageInv, Agree
    <3> QED
      BY <2>0, <3>2, SameRow
  <2> SUFFICES ASSUME NEW b \in Attempt, NEW c \in Attempt,
                      session'[b] = session'[c], session'[c] # NoSession, b # c
               PROVE  /\ b[1] = c[1]
                      /\ b[2] < c[2] =>
                            /\ resumedFrom[c] = c[2] - 1
                            /\ session'[<<c[1], c[2] - 1>>] = session'[c]
    BY <1>1 DEF SessionLineage
  <2>1. CASE b # a /\ c # a
    <3>1. session[b] = session[c] /\ session[c] # NoSession
      BY <1>2, <2>1
    <3>2. /\ b[1] = c[1]
          /\ b[2] < c[2] => resumedFrom[c] = c[2] - 1 /\ session[<<c[1], c[2] - 1>>] = session[c]
      BY <3>1 DEF ControlInv, SessionLineage
    <3>3. ASSUME b[2] < c[2]
          PROVE  session'[<<c[1], c[2] - 1>>] = session[<<c[1], c[2] - 1>>]
      <4>1. <<c[1], c[2] - 1>> \in Attempt
        BY <3>3, AttemptPair, BoundAssumption DEF Attempt, AttemptNo
      <4>2. <<c[1], c[2] - 1>> # a
        BY <1>2, <3>1, <3>2, <3>3
      <4> QED
        BY <1>2, <4>1, <4>2
    <3> QED
      BY <1>2, <2>1, <3>1, <3>2, <3>3
  <2>2. CASE c = a
    <3>1. session[b] = s /\ b # a
      BY <1>2, <2>2
    <3>2. b[1] = a[1] /\ resumedFrom[a] # 0
      BY <1>2, <3>1 DEF SessionFree
    <3>3. resumedFrom[a] = a[2] - 1 /\ s = session[<<a[1], a[2] - 1>>]
      BY <1>2, <3>2 DEF ControlInv, ResumedInTurn
    <3>4. ASSUME b[2] < a[2]
          PROVE  <<a[1], a[2] - 1>> \in Attempt /\ <<a[1], a[2] - 1>> # a
      BY <3>4, AttemptPair, BoundAssumption DEF Attempt, AttemptNo
    <3> QED
      BY <1>2, <2>2, <3>2, <3>3, <3>4
  <2>3. CASE b = a
    <3>1. session[c] = s /\ c # a
      BY <1>2, <2>3
    <3>2. c[1] = a[1]
      BY <1>2, <3>1 DEF SessionFree
    <3>3. c[2] < a[2]
      BY <1>2, <2>0, <3>1, <3>2
    <3> QED
      BY <2>3, <3>2, <3>3
  <2> QED
    BY <2>1, <2>2, <2>3
<1> QED
  BY <1>1, <1>3, <1>4, <1>5, <1>6 DEF ControlInv

LEMMA HangsOnKeeps ==
    TypeOK /\ StageInv /\ ControlInv /\ HangsOn => Keeps /\ ControlInv'
<1> SUFFICES ASSUME TypeOK, StageInv, ControlInv, HangsOn
             PROVE  Keeps /\ ControlInv'
  OBVIOUS
<1> USE CurrentFacts DEF jobVars, processVars
<1>1. ASSUME NEW a \in Attempt, RecordExternalProcess(a) \/ ClearExternalProcess(a)
      PROVE  Keeps /\ ControlInv'
  <2>1. /\ Keeps /\ jobStatus[a[1]] = "running" /\ a = Current(a[1])
        /\ a[1] \notin lapsed
    BY <1>1, AttemptPair DEF RecordExternalProcess, ClearExternalProcess, LiveLease, Keeps, Current
  <2>2. recon[a] = Nobody /\ recon' = recon
    BY <1>1, <2>1 DEF ControlInv, ProcessKeepsJob, RecordExternalProcess, ClearExternalProcess
  <2>3. /\ \A b \in Attempt \ {a} : proc'[b] = proc[b]
        /\ proc'[a] \in {"active", "stopped"}
        /\ UNCHANGED controlVars
    BY <1>1 DEF RecordExternalProcess, ClearExternalProcess, TypeOK
  <2> QED
    BY <2>1, <2>2, <2>3, ProcessStep
<1>2. ASSUME NEW a \in Attempt, NEW w \in Reconciler,
             \/ QuarantineProcess(w, a)
             \/ \E retry \in BOOLEAN : ClaimReconciliation(w, a, retry)
      PROVE  Keeps /\ ControlInv'
  <2>1. /\ Keeps /\ jobStatus[a[1]] = "running" /\ a = Current(a[1]) /\ a[1] \in lapsed
        /\ UNCHANGED controlVars
    BY <1>2 DEF QuarantineProcess, ClaimReconciliation, ReconciliationHeld, Keeps
  <2>2. /\ \A b \in Attempt \ {a} : proc'[b] = proc[b] /\ recon'[b] = recon[b]
        /\ proc'[a] \in {"active", "quarantined"}
    BY <1>2 DEF QuarantineProcess, ClaimReconciliation, TypeOK
  <2> QED
    BY <2>1, <2>2, ProcessStep
<1>3. ASSUME NEW a \in Attempt, ReconciliationLapses(a)
      PROVE  Keeps /\ ControlInv'
  BY <1>3 DEF ReconciliationLapses, Keeps, ControlInv, ProcessKeepsJob, InterruptCurrent,
              ResumeStaysExact, ResumeExact, ResumedInTurn, SessionsBegun, SessionLineage,
              Current, controlVars
<1> QED
  BY <1>1, <1>2, <1>3, RequestStep, SessionStep DEF HangsOn

-----------------------------------------------------------------------------
(* Every step is of one of the kinds. *)

\* A step that ends nothing.
LEMMA NothingEnds ==
    ASSUME TypeOK, StageInv,
           \A j \in Job : \/ jobStatus'[j] = jobStatus[j]
                          \/ jobStatus[j] = "absent" /\ jobStatus'[j] = "pending",
           lapsed \subseteq lapsed',
           UNCHANGED <<attemptCount, attemptStatus, proc, recon, controlVars>>
    PROVE  Ends({})
  BY DEF Ends, controlVars

\* What the queue writes when it ends the attempts of some running jobs.
LEMMA WritesEnd ==
    ASSUME TypeOK, StageInv, NEW J \in SUBSET Job, \A j \in J : jobStatus[j] = "running",
           NEW next \in {"pending", "completed", "failed"}, NEW ended \in EndStates,
           \A j \in Job \ J : \/ jobStatus'[j] = JobsSet(J, next)[j]
                              \/ jobStatus[j] = "absent" /\ jobStatus'[j] = "pending",
           \A j \in J : jobStatus'[j] = JobsSet(J, next)[j],
           attemptStatus' = AttemptsEnded(J, ended),
           \A j \in J :
              /\ proc'[Current(j)] \notin {"active", "quarantined"}
              /\ recon'[Current(j)] = Nobody
              /\ j \in lapsed => ended = "expired"
              /\ interruptAt[j] # 0 => ended \in {"expired", "interrupted"}
              /\ interruptAt'[j] = 0,
           \A j \in Job \ J : interruptAt'[j] = interruptAt[j] /\ (j \in lapsed => j \in lapsed'),
           \A a \in Attempt : a[1] \notin J \/ a # Current(a[1]) =>
              proc'[a] = proc[a] /\ recon'[a] = recon[a],
           UNCHANGED <<attemptCount, session, resumedFrom, resumeFrom>>
    PROVE  Ends(J)
<1>1. \A j \in Job : JobsSet(J, next)[j] = IF j \in J THEN next ELSE jobStatus[j]
  BY DEF JobsSet
<1>2. \A a \in Attempt :
         attemptStatus'[a] =
            IF a[1] \in J /\ a = Current(a[1]) /\ attemptStatus[a] = "running"
            THEN ended ELSE attemptStatus[a]
  BY DEF AttemptsEnded
<1>3. \A j \in J : attemptStatus'[Current(j)] = ended
  BY <1>2, CurrentFacts
<1> QED
  BY <1>1, <1>2, <1>3 DEF Ends

\* The row of a new job.
LEMMA AddedJob ==
    ASSUME TypeOK, StageInv, NEW i \in Item, NEW r, NEW st, NEW resources, NEW status,
           status \in [Job -> JobStates], jobCount[i] < MaxJobs,
           AddJob(i, r, st, resources, status)
    PROVE  \A j \in Job : \/ jobStatus'[j] = status[j]
                          \/ jobStatus[j] = "absent" /\ jobStatus'[j] = "pending"
<1>1. jobCount[i] \in Nat /\ NextJob(i) \in Job /\ NextJob(i)[2] > jobCount[NextJob(i)[1]]
  BY BoundAssumption DEF NextJob, Job, TypeOK
<1>2. jobStatus[NextJob(i)] = "absent"
  BY <1>1 DEF StageInv, Agree
<1> QED
  BY <1>1, <1>2 DEF AddJob

LEMMA ItemKind == ASSUME TypeOK, StageInv, ItemStep PROVE Ends({})
<1> USE NothingEnds DEF jobVars, processVars
<1>1. jobStatus \in [Job -> JobStates]
  BY DEF TypeOK
<1>2. CASE \E i \in Item, state \in CreatableStates : CreateWorkItem(i, state)
  BY <1>2 DEF CreateWorkItem
<1>3. ASSUME NEW i \in Item, NEW r \in Role, NEW st \in Stage, NEW resources \in SUBSET Resource,
             CreateWorkItemWithJob(i, r, st, resources) \/ EnqueueJob(i, r, st, resources)
      PROVE  Ends({})
  <2>1. /\ jobCount[i] < MaxJobs /\ AddJob(i, r, st, resources, jobStatus)
        /\ UNCHANGED <<attemptCount, attemptStatus, lapsed, processVars, controlVars>>
    BY <1>3 DEF CreateWorkItemWithJob, EnqueueJob, Enqueueable
  <2>2. \A j \in Job : \/ jobStatus'[j] = jobStatus[j]
                       \/ jobStatus[j] = "absent" /\ jobStatus'[j] = "pending"
    BY <1>1, <2>1, AddedJob
  <2> QED
    BY <2>1, <2>2
<1>4. CASE \E i \in Item : ChangeBindings(i)
  BY <1>4 DEF ChangeBindings
<1> QED
  BY <1>2, <1>3, <1>4 DEF ItemStep

\* Recovery ends lapsed attempts whose process is resolved.
LEMMA RecoveryKind ==
    ASSUME TypeOK, StageInv, ControlInv, RecoverExpiredLeases
    PROVE  Ends(Recovered)
<1>1. /\ Recovered \in SUBSET Job
      /\ \A j \in Recovered :
            j \in lapsed /\ jobStatus[j] = "running" /\ ~Unresolved(Current(j))
      /\ \A j \in Recovered : Current(j) \in Attempt
  BY CurrentFacts, RecoveredType DEF Recovered
<1>2. \A j \in Recovered : recon[Current(j)] = Nobody
  BY <1>1 DEF ControlInv, ProcessKeepsJob, Unresolved
<1>3. \A j \in Job : interruptAt'[j] = IF j \in Recovered THEN 0 ELSE interruptAt[j]
  BY DEF RecoverExpiredLeases, InterruptsDropped
<1>4. /\ jobStatus' = JobsSet(Recovered, "pending")
      /\ attemptStatus' = AttemptsEnded(Recovered, "expired")
      /\ lapsed' = lapsed \ Recovered
      /\ UNCHANGED <<proc, recon, attemptCount, session, resumedFrom, resumeFrom>>
  BY DEF RecoverExpiredLeases, processVars
<1> QED
  BY <1>1, <1>2, <1>3, <1>4, WritesEnd DEF Unresolved, EndStates

\* A claim takes a job that is pending once recovery has run.
LEMMA ClaimKind ==
    ASSUME TypeOK, StageInv, NEW j \in Job, ClaimJob(j)
    PROVE  Takes(Recovered, j)
<1> DEFINE a == <<j, attemptCount[j] + 1>>
<1>1. /\ Recovered \in SUBSET Job /\ Recovered \in SUBSET lapsed
      /\ \A k \in Recovered :
            /\ jobStatus[k] = "running" /\ ~Unresolved(Current(k))
            /\ attemptStatus[Current(k)] = "running"
  BY CurrentFacts, RecoveredType DEF Recovered
<1>2. /\ Claimable(j)
      /\ jobStatus' = [JobsSet(Recovered, "pending") EXCEPT ![j] = "running"]
      /\ attemptCount' = [attemptCount EXCEPT ![j] = @ + 1]
      /\ attemptStatus' = [AttemptsEnded(Recovered, "expired") EXCEPT ![a] = "running"]
      /\ lapsed' = lapsed \ Recovered
      /\ interruptAt' = InterruptsDropped(Recovered)
      /\ resumedFrom' = [resumedFrom EXCEPT ![a] = resumeFrom[j]]
      /\ resumeFrom' = [resumeFrom EXCEPT ![j] = 0]
      /\ UNCHANGED <<processVars, session>>
  BY DEF ClaimJob
<1>3. a \in Attempt /\ attemptCount[j] \in Nat
  BY <1>2, BoundAssumption DEF Claimable, TypeOK, Attempt, AttemptNo
<1>4. /\ jobStatus[j] = "pending" \/ j \in Recovered
      /\ resumeFrom[j] # 0 => ResumeExact(j)
  BY <1>2 DEF Claimable, JobsSet
<1>5. \A k \in Job :
         /\ jobStatus'[k] = IF k = j THEN "running"
                            ELSE IF k \in Recovered THEN "pending" ELSE jobStatus[k]
         /\ attemptCount'[k] = IF k = j THEN attemptCount[j] + 1 ELSE attemptCount[k]
         /\ interruptAt'[k] = IF k \in Recovered THEN 0 ELSE interruptAt[k]
         /\ resumeFrom'[k] = IF k = j THEN 0 ELSE resumeFrom[k]
  BY <1>2 DEF JobsSet, InterruptsDropped, TypeOK
<1>6. ASSUME NEW b \in Attempt
      PROVE  /\ attemptStatus'[b] =
                   IF b = a THEN "running"
                   ELSE IF b[1] \in Recovered /\ b = Current(b[1])
                        THEN "expired" ELSE attemptStatus[b]
             /\ resumedFrom'[b] = IF b = a THEN resumeFrom[j] ELSE resumedFrom[b]
  <2> HIDE DEF a
  <2> QED
    BY <1>1, <1>2 DEF AttemptsEnded, TypeOK
<1> QED
  BY <1>1, <1>2, <1>3, <1>4, <1>5, <1>6 DEF Takes

\* A worker ends its own attempt.
LEMMA WorkerKind ==
    ASSUME TypeOK, StageInv, ControlInv, NEW a \in Attempt, LiveLease(a), ~Unresolved(a),
           NEW next \in {"pending", "completed", "failed"}, NEW ended \in EndStates,
           \A j \in Job \ {a[1]} : \/ jobStatus'[j] = JobsSet({a[1]}, next)[j]
                                   \/ jobStatus[j] = "absent" /\ jobStatus'[j] = "pending",
           jobStatus'[a[1]] = JobsSet({a[1]}, next)[a[1]],
           attemptStatus' = AttemptsEnded({a[1]}, ended),
           interruptAt[a[1]] # 0 => ended = "interrupted",
           \A j \in Job : interruptAt'[j] = IF j = a[1] THEN 0 ELSE interruptAt[j],
           UNCHANGED <<lapsed, proc, recon, attemptCount, session, resumedFrom, resumeFrom>>
    PROVE  Ends({a[1]})
<1>1. a[1] \in Job /\ jobStatus[a[1]] = "running" /\ a = Current(a[1]) /\ a[1] \notin lapsed
  BY AttemptPair DEF LiveLease, Current
<1>2. recon[a] = Nobody
  BY DEF ControlInv, ProcessKeepsJob, Unresolved
<1> DEFINE J == {a[1]}
<1>3. /\ J \in SUBSET Job
      /\ \A j \in Job : j \in J <=> j = a[1]
      /\ \A j \in J : j = a[1]
  BY <1>1
<1>4. \A j \in J :
         /\ jobStatus[j] = "running"
         /\ jobStatus'[j] = JobsSet(J, next)[j]
         /\ proc'[Current(j)] \notin {"active", "quarantined"}
         /\ recon'[Current(j)] = Nobody
         /\ j \in lapsed => ended = "expired"
         /\ interruptAt[j] # 0 => ended \in {"expired", "interrupted"}
         /\ interruptAt'[j] = 0
  BY <1>1, <1>2, <1>3 DEF Unresolved
<1>5. \A j \in Job \ J :
         /\ \/ jobStatus'[j] = JobsSet(J, next)[j]
            \/ jobStatus[j] = "absent" /\ jobStatus'[j] = "pending"
         /\ interruptAt'[j] = interruptAt[j] /\ (j \in lapsed => j \in lapsed')
  BY <1>3
<1>6. attemptStatus' = AttemptsEnded(J, ended)
  OBVIOUS
<1>7. /\ \A b \in Attempt : proc'[b] = proc[b] /\ recon'[b] = recon[b]
      /\ UNCHANGED <<attemptCount, session, resumedFrom, resumeFrom>>
  OBVIOUS
<1> HIDE DEF J
<1>8. Ends(J)
  BY ONLY TypeOK, StageInv, next \in {"pending", "completed", "failed"}, ended \in EndStates,
          <1>3, <1>4, <1>5, <1>6, <1>7, WritesEnd
<1> QED
  BY <1>8 DEF J

LEMMA WorkerKinds ==
    ASSUME TypeOK, StageInv, ControlInv, WorkerStep
    PROVE  (\E J \in SUBSET Job : Ends(J)) \/ HangsOn
<1> USE DEF jobVars, processVars
<1>1. ASSUME NEW a \in Attempt, HeartbeatJob(a)
      PROVE  Ends({})
  <2>1. lapsed' = lapsed
    BY <1>1 DEF HeartbeatJob, LiveLease
  <2> QED
    BY <1>1, <2>1, NothingEnds DEF HeartbeatJob
<1>2. ASSUME NEW a \in Attempt, InterruptJob(a)
      PROVE  Ends({a[1]})
  <2>1. LiveLease(a) /\ ~Unresolved(a) /\ interruptAt[a[1]] = 0
    BY <1>2 DEF InterruptJob, MayEnd, NoPendingInterrupt
  <2>2. /\ attemptStatus' = AttemptsEnded({a[1]}, "interrupted")
        /\ jobStatus' = JobsSet({a[1]}, "pending")
        /\ UNCHANGED <<lapsed, proc, recon, attemptCount, interruptAt, session, resumedFrom,
                       resumeFrom>>
    BY <1>2 DEF InterruptJob, EndAttempt
  <2> QED
    BY <2>1, <2>2, AttemptPair, WorkerKind DEF EndStates
<1>3. ASSUME NEW a \in Attempt, CompleteOperatorInterrupt(a)
      PROVE  Ends({a[1]})
  <2>1. LiveLease(a) /\ ~Unresolved(a)
    BY <1>3 DEF CompleteOperatorInterrupt, MayComplete
  <2>2. /\ attemptStatus' = AttemptsEnded({a[1]}, "interrupted")
        /\ jobStatus' = JobsSet({a[1]}, "pending")
        /\ \A j \in Job : interruptAt'[j] = IF j = a[1] THEN 0 ELSE interruptAt[j]
        /\ UNCHANGED <<lapsed, proc, recon, attemptCount, session, resumedFrom, resumeFrom>>
    BY <1>3 DEF CompleteOperatorInterrupt, EndAttempt, InterruptsDropped
  <2> QED
    BY <2>1, <2>2, AttemptPair, WorkerKind DEF EndStates
<1>4. ASSUME NEW a \in Attempt, NEW requeue \in BOOLEAN, FailJob(a, requeue)
      PROVE  Ends({a[1]})
  <2>1. LiveLease(a) /\ ~Unresolved(a) /\ interruptAt[a[1]] = 0
    BY <1>4 DEF FailJob, MayEnd, NoPendingInterrupt
  <2>2. PICK next \in {"pending", "failed"} : jobStatus' = JobsSet({a[1]}, next)
    BY <1>4 DEF FailJob, EndAttempt
  <2>3. /\ attemptStatus' = AttemptsEnded({a[1]}, "failed")
        /\ UNCHANGED <<lapsed, proc, recon, attemptCount, interruptAt, session, resumedFrom,
                       resumeFrom>>
    BY <1>4 DEF FailJob, EndAttempt
  <2> QED
    BY <2>1, <2>2, <2>3, AttemptPair, WorkerKind DEF EndStates
<1>5. ASSUME NEW a \in Attempt, NEW next \in ItemStates, NEW resources \in SUBSET Resource,
             CommitStageResult(a, next, resources)
      PROVE  Ends({a[1]})
  <2> DEFINE js == JobsSet({a[1]}, "completed")
             i == ItemOf(a[1])
  <2>1. /\ LiveLease(a) /\ ~Unresolved(a) /\ interruptAt[a[1]] = 0
        /\ a[1] \in Job /\ jobStatus[a[1]] = "running" /\ i \in Item
    BY <1>5, AttemptPair, JobItem DEF CommitStageResult, MayCommit, NoPendingInterrupt, LiveLease
  <2>2. /\ attemptStatus' = AttemptsEnded({a[1]}, "succeeded")
        /\ UNCHANGED <<lapsed, proc, recon, attemptCount, interruptAt, session, resumedFrom,
                       resumeFrom>>
    BY <1>5 DEF CommitStageResult, controlVars
  <2>3. \/ jobStatus' = js
        \/ \E r \in Successor(next), st \in Stage :
              jobCount[i] < MaxJobs /\ AddJob(i, r, st, resources, js)
    BY <1>5 DEF CommitStageResult
  <2>4. js \in [Job -> JobStates]
    BY <2>1, EndTypes DEF JobStates, AttemptStates
  <2> HIDE DEF js, i
  <2>5. \A j \in Job : \/ jobStatus'[j] = js[j]
                       \/ jobStatus[j] = "absent" /\ jobStatus'[j] = "pending"
    BY <2>1, <2>3, <2>4, AddedJob
  <2>6. jobStatus'[a[1]] = js[a[1]]
    BY <2>1, <2>5
  <2> QED
    BY <2>1, <2>2, <2>5, <2>6, WorkerKind DEF EndStates, js
<1>6. \A a \in Attempt : {a[1]} \in SUBSET Job
  BY AttemptPair
<1> QED
  BY <1>1, <1>2, <1>3, <1>4, <1>5, <1>6 DEF WorkerStep, HangsOn

\* A reconciler that reports a process gone ends its attempt.
LEMMA ResolveKind ==
    ASSUME TypeOK, StageInv, ControlInv, NEW w \in Reconciler, NEW a \in Attempt,
           ResolveProcess(w, a)
    PROVE  Ends({a[1]})
<1> DEFINE J == {a[1]}
<1>1. /\ J \in SUBSET Job
      /\ \A j \in Job : j \in J <=> j = a[1]
      /\ \A j \in J : j = a[1]
      /\ jobStatus[a[1]] = "running" /\ a = Current(a[1]) /\ a[1] \in lapsed
  BY AttemptPair DEF ResolveProcess, ReconciliationHeld
<1>2. /\ proc' = [proc EXCEPT ![a] = "stopped"]
      /\ recon' = [recon EXCEPT ![a] = Nobody]
      /\ jobStatus' = JobsSet(J, "pending")
      /\ attemptStatus' = AttemptsEnded(J, "expired")
      /\ lapsed' = lapsed \ J
      /\ interruptAt' = InterruptsDropped(J)
      /\ UNCHANGED <<attemptCount, session, resumedFrom, resumeFrom>>
  BY DEF ResolveProcess
<1> HIDE DEF J
<1>3. /\ proc'[a] = "stopped" /\ recon'[a] = Nobody
      /\ \A b \in Attempt \ {a} : proc'[b] = proc[b] /\ recon'[b] = recon[b]
      /\ \A j \in Job : interruptAt'[j] = IF j \in J THEN 0 ELSE interruptAt[j]
  BY <1>2 DEF TypeOK, InterruptsDropped
<1>4. \A j \in J :
         /\ jobStatus[j] = "running"
         /\ jobStatus'[j] = JobsSet(J, "pending")[j]
         /\ proc'[Current(j)] \notin {"active", "quarantined"}
         /\ recon'[Current(j)] = Nobody
         /\ interruptAt'[j] = 0
  BY <1>1, <1>2, <1>3
<1>5. \A j \in Job \ J :
         /\ jobStatus'[j] = JobsSet(J, "pending")[j]
         /\ interruptAt'[j] = interruptAt[j]
         /\ j \in lapsed => j \in lapsed'
  BY <1>1, <1>2, <1>3
<1>6. \A b \in Attempt : b[1] \notin J \/ b # Current(b[1]) =>
         proc'[b] = proc[b] /\ recon'[b] = recon[b]
  BY <1>1, <1>3, AttemptPair
<1>7. Ends(J)
  BY <1>1, <1>2, <1>4, <1>5, <1>6, WritesEnd DEF EndStates
<1> QED
  BY <1>7 DEF J

\* Whatever happens next.
LEMMA Kinds ==
    ASSUME TypeOK, StageInv, ControlInv, [Next]_vars
    PROVE  \/ \E J \in SUBSET Job : Ends(J)
           \/ \E j \in Job : Takes(Recovered, j)
           \/ HangsOn
<1> USE DEF jobVars, processVars
<1>0. {} \in SUBSET Job
  OBVIOUS
<1>1. CASE ItemStep
  BY <1>0, <1>1, ItemKind
<1>2. CASE QueueStep
  <2>1. CASE RecoverExpiredLeases
    BY <2>1, RecoveryKind, RecoveredType
  <2>2. CASE \E j \in Job : ClaimJob(j)
    BY <2>2, ClaimKind
  <2>3. ASSUME NEW j \in Job, LeaseLapses(j)
        PROVE  Ends({})
    BY <2>3, NothingEnds DEF LeaseLapses
  <2> QED
    BY <1>0, <1>2, <2>1, <2>2, <2>3 DEF QueueStep
<1>3. CASE WorkerStep
  BY <1>3, WorkerKinds
<1>4. CASE OperatorStep
  BY <1>4 DEF OperatorStep, HangsOn
<1>5. CASE ReconcilerStep
  <2>1. ASSUME NEW w \in Reconciler, NEW a \in Attempt, ResolveProcess(w, a)
        PROVE  \E J \in SUBSET Job : Ends(J)
    <3>1. {a[1]} \in SUBSET Job
      BY AttemptPair
    <3> QED
      BY <2>1, <3>1, ResolveKind
  <2> QED
    BY <1>5, <2>1 DEF ReconcilerStep, HangsOn
<1>6. CASE ResourceStep
  <2>1. UNCHANGED <<itemVars, jobVars, processVars, controlVars>>
    BY <1>6 DEF ResourceStep, AcquireResource, HeartbeatResource, ReleaseResource,
                ResourceLapses
  <2> QED
    BY <1>0, <2>1, NothingEnds
<1>7. CASE UNCHANGED vars
  BY <1>0, <1>7, NothingEnds DEF vars
<1> QED
  BY <1>1, <1>2, <1>3, <1>4, <1>5, <1>6, <1>7 DEF Next

-----------------------------------------------------------------------------
(* The theorems. *)

LEMMA ControlInit == Init => ControlInv
<1> SUFFICES ASSUME Init
             PROVE  ControlInv
  OBVIOUS
<1>1. \A a \in Attempt : a[1] \in Job
  BY AttemptPair
<1> QED
  BY <1>1
     DEF Init, ControlInv, ProcessKeepsJob, InterruptCurrent, ResumeStaysExact, ResumedInTurn,
         SessionsBegun, SessionLineage

LEMMA ControlStep == TypeOK /\ StageInv /\ ControlInv /\ [Next]_vars => ControlInv'
  BY Kinds, EndsKeep, TakesKeep, HangsOnKeeps

\* What hangs on an attempt follows it, in every reachable state.
THEOREM ControlInvariant == Spec => []ControlInv
  BY ControlInit, ControlStep, TypeCorrect, StageCorrect, PTL DEF Spec

\* A process that may be alive keeps its job, whatever schedulers and reconcilers do.
THEOREM ProcessKeepsJobAlways == Spec => []ProcessKeepsJob
<1>1. ControlInv => ProcessKeepsJob
  BY DEF ControlInv
<1> QED
  BY <1>1, ControlInvariant, PTL

\* A pending resume stays one that a claim can consume (the claim of storage.py raises on
\* any other).
THEOREM ResumeStaysExactAlways == Spec => []ResumeStaysExact
<1>1. ControlInv => ResumeStaysExact
  BY DEF ControlInv
<1> QED
  BY <1>1, ControlInvariant, PTL

\* A provider session goes from an attempt to its resumption and nowhere else.
THEOREM SessionLineageAlways == Spec => []SessionLineage
<1>1. ControlInv => SessionLineage
  BY DEF ControlInv
<1> QED
  BY <1>1, ControlInvariant, PTL

\* A step that hangs on an attempt is about one that runs.
LEMMA HangsOnRunning ==
    ASSUME TypeOK, StageInv, HangsOn,
           NEW a \in Attempt, attemptStatus[a] # "running"
    PROVE  session'[a] = session[a] /\ proc'[a] = proc[a] /\ resumedFrom'[a] = resumedFrom[a]
<1> USE CurrentFacts DEF jobVars, processVars, controlVars
<1>1. ASSUME NEW b \in Attempt, LiveLease(b) \/ (jobStatus[b[1]] = "running" /\ b = Current(b[1]))
      PROVE  b # a
  BY <1>1, AttemptPair DEF LiveLease, Current
<1>2. ASSUME NEW b \in Attempt, RequestJobInterrupt(b) \/ RequestJobResume(b) \/ ReconciliationLapses(b)
      PROVE  UNCHANGED <<session, proc, resumedFrom>>
  BY <1>2 DEF RequestJobInterrupt, RequestJobResume, ReconciliationLapses
<1>3. ASSUME NEW b \in Attempt, RecordExternalProcess(b) \/ ClearExternalProcess(b)
      PROVE  proc'[a] = proc[a] /\ UNCHANGED <<session, resumedFrom>>
  BY <1>1, <1>3 DEF RecordExternalProcess, ClearExternalProcess, TypeOK
<1>4. ASSUME NEW b \in Attempt, NEW s \in Session, RecordExternalSession(b, s)
      PROVE  session'[a] = session[a] /\ UNCHANGED <<proc, resumedFrom>>
  BY <1>1, <1>4 DEF RecordExternalSession, TypeOK
<1>5. ASSUME NEW b \in Attempt, NEW w \in Reconciler,
             \/ QuarantineProcess(w, b)
             \/ \E retry \in BOOLEAN : ClaimReconciliation(w, b, retry)
      PROVE  proc'[a] = proc[a] /\ UNCHANGED <<session, resumedFrom>>
  BY <1>1, <1>5 DEF QuarantineProcess, ClaimReconciliation, ReconciliationHeld, TypeOK
<1> QED
  BY <1>2, <1>3, <1>4, <1>5 DEF HangsOn

\* Whatever a stale token holder presents, an ended attempt stays as it ended.
THEOREM EndedAttemptFrozenAlways == Spec => EndedAttemptFrozen
<1> DEFINE Frozen(a) ==
               attemptStatus[a] \notin {"none", "running"} =>
                   /\ attemptStatus'[a] = attemptStatus[a]
                   /\ session'[a] = session[a]
                   /\ proc'[a] = proc[a]
                   /\ resumedFrom'[a] = resumedFrom[a]
<1>1. ASSUME TypeOK, StageInv, ControlInv, [Next]_vars
      PROVE  \A a \in Attempt : Frozen(a)
  <2> USE <1>1, CurrentFacts
  <2>1. CASE \E J \in SUBSET Job : Ends(J)
    BY <2>1 DEF Ends
  <2>2. ASSUME NEW j \in Job, Takes(Recovered, j)
        PROVE  \A a \in Attempt : Frozen(a)
    <3> DEFINE t == <<j, attemptCount[j] + 1>>
    <3>1. t \in Attempt /\ t[1] = j /\ t[2] > attemptCount[t[1]]
      BY <2>2 DEF Takes
    <3>2. attemptStatus[t] = "none"
      BY <3>1 DEF StageInv, Agree
    <3>3. \A k \in Recovered : attemptStatus[Current(k)] = "running"
      BY <2>2 DEF Takes
    <3> HIDE DEF t
    <3>4. \A a \in Attempt : a # t =>
             /\ resumedFrom'[a] = resumedFrom[a]
             /\ a[1] \notin Recovered \/ a # Current(a[1]) => attemptStatus'[a] = attemptStatus[a]
      BY <2>2 DEF Takes, t
    <3>5. UNCHANGED <<session, proc>>
      BY <2>2 DEF Takes, processVars
    <3> QED
      BY <3>2, <3>3, <3>4, <3>5
  <2>3. CASE HangsOn
    BY <1>1, <2>3, HangsOnRunning, HangsOnKeeps DEF Keeps
  <2> QED
    BY <1>1, <2>1, <2>2, <2>3, Kinds
<1>2. TypeOK /\ StageInv /\ ControlInv /\ [Next]_vars => [\A a \in Attempt : Frozen(a)]_vars
  BY <1>1
<1> QED
  BY <1>2, TypeCorrect, StageCorrect, ControlInvariant, PTL DEF Spec, EndedAttemptFrozen

\* A lapsed attempt can only expire.
THEOREM LapsedOnlyExpiresAlways == Spec => LapsedOnlyExpires
<1> DEFINE OnlyExpires(j) == \/ j \in lapsed' /\ attemptCount'[j] = attemptCount[j]
                             \/ attemptStatus'[Current(j)] = "expired"
<1>1. ASSUME TypeOK, StageInv, ControlInv, [Next]_vars
      PROVE  \A j \in lapsed : OnlyExpires(j)
  <2> USE <1>1, CurrentFacts
  <2>1. CASE \E J \in SUBSET Job : Ends(J)
    BY <2>1 DEF Ends
  <2>2. ASSUME NEW k \in Job, Takes(Recovered, k), NEW j \in lapsed
        PROVE  OnlyExpires(j)
    <3>1. CASE j \in Recovered
      <4>1. Current(j) \in Attempt /\ Current(j)[1] = j /\ Current(j)[2] = attemptCount[j]
        OBVIOUS
      <4>2. Current(j) # <<k, attemptCount[k] + 1>>
        BY <4>1 DEF Current
      <4>3. attemptStatus'[Current(j)] = "expired"
        BY <2>2, <3>1, <4>1, <4>2 DEF Takes
      <4> QED
        BY <4>3
    <3>2. CASE j \notin Recovered
      <4>1. j \in Job /\ j # k
        BY <2>2, <3>2 DEF Takes
      <4> QED
        BY <2>2, <3>2, <4>1 DEF Takes
    <3> QED
      BY <3>1, <3>2
  <2>3. CASE HangsOn
    BY <1>1, <2>3, HangsOnKeeps DEF Keeps
  <2> QED
    BY <1>1, <2>1, <2>2, <2>3, Kinds
<1>2. TypeOK /\ StageInv /\ ControlInv /\ [Next]_vars => [\A j \in lapsed : OnlyExpires(j)]_vars
  BY <1>1
<1> QED
  BY <1>2, TypeCorrect, StageCorrect, ControlInvariant, PTL DEF Spec, LapsedOnlyExpires

\* An interrupt, once requested, is not lost to a result that comes after it.
THEOREM InterruptBeatsResultAlways == Spec => InterruptBeatsResult
<1> DEFINE Beats(j) ==
               interruptAt[j] # 0 =>
                   LET a == <<j, interruptAt[j]>>
                   IN  \/ interruptAt'[j] = interruptAt[j] /\ attemptStatus'[a] = "running"
                       \/ interruptAt'[j] = 0 /\ attemptStatus'[a] \in {"interrupted", "expired"}
<1>1. ASSUME TypeOK, StageInv, ControlInv, [Next]_vars
      PROVE  \A j \in Job : Beats(j)
  <2> USE <1>1, CurrentFacts
  <2> SUFFICES ASSUME NEW j \in Job, interruptAt[j] # 0
               PROVE  \/ /\ interruptAt'[j] = interruptAt[j]
                         /\ attemptStatus'[Current(j)] = "running"
                      \/ /\ interruptAt'[j] = 0
                         /\ attemptStatus'[Current(j)] \in {"interrupted", "expired"}
    BY <1>1 DEF ControlInv, InterruptCurrent, Current
  <2>1. jobStatus[j] = "running"
    BY <1>1 DEF ControlInv, InterruptCurrent
  <2>2. CASE \E J \in SUBSET Job : Ends(J)
    BY <1>1, <2>1, <2>2 DEF Ends
  <2>3. ASSUME NEW k \in Job, Takes(Recovered, k)
        PROVE  \/ /\ interruptAt'[j] = interruptAt[j]
                  /\ attemptStatus'[Current(j)] = "running"
               \/ /\ interruptAt'[j] = 0
                  /\ attemptStatus'[Current(j)] \in {"interrupted", "expired"}
    <3>1. /\ Current(j) \in Attempt /\ Current(j)[1] = j /\ Current(j)[2] = attemptCount[j]
          /\ attemptStatus[Current(j)] = "running"
      BY <1>1, <2>1
    <3>2. Current(j) # <<k, attemptCount[k] + 1>>
      BY <1>1, <3>1 DEF Current
    <3> QED
      BY <2>3, <3>1, <3>2 DEF Takes
  <2>4. CASE HangsOn
    <3>1. Keeps
      BY <1>1, <2>4, HangsOnKeeps
    <3>2. interruptAt'[j] = interruptAt[j]
      BY <1>1, <2>4
         DEF HangsOn, RequestJobInterrupt, RequestJobResume, RecordExternalProcess,
             ClearExternalProcess, ReconciliationLapses, RecordExternalSession,
             QuarantineProcess, ClaimReconciliation, controlVars, TypeOK
    <3> QED
      BY <1>1, <2>1, <3>1, <3>2 DEF Keeps
  <2> QED
    BY <1>1, <2>2, <2>3, <2>4, Kinds
<1>2. TypeOK /\ StageInv /\ ControlInv /\ [Next]_vars => [\A j \in Job : Beats(j)]_vars
  BY <1>1
<1> QED
  BY <1>2, TypeCorrect, StageCorrect, ControlInvariant, PTL DEF Spec, InterruptBeatsResult
=============================================================================
