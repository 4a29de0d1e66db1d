---------------------------- MODULE AdmissionProofs ----------------------------
(***************************************************************************)
(* What an admission guarantees, for any number of plans, admissions and   *)
(* attempts, any versions of files and runtimes, and any registered        *)
(* resources.                                                              *)
(*                                                                         *)
(* The authority of a step is asked for at the step itself.  What reaches  *)
(* back is the execution: its plan is the one its admission was made for,  *)
(* every plan has the test file and the runtime of the first, and only the *)
(* current attempt of a running job has one that is open.                  *)
(***************************************************************************)
EXTENDS AdmissionProperties, TLAPS

-----------------------------------------------------------------------------
(* The inductive invariant. *)

\* The queue: a job that goes on has attempts left, its attempt is counted, and
\* an unresolved process is found only under a lapsed lease.
JobStands ==
    /\ job \in {"pending", "running"} => failures < MaxFailures
    /\ Running => attempt \in Attempt
    /\ Running /\ process[attempt] = "quarantined" => lapsed

\* Nothing is known of attempts to come.
AttemptsToCome ==
    \A a \in Attempt :
        a > attempt => pinned[a] = 0 /\ process[a] = "none" /\ execution[a] = NoExecution

\* A revision replaces neither the test file nor the runtime.
PlansAgree ==
    \A n \in DOMAIN plans :
        plans[n].runtime = plans[1].runtime /\ plans[n].tree.test = plans[1].tree.test

\* Admissions name plans, and attempts name admissions.
AdmissionsPlanned == \A n \in DOMAIN admissions : admissions[n].plan \in DOMAIN plans
AttemptsAdmitted == \A a \in Attempt : pinned[a] <= Len(admissions)

\* An execution runs the plan of its attempt's admission, and a finished one knows its
\* outcome.
ExecutionsAdmitted ==
    \A a \in Attempt :
        /\ execution[a].status # "none" =>
              pinned[a] # 0 /\ execution[a].plan = admissions[pinned[a]].plan
        /\ execution[a].status = "finished" => execution[a].outcome \in Outcome

AdmissionInv ==
    /\ TypeOK
    /\ JobStands
    /\ AttemptsToCome
    /\ PlansAgree
    /\ AdmissionsPlanned
    /\ AttemptsAdmitted
    /\ ExecutionsAdmitted
    /\ PreparedWhileRunning

-----------------------------------------------------------------------------
(* What the calls do to the data. *)

ExecutionRecord ==
    [status : {"none", "prepared", "finished", "abandoned", "quarantined"},
     plan : 0..MaxPlans, outcome : Outcome \cup {"none"}]

\* Where some admission is active, ActiveAdmission names one.
LEMMA ActiveIsOne ==
    ASSUME TypeOK, ~NoneActive
    PROVE  /\ ActiveAdmission \in 1..Len(admissions) /\ ActiveAdmission \in DOMAIN admissions
           /\ admissions[ActiveAdmission].status = "active"
<1>1. \E n \in DOMAIN admissions : admissions[n].status = "active"
  <2>1. PICK n \in DOMAIN admissions : admissions[n].status # "revoked"
    BY DEF NoneActive
  <2>2. admissions[n] \in AdmissionRecord
    BY <2>1 DEF TypeOK
  <2> QED
    BY <2>1, <2>2 DEF AdmissionRecord
<1>2. /\ ActiveAdmission \in DOMAIN admissions
      /\ admissions[ActiveAdmission].status = "active"
  BY <1>1, Zenon DEF ActiveAdmission
<1> QED
  BY <1>2 DEF TypeOK

\* An admission is added at the end.
LEMMA AdmitMeans ==
    ASSUME TypeOK, Admit
    PROVE  /\ admissions' \in Seq(AdmissionRecord)
           /\ Len(admissions') = Len(admissions) + 1
           /\ \A n \in 1..Len(admissions) : admissions'[n] = admissions[n]
           /\ admissions'[Len(admissions) + 1].plan = LatestPlan
<1> DEFINE new == [status |-> "active", plan |-> LatestPlan,
                   collectors |-> IF gates = "three" THEN Collector ELSE {}]
<1>1. new \in AdmissionRecord
  BY DEF TypeOK, Admit, MayAdmit, LatestPlan, AdmissionRecord, Collector
<1>2. admissions' = Append(admissions, new)
  BY DEF Admit
<1>3. admissions \in Seq(AdmissionRecord)
  BY DEF TypeOK
<1>4. new.plan = LatestPlan
  OBVIOUS
<1> HIDE DEF new
<1> QED
  BY <1>1, <1>2, <1>3, <1>4

\* A revocation changes the status of one admission.
LEMMA RevokeMeans ==
    ASSUME TypeOK, NEW n \in DOMAIN admissions, Revoke(n)
    PROVE  /\ admissions' \in Seq(AdmissionRecord)
           /\ Len(admissions') = Len(admissions)
           /\ \A m \in 1..Len(admissions) : admissions'[m].plan = admissions[m].plan
<1>1. admissions' = [admissions EXCEPT ![n].status = "revoked"]
  BY DEF Revoke
<1>2. admissions \in [1..Len(admissions) -> AdmissionRecord] /\ n \in 1..Len(admissions)
  BY DEF TypeOK
<1> DEFINE new == [admissions[n] EXCEPT !.status = "revoked"]
<1>3. new \in AdmissionRecord /\ new.plan = admissions[n].plan
  BY <1>2 DEF AdmissionRecord
<1>4. admissions' = [admissions EXCEPT ![n] = new]
  BY <1>1
<1> HIDE DEF new
<1>5. /\ admissions' \in [1..Len(admissions) -> AdmissionRecord]
      /\ \A m \in 1..Len(admissions) : admissions'[m].plan = admissions[m].plan
  BY <1>2, <1>3, <1>4
<1>6. Len(admissions) \in Nat
  BY DEF TypeOK
<1> QED
  BY <1>5, <1>6

\* Where an attempt ends, its open execution ends with it and nothing else of it changes.
LEMMA EndPreparedMeans ==
    ASSUME TypeOK, attempt \in Attempt,
           NEW status \in {"abandoned", "quarantined"}, EndPrepared(status)
    PROVE  /\ execution' \in [Attempt -> ExecutionRecord]
           /\ \A a \in Attempt \ {attempt} : execution'[a] = execution[a]
           /\ execution'[attempt].plan = execution[attempt].plan
           /\ execution'[attempt].outcome = execution[attempt].outcome
           /\ execution'[attempt].status =
                IF execution[attempt].status = "prepared" THEN status
                ELSE execution[attempt].status
<1>1. execution \in [Attempt -> ExecutionRecord]
  BY DEF TypeOK, ExecutionRecord
<1> DEFINE old == execution[attempt]
           new == [old EXCEPT !.status = IF @ = "prepared" THEN status ELSE @]
<1>2. new \in ExecutionRecord /\ new.plan = old.plan /\ new.outcome = old.outcome
      /\ new.status = IF old.status = "prepared" THEN status ELSE old.status
  BY <1>1 DEF ExecutionRecord
<1>3. execution' = [execution EXCEPT ![attempt] = new]
  BY DEF EndPrepared
<1> HIDE DEF new
<1> QED
  BY <1>1, <1>2, <1>3

\* The executions keep their plans and outcomes then.
LEMMA EndedExecutionsAdmitted ==
    ASSUME AdmissionInv, attempt \in Attempt,
           NEW status \in {"abandoned", "quarantined"}, EndPrepared(status),
           UNCHANGED <<pinned, admissions>>
    PROVE  ExecutionsAdmitted'
<1>1. ASSUME NEW a \in Attempt
      PROVE  /\ execution'[a].plan = execution[a].plan
             /\ execution'[a].outcome = execution[a].outcome
             /\ \/ execution'[a].status = execution[a].status
                \/ execution[a].status = "prepared" /\ execution'[a].status = status
  BY EndPreparedMeans DEF AdmissionInv
<1>2. ASSUME NEW a \in Attempt
      PROVE  /\ execution'[a].status # "none" =>
                    pinned[a] # 0 /\ execution'[a].plan = admissions[pinned[a]].plan
             /\ execution'[a].status = "finished" => execution'[a].outcome \in Outcome
  BY <1>1 DEF AdmissionInv, ExecutionsAdmitted
<1> QED
  BY <1>2 DEF ExecutionsAdmitted

\* What is prepared, and what a completion leaves of it.
LEMMA PrepareMeans ==
    ASSUME TypeOK, attempt \in Attempt, pinned[attempt] <= Len(admissions), Prepare
    PROVE  execution' \in [Attempt -> ExecutionRecord]
<1>1. pinned[attempt] \in 1..Len(admissions)
  BY DEF TypeOK, Prepare, MayPrepare
<1>2. admissions[pinned[attempt]] \in AdmissionRecord
  BY <1>1 DEF TypeOK
<1> DEFINE new == [status |-> "prepared", plan |-> AdmittedPlan(attempt), outcome |-> "none"]
<1>3. new \in ExecutionRecord
  BY <1>2 DEF AdmittedPlan, AdmissionRecord, ExecutionRecord
<1>4. execution \in [Attempt -> ExecutionRecord]
  BY DEF TypeOK, ExecutionRecord
<1>5. execution' = [execution EXCEPT ![attempt] = new]
  BY DEF Prepare
<1> HIDE DEF new
<1> QED
  BY <1>3, <1>4, <1>5

LEMMA CompleteMeans ==
    ASSUME TypeOK, attempt \in Attempt, NEW o \in Outcome, Complete(o)
    PROVE  /\ execution' \in [Attempt -> ExecutionRecord]
           /\ \A a \in Attempt \ {attempt} : execution'[a] = execution[a]
           /\ execution'[attempt].plan = execution[attempt].plan
           /\ execution'[attempt].outcome = o
           /\ execution'[attempt].status = "finished"
<1>1. execution \in [Attempt -> ExecutionRecord]
  BY DEF TypeOK, ExecutionRecord
<1> QED
  BY <1>1 DEF Complete, ExecutionRecord

-----------------------------------------------------------------------------
(* The operator and the tree keep the invariant. *)

\* A revision takes the test file and the runtime of the plan before it.
LEMMA CreatePlanKeeps ==
    ASSUME AdmissionInv, NEW t \in Tree, CreatePlan(t)
    PROVE  AdmissionInv'
<1>1. TypeOK'
  BY AdmissionAssumption
     DEF AdmissionInv, CreatePlan, LatestPlan, TypeOK, attemptVars, jobVars, worldVars,
         AdmissionRecord, Attempt, Calls, Collector, Outcome, Tree
<1>2. PlansAgree'
  BY DEF AdmissionInv, CreatePlan, LatestPlan, PlansAgree, SameAuthority, TypeOK
<1>3. AdmissionsPlanned'
  BY DEF AdmissionInv, AdmissionsPlanned, CreatePlan, TypeOK
<1>4. (JobStands /\ AttemptsToCome /\ AttemptsAdmitted /\ ExecutionsAdmitted
       /\ PreparedWhileRunning)'
  BY DEF AdmissionInv, AttemptsAdmitted, AttemptsToCome, CreatePlan, ExecutionsAdmitted,
         JobStands, PreparedWhileRunning, Running, attemptVars, jobVars, worldVars
<1> QED
  BY <1>1, <1>2, <1>3, <1>4 DEF AdmissionInv

LEMMA CreateCollectorPlanKeeps ==
    ASSUME AdmissionInv, NEW c \in Collector, CreateCollectorPlan(c)
    PROVE  AdmissionInv'
<1>1. TypeOK'
  BY DEF AdmissionInv, CreateCollectorPlan, TypeOK, attemptVars, jobVars, worldVars,
         AdmissionRecord, Attempt, Calls, Collector, Outcome, Tree
<1>2. (JobStands /\ AttemptsToCome /\ PlansAgree /\ AdmissionsPlanned /\ AttemptsAdmitted
       /\ ExecutionsAdmitted /\ PreparedWhileRunning)'
  BY DEF AdmissionInv, AdmissionsPlanned, AttemptsAdmitted, AttemptsToCome,
         CreateCollectorPlan, ExecutionsAdmitted, JobStands, PlansAgree,
         PreparedWhileRunning, Running, attemptVars, jobVars, worldVars
<1> QED
  BY <1>1, <1>2 DEF AdmissionInv

LEMMA AdmitKeeps == ASSUME AdmissionInv, Admit PROVE AdmissionInv'
<1>1. TypeOK'
  BY AdmissionAssumption, AdmitMeans
     DEF AdmissionInv, Admit, TypeOK, attemptVars, jobVars, planVars, worldVars,
         AdmissionRecord, Attempt, Calls, Collector, Outcome, Tree
<1>2. AdmissionsPlanned'
  BY AdmitMeans
     DEF AdmissionInv, AdmissionsPlanned, Admit, LatestPlan, MayAdmit, TypeOK, planVars
<1>3. AttemptsAdmitted'
  <2>1. pinned' = pinned /\ Len(admissions) \in Nat
    BY DEF AdmissionInv, TypeOK, Admit, attemptVars
  <2>2. Len(admissions') = Len(admissions) + 1
    BY AdmitMeans DEF AdmissionInv
  <2>3. \A a \in Attempt : pinned[a] \in Nat
    BY DEF AdmissionInv, TypeOK
  <2> QED
    BY <2>1, <2>2, <2>3 DEF AdmissionInv, AttemptsAdmitted
<1>4. ExecutionsAdmitted'
  BY AdmitMeans
     DEF AdmissionInv, AdmissionsPlanned, Admit, AttemptsAdmitted, AttemptsToCome,
         ExecutionsAdmitted, JobStands, TypeOK, attemptVars
<1>5. (JobStands /\ AttemptsToCome /\ PlansAgree /\ PreparedWhileRunning)'
  BY DEF AdmissionInv, Admit, AttemptsToCome, JobStands, PlansAgree, PreparedWhileRunning,
         Running, attemptVars, jobVars, planVars, worldVars
<1> QED
  BY <1>1, <1>2, <1>3, <1>4, <1>5 DEF AdmissionInv

LEMMA RevokeKeeps ==
    ASSUME AdmissionInv, NEW n \in DOMAIN admissions, Revoke(n)
    PROVE  AdmissionInv'
<1>1. TypeOK'
  <2>1. admissions' \in Seq(AdmissionRecord) /\ Len(admissions') = Len(admissions)
    BY RevokeMeans DEF AdmissionInv
  <2>2. changes' \in 0..MaxChanges
    BY AdmissionAssumption DEF AdmissionInv, TypeOK, Revoke, Changed
  <2> QED
    BY <2>1, <2>2 DEF AdmissionInv, TypeOK, Revoke, planVars, worldVars, jobVars, attemptVars
<1>2. AdmissionsPlanned'
  BY RevokeMeans DEF AdmissionInv, AdmissionsPlanned, Revoke, TypeOK, planVars
<1>3. AttemptsAdmitted'
  BY RevokeMeans DEF AdmissionInv, AttemptsAdmitted, Revoke, TypeOK, attemptVars
<1>4. ExecutionsAdmitted'
  <2>1. \A m \in 1..Len(admissions) : admissions'[m].plan = admissions[m].plan
    BY RevokeMeans DEF AdmissionInv
  <2>2. UNCHANGED <<pinned, execution>>
    BY DEF Revoke, attemptVars
  <2>3. \A a \in Attempt : pinned[a] # 0 => pinned[a] \in 1..Len(admissions)
    BY DEF AdmissionInv, TypeOK, AttemptsAdmitted
  <2> QED
    BY <2>1, <2>2, <2>3 DEF AdmissionInv, ExecutionsAdmitted
<1>5. (JobStands /\ AttemptsToCome /\ PlansAgree /\ PreparedWhileRunning)'
  BY DEF AdmissionInv, AttemptsToCome, JobStands, PlansAgree, PreparedWhileRunning, Revoke,
         Running, attemptVars, jobVars, planVars, worldVars
<1> QED
  BY <1>1, <1>2, <1>3, <1>4, <1>5 DEF AdmissionInv

LEMMA SetEnabledKeeps ==
    ASSUME AdmissionInv, NEW c \in Collector, SetEnabled(c)
    PROVE  AdmissionInv'
<1>1. TypeOK'
  BY AdmissionAssumption
     DEF AdmissionInv, Changed, SetEnabled, TypeOK, attemptVars, jobVars, planVars,
         worldVars, AdmissionRecord, Attempt, Calls, Collector, Outcome, Tree
<1>2. (JobStands /\ AttemptsToCome /\ PlansAgree /\ AdmissionsPlanned /\ AttemptsAdmitted
       /\ ExecutionsAdmitted /\ PreparedWhileRunning)'
  BY DEF AdmissionInv, AdmissionsPlanned, AttemptsAdmitted, AttemptsToCome,
         ExecutionsAdmitted, JobStands, PlansAgree, PreparedWhileRunning, Running,
         SetEnabled, attemptVars, jobVars, planVars, worldVars
<1> QED
  BY <1>1, <1>2 DEF AdmissionInv

LEMMA AdmitElsewhereKeeps == ASSUME AdmissionInv, AdmitElsewhere PROVE AdmissionInv'
<1>1. TypeOK'
  BY AdmissionAssumption
     DEF AdmissionInv, AdmitElsewhere, Changed, TypeOK, attemptVars, jobVars, planVars,
         worldVars, AdmissionRecord, Attempt, Calls, Collector, Outcome, Tree
<1>2. (JobStands /\ AttemptsToCome /\ PlansAgree /\ AdmissionsPlanned /\ AttemptsAdmitted
       /\ ExecutionsAdmitted /\ PreparedWhileRunning)'
  BY DEF AdmissionInv, AdmissionsPlanned, AdmitElsewhere, AttemptsAdmitted, AttemptsToCome,
         ExecutionsAdmitted, JobStands, PlansAgree, PreparedWhileRunning, Running,
         attemptVars, jobVars, planVars, worldVars
<1> QED
  BY <1>1, <1>2 DEF AdmissionInv

LEMMA WorldChangesKeeps == ASSUME AdmissionInv, WorldChanges PROVE AdmissionInv'
<1>1. TypeOK'
  <2>1. changes' \in 0..MaxChanges
    BY AdmissionAssumption DEF AdmissionInv, TypeOK, WorldChanges, Changed
  <2>2. tree' \in Tree /\ runtime' \in Version /\ sameDirs' \in BOOLEAN /\ ready' \in BOOLEAN
    BY DEF AdmissionInv, TypeOK, WorldChanges
  <2> QED
    BY <2>1, <2>2 DEF AdmissionInv, TypeOK, WorldChanges, planVars, jobVars, attemptVars
<1>2. (JobStands /\ AttemptsToCome /\ PlansAgree /\ AdmissionsPlanned /\ AttemptsAdmitted
       /\ ExecutionsAdmitted /\ PreparedWhileRunning)'
  BY DEF AdmissionInv, AdmissionsPlanned, AttemptsAdmitted, AttemptsToCome,
         ExecutionsAdmitted, JobStands, PlansAgree, PreparedWhileRunning, Running,
         WorldChanges, attemptVars, jobVars, planVars
<1> QED
  BY <1>1, <1>2 DEF AdmissionInv

-----------------------------------------------------------------------------
(* So does the queue. *)

\* A claim takes the next attempt, of which nothing is known, under the active admission.
LEMMA ClaimKeeps == ASSUME AdmissionInv, Claim PROVE AdmissionInv'
<1>1. TypeOK'
  <2>1. attempt' = attempt + 1 /\ attempt' \in Attempt /\ attempt' \in 0..MaxClaims
    BY AdmissionAssumption DEF AdmissionInv, TypeOK, Claim, Attempt
  <2>2. mode = "focused" => ActiveAdmission \in 0..MaxAdmissions
    BY ActiveIsOne, AdmissionAssumption DEF AdmissionInv, TypeOK, Claim, ClaimAuthority
  <2>3. pinned' \in [Attempt -> 0..MaxAdmissions]
    BY <2>1, <2>2, AdmissionAssumption DEF AdmissionInv, TypeOK, Claim
  <2>4. job' = "running" /\ item' = "testing" /\ lapsed' = FALSE /\ refusal' \in Calls
    BY DEF Claim, Calls
  <2>5. UNCHANGED <<gates, enabled, mode, planVars, admissions, worldVars, failures,
                    process, execution, changes>>
    BY DEF Claim
  <2> QED
    BY <2>1, <2>3, <2>4, <2>5 DEF AdmissionInv, TypeOK, planVars, worldVars
<1>2. JobStands'
  BY AdmissionAssumption, ActiveIsOne
     DEF AdmissionInv, AttemptsToCome, Claim, JobStands, TypeOK, Attempt, AdmissionRecord,
         Calls, Collector, NoExecution, Outcome, Tree
<1>3. AttemptsToCome'
  BY ActiveIsOne
     DEF AdmissionInv, AttemptsToCome, Claim, TypeOK, Attempt, NoExecution,
         AdmissionRecord, Calls, Collector, Outcome, Tree
<1>4. AttemptsAdmitted'
  BY ActiveIsOne DEF AdmissionInv, AttemptsAdmitted, Claim, ClaimAuthority, TypeOK
<1>5. ExecutionsAdmitted'
  BY ActiveIsOne DEF AdmissionInv, AttemptsToCome, Claim, ExecutionsAdmitted, TypeOK
<1>6. PreparedWhileRunning'
  BY ActiveIsOne DEF AdmissionInv, Claim, PreparedWhileRunning, TypeOK
<1>7. (PlansAgree /\ AdmissionsPlanned)'
  BY DEF AdmissionInv, AdmissionsPlanned, Claim, PlansAgree, planVars, worldVars
<1> QED
  BY <1>1, <1>2, <1>3, <1>4, <1>5, <1>6, <1>7 DEF AdmissionInv

LEMMA LapseKeeps == ASSUME AdmissionInv, Lapse PROVE AdmissionInv'
<1>1. TypeOK'
  BY DEF AdmissionInv, Lapse, TypeOK, attemptVars, planVars, worldVars, AdmissionRecord,
         Attempt, Calls, Collector, Outcome, Tree
<1>2. JobStands'
  BY DEF AdmissionInv, JobStands, Lapse, Running, TypeOK
<1>3. (AttemptsToCome /\ PlansAgree /\ AdmissionsPlanned /\ AttemptsAdmitted
       /\ ExecutionsAdmitted /\ PreparedWhileRunning)'
  BY DEF AdmissionInv, AdmissionsPlanned, AttemptsAdmitted, AttemptsToCome,
         ExecutionsAdmitted, Lapse, PlansAgree, PreparedWhileRunning, attemptVars,
         planVars, worldVars
<1> QED
  BY <1>1, <1>2, <1>3 DEF AdmissionInv

\* The calls that end an attempt end its open execution with it.
LEMMA InterruptKeeps == ASSUME AdmissionInv, Interrupt PROVE AdmissionInv'
<1>1. TypeOK'
  BY EndPreparedMeans
     DEF AdmissionInv, BackToPending, ExecutionRecord, Interrupt, JobStands, LiveLease,
         TypeOK, planVars, worldVars, AdmissionRecord, Attempt, Calls, Collector, Outcome,
         Tree
<1>2. JobStands'
  BY EndPreparedMeans
     DEF AdmissionInv, BackToPending, Interrupt, JobStands, LiveLease, Running, TypeOK
<1>3. AttemptsToCome'
  BY EndPreparedMeans
     DEF AdmissionInv, AttemptsToCome, BackToPending, Interrupt, JobStands, LiveLease,
         Attempt, NoExecution
<1>4. ExecutionsAdmitted'
  BY EndedExecutionsAdmitted DEF AdmissionInv, JobStands, LiveLease, BackToPending, Interrupt
<1>5. PreparedWhileRunning'
  BY EndPreparedMeans
     DEF AdmissionInv, BackToPending, Interrupt, JobStands, LiveLease, PreparedWhileRunning
<1>6. (PlansAgree /\ AdmissionsPlanned /\ AttemptsAdmitted)'
  BY DEF AdmissionInv, AdmissionsPlanned, AttemptsAdmitted, Interrupt, PlansAgree,
         planVars, worldVars
<1> QED
  BY <1>1, <1>2, <1>3, <1>4, <1>5, <1>6 DEF AdmissionInv

LEMMA FailKeeps == ASSUME AdmissionInv, Fail PROVE AdmissionInv'
<1>1. TypeOK'
  BY AdmissionAssumption, EndPreparedMeans
     DEF AdmissionInv, ExecutionRecord, Fail, JobStands, LiveLease, Running, TypeOK,
         planVars, worldVars, AdmissionRecord, Attempt, Calls, Collector, Outcome, Tree
<1>2. JobStands'
  BY EndPreparedMeans DEF Fail, JobStands, Running
<1>3. AttemptsToCome'
  BY EndPreparedMeans
     DEF AdmissionInv, AttemptsToCome, Fail, JobStands, LiveLease, Attempt, NoExecution
<1>4. ExecutionsAdmitted'
  BY EndedExecutionsAdmitted DEF AdmissionInv, JobStands, LiveLease, Fail
<1>5. PreparedWhileRunning'
  BY EndPreparedMeans DEF AdmissionInv, Fail, JobStands, LiveLease, PreparedWhileRunning
<1>6. (PlansAgree /\ AdmissionsPlanned /\ AttemptsAdmitted)'
  BY DEF AdmissionInv, AdmissionsPlanned, AttemptsAdmitted, Fail, PlansAgree, planVars,
         worldVars
<1> QED
  BY <1>1, <1>2, <1>3, <1>4, <1>5, <1>6 DEF AdmissionInv

LEMMA ExpireKeeps == ASSUME AdmissionInv, Expire PROVE AdmissionInv'
<1>1. TypeOK'
  BY EndPreparedMeans
     DEF AdmissionInv, BackToPending, ExecutionRecord, Expire, JobStands, TypeOK, planVars,
         worldVars, AdmissionRecord, Attempt, Calls, Collector, Outcome, Tree
<1>2. JobStands'
  BY EndPreparedMeans DEF AdmissionInv, BackToPending, Expire, JobStands, Running, TypeOK
<1>3. AttemptsToCome'
  BY EndPreparedMeans
     DEF AdmissionInv, AttemptsToCome, BackToPending, Expire, JobStands, Attempt,
         NoExecution
<1>4. ExecutionsAdmitted'
  BY EndedExecutionsAdmitted DEF AdmissionInv, JobStands, LiveLease, BackToPending, Expire
<1>5. PreparedWhileRunning'
  BY EndPreparedMeans
     DEF AdmissionInv, BackToPending, Expire, JobStands, PreparedWhileRunning
<1>6. (PlansAgree /\ AdmissionsPlanned /\ AttemptsAdmitted)'
  BY DEF AdmissionInv, AdmissionsPlanned, AttemptsAdmitted, Expire, PlansAgree, planVars,
         worldVars
<1> QED
  BY <1>1, <1>2, <1>3, <1>4, <1>5, <1>6 DEF AdmissionInv

LEMMA ReconcileKeeps == ASSUME AdmissionInv, Reconcile PROVE AdmissionInv'
<1>1. TypeOK'
  BY EndPreparedMeans
     DEF AdmissionInv, BackToPending, ExecutionRecord, JobStands, Reconcile, TypeOK,
         planVars, worldVars, AdmissionRecord, Attempt, Calls, Collector, Outcome, Tree
<1>2. JobStands'
  BY EndPreparedMeans DEF AdmissionInv, BackToPending, JobStands, Reconcile, Running, TypeOK
<1>3. AttemptsToCome'
  BY EndPreparedMeans
     DEF AdmissionInv, AttemptsToCome, BackToPending, JobStands, ProcessOver, Reconcile
<1>4. ExecutionsAdmitted'
  BY EndedExecutionsAdmitted DEF AdmissionInv, JobStands, LiveLease, BackToPending, Reconcile
<1>5. PreparedWhileRunning'
  BY EndPreparedMeans
     DEF AdmissionInv, BackToPending, JobStands, PreparedWhileRunning, Reconcile
<1>6. (PlansAgree /\ AdmissionsPlanned /\ AttemptsAdmitted)'
  BY DEF AdmissionInv, AdmissionsPlanned, AttemptsAdmitted, PlansAgree, Reconcile,
         planVars, worldVars
<1> QED
  BY <1>1, <1>2, <1>3, <1>4, <1>5, <1>6 DEF AdmissionInv

LEMMA QuarantineKeeps == ASSUME AdmissionInv, Quarantine PROVE AdmissionInv'
<1>1. TypeOK'
  BY EndPreparedMeans
     DEF AdmissionInv, ExecutionRecord, JobStands, Quarantine, TypeOK, jobVars, planVars,
         worldVars, AdmissionRecord, Attempt, Calls, Collector, Outcome, Tree
<1>2. JobStands'
  BY EndPreparedMeans DEF AdmissionInv, JobStands, Quarantine, TypeOK, jobVars
<1>3. AttemptsToCome'
  BY EndPreparedMeans
     DEF AdmissionInv, AttemptsToCome, JobStands, ProcessOver, Quarantine, jobVars
<1>4. ExecutionsAdmitted'
  BY EndedExecutionsAdmitted DEF AdmissionInv, JobStands, LiveLease, jobVars, Quarantine
<1>5. PreparedWhileRunning'
  BY EndPreparedMeans DEF AdmissionInv, JobStands, PreparedWhileRunning, Quarantine
<1>6. (PlansAgree /\ AdmissionsPlanned /\ AttemptsAdmitted)'
  BY DEF AdmissionInv, AdmissionsPlanned, AttemptsAdmitted, PlansAgree, Quarantine,
         jobVars, planVars, worldVars
<1> QED
  BY <1>1, <1>2, <1>3, <1>4, <1>5, <1>6 DEF AdmissionInv

-----------------------------------------------------------------------------
(* So does the tester. *)

\* An execution is prepared for the plan of the attempt's admission.
LEMMA PrepareKeeps == ASSUME AdmissionInv, Prepare PROVE AdmissionInv'
<1>1. TypeOK'
  BY PrepareMeans
     DEF AdmissionInv, AttemptsAdmitted, ExecutionRecord, LiveLease, MayPrepare, Prepare,
         TypeOK, jobVars, planVars, worldVars, AdmissionRecord, Attempt, Calls, Collector,
         Outcome, Tree
<1>2. AttemptsToCome'
  BY PrepareMeans DEF AdmissionInv, AttemptsToCome, Prepare, TypeOK, jobVars
<1>3. ExecutionsAdmitted'
  BY PrepareMeans
     DEF AdmissionInv, AdmittedPlan, ExecutionsAdmitted, MayPrepare, Prepare, TypeOK
<1>4. PreparedWhileRunning'
  BY PrepareMeans
     DEF AdmissionInv, JobStands, LiveLease, MayPrepare, Prepare, PreparedWhileRunning,
         Running, jobVars
<1>5. (JobStands /\ PlansAgree /\ AdmissionsPlanned /\ AttemptsAdmitted)'
  BY DEF AdmissionInv, AdmissionsPlanned, AttemptsAdmitted, JobStands, PlansAgree, Prepare,
         Running, jobVars, planVars, worldVars
<1> QED
  BY <1>1, <1>2, <1>3, <1>4, <1>5 DEF AdmissionInv

LEMMA RecordProcessKeeps == ASSUME AdmissionInv, RecordProcess PROVE AdmissionInv'
<1>1. TypeOK'
  BY DEF AdmissionInv, RecordProcess, TypeOK, jobVars, planVars, worldVars,
         AdmissionRecord, Attempt, Calls, Collector, Outcome, Tree
<1>2. JobStands'
  BY DEF AdmissionInv, JobStands, RecordProcess, Running, TypeOK, jobVars
<1>3. AttemptsToCome'
  BY DEF AdmissionInv, AttemptsToCome, RecordProcess, TypeOK, jobVars
<1>4. PreparedWhileRunning'
  BY DEF AdmissionInv, PreparedWhileRunning, RecordProcess, TypeOK, jobVars
<1>5. (PlansAgree /\ AdmissionsPlanned /\ AttemptsAdmitted /\ ExecutionsAdmitted)'
  BY DEF AdmissionInv, AdmissionsPlanned, AttemptsAdmitted, ExecutionsAdmitted, PlansAgree,
         RecordProcess, jobVars, planVars, worldVars
<1> QED
  BY <1>1, <1>2, <1>3, <1>4, <1>5 DEF AdmissionInv

LEMMA ReleaseKeeps == ASSUME AdmissionInv, Release PROVE AdmissionInv'
<1>1. TypeOK'
  BY DEF AdmissionInv, Release, TypeOK, jobVars, planVars, worldVars, AdmissionRecord,
         Attempt, Calls, Collector, Outcome, Tree
<1>2. (JobStands /\ AttemptsToCome /\ PlansAgree /\ AdmissionsPlanned /\ AttemptsAdmitted
       /\ ExecutionsAdmitted /\ PreparedWhileRunning)'
  BY DEF AdmissionInv, AdmissionsPlanned, AttemptsAdmitted, AttemptsToCome,
         ExecutionsAdmitted, JobStands, PlansAgree, PreparedWhileRunning, Release, Running,
         jobVars, planVars, worldVars
<1> QED
  BY <1>1, <1>2 DEF AdmissionInv

LEMMA ClearProcessKeeps == ASSUME AdmissionInv, ClearProcess PROVE AdmissionInv'
<1>1. TypeOK'
  BY DEF AdmissionInv, ClearProcess, TypeOK, jobVars, planVars, worldVars, AdmissionRecord,
         Attempt, Calls, Collector, Outcome, Tree
<1>2. JobStands'
  BY DEF AdmissionInv, ClearProcess, JobStands, Running, TypeOK, jobVars
<1>3. AttemptsToCome'
  BY DEF AdmissionInv, AttemptsToCome, ClearProcess, TypeOK, jobVars
<1>4. PreparedWhileRunning'
  BY DEF AdmissionInv, ClearProcess, PreparedWhileRunning, TypeOK, jobVars
<1>5. (PlansAgree /\ AdmissionsPlanned /\ AttemptsAdmitted /\ ExecutionsAdmitted)'
  BY DEF AdmissionInv, AdmissionsPlanned, AttemptsAdmitted, ClearProcess,
         ExecutionsAdmitted, PlansAgree, jobVars, planVars, worldVars
<1> QED
  BY <1>1, <1>2, <1>3, <1>4, <1>5 DEF AdmissionInv

LEMMA CompleteKeeps ==
    ASSUME AdmissionInv, NEW o \in Outcome, Complete(o)
    PROVE  AdmissionInv'
<1>1. TypeOK'
  BY CompleteMeans
     DEF AdmissionInv, Complete, ExecutionRecord, LiveLease, MayComplete, Running, TypeOK,
         jobVars, planVars, worldVars, AdmissionRecord, Attempt, Calls, Collector, Outcome,
         Tree
<1>2. AttemptsToCome'
  BY CompleteMeans DEF AdmissionInv, AttemptsToCome, Complete, TypeOK, jobVars
<1>3. ExecutionsAdmitted'
  <2>1. attempt \in Attempt /\ execution[attempt].status = "prepared"
        /\ UNCHANGED <<pinned, admissions>>
    BY DEF AdmissionInv, JobStands, Complete, MayComplete, LiveLease
  <2>2. ASSUME NEW a \in Attempt
        PROVE  /\ execution[a].status # "none" => execution'[a].plan = execution[a].plan
               /\ execution[a].status = "none" => execution'[a].status = "none"
               /\ \/ execution'[a] = execution[a]
                  \/ execution'[a].outcome = o
    BY <2>1, CompleteMeans DEF AdmissionInv
  <2>3. ASSUME NEW a \in Attempt
        PROVE  /\ execution'[a].status # "none" =>
                      pinned[a] # 0 /\ execution'[a].plan = admissions[pinned[a]].plan
               /\ execution'[a].status = "finished" => execution'[a].outcome \in Outcome
    BY <2>2 DEF AdmissionInv, ExecutionsAdmitted
  <2> QED
    BY <2>1, <2>3 DEF ExecutionsAdmitted
<1>4. PreparedWhileRunning'
  BY CompleteMeans DEF AdmissionInv, Complete, PreparedWhileRunning, TypeOK
<1>5. (JobStands /\ PlansAgree /\ AdmissionsPlanned /\ AttemptsAdmitted)'
  BY DEF AdmissionInv, AdmissionsPlanned, AttemptsAdmitted, Complete, JobStands,
         PlansAgree, Running, jobVars, planVars, worldVars
<1> QED
  BY <1>1, <1>2, <1>3, <1>4, <1>5 DEF AdmissionInv

LEMMA CollectKeeps ==
    ASSUME AdmissionInv, NEW c \in Collector, Collect(c)
    PROVE  AdmissionInv'
<1>1. TypeOK'
  BY DEF AdmissionInv, Collect, TypeOK, jobVars, planVars, worldVars, AdmissionRecord,
         Attempt, Calls, Collector, Outcome, Tree
<1>2. (JobStands /\ AttemptsToCome /\ PlansAgree /\ AdmissionsPlanned /\ AttemptsAdmitted
       /\ ExecutionsAdmitted /\ PreparedWhileRunning)'
  BY DEF AdmissionInv, AdmissionsPlanned, AttemptsAdmitted, AttemptsToCome, Collect,
         ExecutionsAdmitted, JobStands, PlansAgree, PreparedWhileRunning, Running, jobVars,
         planVars, worldVars
<1> QED
  BY <1>1, <1>2 DEF AdmissionInv

\* The job is committed with its execution finished.
LEMMA CommitKeeps == ASSUME AdmissionInv, Commit PROVE AdmissionInv'
<1>1. TypeOK'
  BY DEF AdmissionInv, Commit, Handoff, NextState, TypeOK, attemptVars, planVars,
         worldVars, AdmissionRecord, Attempt, Calls, Collector, Outcome, Tree
<1>2. JobStands'
  BY DEF Commit, JobStands, Running
<1>3. PreparedWhileRunning'
  BY DEF AdmissionInv, Commit, Finished, PreparedWhileRunning, TypeOK, attemptVars
<1>4. (AttemptsToCome /\ PlansAgree /\ AdmissionsPlanned /\ AttemptsAdmitted
       /\ ExecutionsAdmitted)'
  BY DEF AdmissionInv, AdmissionsPlanned, AttemptsAdmitted, AttemptsToCome, Commit,
         ExecutionsAdmitted, PlansAgree, attemptVars, planVars, worldVars
<1> QED
  BY <1>1, <1>2, <1>3, <1>4 DEF AdmissionInv

-----------------------------------------------------------------------------
(* The invariant holds. *)

LEMMA AdmissionInitially == Init => AdmissionInv
<1> SUFFICES ASSUME Init PROVE AdmissionInv
  OBVIOUS
<1>1. TypeOK
  <2>1. {MaxPlans, MaxAdmissions, MaxClaims, MaxFailures, MaxChanges} \subseteq Nat
    BY AdmissionAssumption
  <2>2. /\ plans \in Seq([tree : Tree, runtime : Version]) /\ Len(plans) = 0
        /\ admissions \in Seq(AdmissionRecord) /\ Len(admissions) = 0
    BY DEF Init
  <2>3. tree \in Tree /\ runtime \in Version
    BY AdmissionAssumption DEF Init, Tree
  <2>4. execution \in
          [Attempt -> [status : {"none", "prepared", "finished", "abandoned", "quarantined"},
                       plan : 0..MaxPlans, outcome : Outcome \cup {"none"}]]
    BY <2>1 DEF Init, NoExecution
  <2>5. pinned \in [Attempt -> 0..MaxAdmissions]
    BY <2>1 DEF Init
  <2>6. /\ attempt \in 0..MaxClaims /\ failures \in 0..MaxFailures /\ changes \in 0..MaxChanges
        /\ Len(plans) <= MaxPlans /\ Len(admissions) <= MaxAdmissions
    BY <2>1, <2>2 DEF Init
  <2>7. /\ gates \in Gates /\ enabled \subseteq Collector /\ collectors \subseteq Collector
        /\ mode = "legacy" /\ item = "ready_for_test" /\ job = "pending" /\ refusal \in Calls
        /\ sameDirs \in BOOLEAN /\ ready \in BOOLEAN /\ lapsed \in BOOLEAN
    BY DEF Init, Calls
  <2>8. process \in [Attempt -> {"none", "active", "quarantined", "stopped"}]
    BY DEF Init
  <2> QED
    BY <2>2, <2>3, <2>4, <2>5, <2>6, <2>7, <2>8 DEF TypeOK
<1>2. JobStands /\ PlansAgree /\ AdmissionsPlanned /\ PreparedWhileRunning
  BY AdmissionAssumption
     DEF Init, JobStands, Running, PlansAgree, AdmissionsPlanned, PreparedWhileRunning, NoExecution
<1>3. AttemptsToCome /\ AttemptsAdmitted /\ ExecutionsAdmitted
  BY DEF Init, AttemptsToCome, AttemptsAdmitted, ExecutionsAdmitted, NoExecution
<1> QED
  BY <1>1, <1>2, <1>3 DEF AdmissionInv

LEMMA AdmissionKept == AdmissionInv /\ [Next]_vars => AdmissionInv'
<1> SUFFICES ASSUME AdmissionInv, [Next]_vars PROVE AdmissionInv'
  OBVIOUS
<1>1. CASE Operator
  BY <1>1, CreatePlanKeeps, CreateCollectorPlanKeeps, SetEnabledKeeps, AdmitKeeps,
     AdmitElsewhereKeeps, RevokeKeeps
     DEF Operator, CreateBrowserPlan, CreateDatabasePlan, Collector
<1>2. CASE Queue
  BY <1>2, ClaimKeeps, LapseKeeps, InterruptKeeps, FailKeeps, ExpireKeeps, ReconcileKeeps,
     QuarantineKeeps DEF Queue
<1>3. CASE Tester
  BY <1>3, PrepareKeeps, RecordProcessKeeps, ReleaseKeeps, ClearProcessKeeps, CommitKeeps,
     CompleteKeeps, CollectKeeps DEF Tester, PrepareBrowser, PrepareDatabase, Collector
<1>4. CASE UNCHANGED vars
  BY <1>4 DEF vars, planVars, worldVars, jobVars, attemptVars, AdmissionInv, TypeOK, JobStands,
              Running, AttemptsToCome, PlansAgree, AdmissionsPlanned, AttemptsAdmitted,
              ExecutionsAdmitted, PreparedWhileRunning
<1> QED
  BY <1>1, <1>2, <1>3, <1>4, WorldChangesKeeps DEF Next

LEMMA AdmissionInvariant == Spec => []AdmissionInv
  BY AdmissionInitially, AdmissionKept, PTL DEF Spec

\* The store's rows keep their types whatever the callers do.
THEOREM AdmissionTypes == Spec => []TypeOK
  BY AdmissionInvariant, PTL DEF AdmissionInv

\* An execution is open only while its attempt is the current one of a running job
\* (_end_prepared_focused_execution and its callers).
THEOREM PreparedOnlyWhileRunning == Spec => []PreparedWhileRunning
  BY AdmissionInvariant, PTL DEF AdmissionInv

-----------------------------------------------------------------------------
(* Authority. *)

\* What an admitted attempt may rely on.
Authorized(a) ==
    IF pinned[a] = 0 THEN mode = "legacy"
    ELSE /\ admissions[pinned[a]].status = "active"
         /\ admissions[pinned[a]].plan = Len(plans)
         /\ ready /\ Required[gates] \subseteq enabled

LEMMA AdmittedIsAuthorized == \A a : Admitted(a) => Authorized(a)
  BY DEF Admitted, Live, LatestPlan, ResourcesEnabled, Authorized

\* Only RecordProcess makes a process active, only Prepare and Complete further an
\* execution, only Commit completes the job: each asks for the admission first.
LEMMA OnlyTheAdmitted ==
    ASSUME AdmissionInv, Next, NEW a \in Attempt,
           \/ process'[a] = "active" /\ process[a] # "active"
           \/ execution'[a] # execution[a] /\ execution'[a].status \in {"prepared", "finished"}
           \/ job' = "completed" /\ job # "completed" /\ a = attempt
    PROVE  Admitted(a)
<1>1. attempt \in Attempt \/ ~Running
  BY DEF AdmissionInv, JobStands
<1>2. CASE Operator \/ WorldChanges
  BY <1>2 DEF Operator, WorldChanges, CreatePlan, CreateBrowserPlan, CreateDatabasePlan,
              CreateCollectorPlan, SetEnabled, Admit, AdmitElsewhere, Revoke, jobVars, attemptVars
<1>3. CASE Claim \/ Lapse
  BY <1>3 DEF Claim, Lapse, attemptVars
<1>4. CASE Interrupt \/ Fail \/ Expire \/ Reconcile \/ Quarantine
  <2>1. PICK status \in {"abandoned", "quarantined"} : EndPrepared(status)
    BY <1>4 DEF Interrupt, Fail, Expire, Reconcile, Quarantine, BackToPending
  <2>2. attempt \in Attempt
    BY <1>1, <1>4 DEF Interrupt, Fail, Expire, Reconcile, Quarantine, LiveLease
  <2>3. execution' = [execution EXCEPT ![attempt].status =
                          IF execution[attempt].status = "prepared" THEN status
                          ELSE execution[attempt].status]
    BY <2>1 DEF EndPrepared
  <2>4. execution'[a] = execution[a] \/ execution'[a].status \notin {"prepared", "finished"}
    <3>1. execution \in [Attempt -> ExecutionRecord]
      BY DEF AdmissionInv, TypeOK, ExecutionRecord
    <3>2. CASE a = attempt /\ execution[attempt].status = "prepared"
      BY <2>1, <2>2, <3>2, EndPreparedMeans DEF AdmissionInv
    <3>3. CASE a = attempt /\ execution[attempt].status # "prepared"
      BY <2>2, <2>3, <3>1, <3>3 DEF ExecutionRecord
    <3>4. CASE a # attempt
      BY <2>1, <2>2, <3>4, EndPreparedMeans DEF AdmissionInv
    <3> QED
      BY <3>2, <3>3, <3>4
  <2>5. process'[a] = "active" => process[a] = "active"
    BY <1>4, <2>2 DEF Interrupt, Fail, Expire, Reconcile, Quarantine, AdmissionInv, TypeOK
  <2>6. job' # "completed" \/ job = "completed"
    BY <1>4 DEF Interrupt, Fail, Expire, Reconcile, Quarantine, BackToPending, jobVars
  <2> QED
    BY <2>4, <2>5, <2>6
<1>5. CASE Tester
  <2>1. CASE RecordProcess
    BY <1>1, <2>1 DEF RecordProcess, LiveLease, AdmissionInv, TypeOK, jobVars
  <2>2. CASE Prepare
    BY <1>1, <2>2 DEF Prepare, MayPrepare, LiveLease, AdmissionInv, TypeOK, jobVars
  <2>3. CASE \E o \in Outcome : Complete(o)
    BY <1>1, <2>3, CompleteMeans DEF Complete, MayComplete, LiveLease, AdmissionInv, jobVars
  <2>4. CASE Commit
    BY <1>1, <2>4 DEF Commit, LiveLease, attemptVars
  <2>5. CASE Release \/ ClearProcess \/ PrepareBrowser \/ PrepareDatabase
    BY <1>1, <2>5 DEF Release, ClearProcess, PrepareBrowser, PrepareDatabase, Collect, LiveLease,
                      AdmissionInv, TypeOK, jobVars
  <2> QED
    BY <1>5, <2>1, <2>2, <2>3, <2>4, <2>5 DEF Tester
<1> QED
  BY <1>2, <1>3, <1>4, <1>5 DEF Next, Queue

\* No step of an attempt without the authority it was claimed under, or outliving it
\* (_assert_attempt_focused_test_admission and its callers).
THEOREM StepsHaveAuthority == Spec => AuthorityBehindSteps
<1> DEFINE A == \A a \in Attempt :
                    \/ process'[a] = "active" /\ process[a] # "active"
                    \/ /\ execution'[a] # execution[a]
                       /\ execution'[a].status \in {"prepared", "finished"}
                    \/ job' = "completed" /\ job # "completed" /\ a = attempt
                    => Authorized(a)
<1>1. AdmissionInv /\ [Next]_vars => [A]_vars
  BY OnlyTheAdmitted, AdmittedIsAuthorized
<1>2. [A]_vars <=> [ \A a \in Attempt :
          \/ process'[a] = "active" /\ process[a] # "active"
          \/ execution'[a] # execution[a] /\ execution'[a].status \in {"prepared", "finished"}
          \/ job' = "completed" /\ job # "completed" /\ a = attempt
          => IF pinned[a] = 0 THEN mode = "legacy"
             ELSE /\ admissions[pinned[a]].status = "active"
                  /\ admissions[pinned[a]].plan = Len(plans)
                  /\ ready /\ Required[gates] \subseteq enabled ]_vars
  BY DEF Authorized
<1> HIDE DEF A
<1> QED
  BY <1>1, <1>2, AdmissionInvariant, PTL DEF Spec, AuthorityBehindSteps

-----------------------------------------------------------------------------
(* Evidence. *)

\* What a commit that verifies has seen.
LEMMA VerifyingCommit ==
    ASSUME AdmissionInv, Next, item' = "verified", item # "verified"
    PROVE  /\ Commit
           /\ gates = "focused"
           /\ attempt \in Attempt
           /\ execution[attempt].outcome = "pass"
<1>1. Commit
  BY DEF Next, Operator, WorldChanges, Queue, Tester, CreatePlan, CreateBrowserPlan,
         CreateDatabasePlan, CreateCollectorPlan, SetEnabled, Admit, AdmitElsewhere, Revoke, Claim,
         Lapse, Interrupt, Fail, Expire, Reconcile, Quarantine, BackToPending, Prepare,
         RecordProcess, Release, ClearProcess, Complete, PrepareBrowser, PrepareDatabase, Collect,
         jobVars
<1>2. attempt \in Attempt
  BY <1>1 DEF Commit, LiveLease, AdmissionInv, JobStands
<1>3. Handoff(attempt) = "pass" \/ Handoff(attempt) = "blocked"
  BY DEF Handoff
<1>4. Handoff(attempt) # "blocked"
  <2>1. Handoff(attempt) = "blocked" => NextState(attempt) = "blocked"
    BY Zenon DEF NextState
  <2> QED
    BY <1>1, <2>1 DEF Commit
<1>5. execution[attempt].outcome = "pass"
  BY <1>1, <1>2, <1>4 DEF Handoff, Commit, Finished, AdmissionInv, ExecutionsAdmitted, Outcome
<1>6. gates = "focused"
  BY <1>1, <1>4, AdmissionAssumption DEF Commit, PipelineEvidence, AdmissionInv, TypeOK
<1> QED
  BY <1>1, <1>2, <1>5, <1>6

\* Verified only on a passing test of the latest plan, over the tree that plan lists,
\* with the first plan's test file and runtime (_validate_stage_result,
\* _assert_finished_focused_execution, create_focused_test_plan).
THEOREM AlwaysVerifiedOnEvidence == Spec => VerifiedOnEvidence
<1>1. ASSUME AdmissionInv, Next, item' = "verified", item # "verified"
      PROVE  /\ LiveLease
             /\ gates = "focused"
             /\ execution[attempt].status = "finished" /\ execution[attempt].outcome = "pass"
             /\ pinned[attempt] # 0
             /\ LET n == pinned[attempt] IN
                /\ admissions[n].status = "active"
                /\ admissions[n].plan = execution[attempt].plan
             /\ execution[attempt].plan = Len(plans)
             /\ tree = plans[Len(plans)].tree
             /\ tree.test = plans[1].tree.test /\ runtime = plans[1].runtime
             /\ Required[gates] \subseteq enabled
             /\ process[attempt] = "stopped"
  <2>1. /\ Commit /\ gates = "focused" /\ attempt \in Attempt
        /\ execution[attempt].outcome = "pass"
    BY <1>1, VerifyingCommit
  <2>2. LiveLease /\ Admitted(attempt) /\ Finished(attempt)
    BY <2>1 DEF Commit
  <2>3. /\ execution[attempt].status = "finished" /\ process[attempt] = "stopped"
        /\ runtime = plans[execution[attempt].plan].runtime
        /\ tree = plans[execution[attempt].plan].tree
    BY <2>2 DEF Finished, SandboxBinding, Unchanged
  <2>4. pinned[attempt] # 0 /\ execution[attempt].plan = admissions[pinned[attempt]].plan
    BY <1>1, <2>1, <2>3 DEF AdmissionInv, ExecutionsAdmitted
  <2>5. Live(pinned[attempt])
    BY <2>2, <2>4 DEF Admitted
  <2>6. pinned[attempt] \in DOMAIN admissions
    BY <1>1, <2>1, <2>4 DEF AdmissionInv, TypeOK, AttemptsAdmitted
  <2>7. execution[attempt].plan \in DOMAIN plans
    BY <1>1, <2>4, <2>6 DEF AdmissionInv, AdmissionsPlanned
  <2>8. tree.test = plans[1].tree.test /\ runtime = plans[1].runtime
    BY <1>1, <2>3, <2>7 DEF AdmissionInv, PlansAgree
  <2> QED
    BY <2>1, <2>2, <2>3, <2>4, <2>5, <2>8 DEF Live, LatestPlan, ResourcesEnabled
<1> QED
  BY <1>1, AdmissionInvariant, PTL DEF Spec, VerifiedOnEvidence
=============================================================================
