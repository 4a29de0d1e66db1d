----------------------------- MODULE Admission -----------------------------
(***************************************************************************)
(* One tester job under focused-test admission, at the store's boundary:   *)
(* the plans, admissions, resource switches and evidence executions of     *)
(* storage.py that decide whether an attempt may run a test and whether    *)
(* its result may verify the item.                                         *)
(*                                                                         *)
(* The job's lifecycle is the one of JobStore reduced to what an admission *)
(* reads: pending or running, the current attempt, its lease.  The holder  *)
(* of the lease may make the store's calls in any order.  The file system, *)
(* the Python runtime, the worktree and other items of the campaign change *)
(* under it at any time.  The campaign does not accept simulated evidence. *)
(*                                                                         *)
(* A manifest is the tree it lists: the trusted test file and the rest.    *)
(* The hashes an admission pins are of rows that no operation rewrites     *)
(* (campaign configuration, payload, gates, plans): they are not state.    *)
(***************************************************************************)
EXTENDS Naturals, Sequences, FiniteSets

CONSTANTS Gates,          \* the gates an item may require: the focused one, the fixed three
          Required,       \* registered resources of its job, named by their collector
          Version,        \* versions of a file, and of the machine's runtime
          First,          \* the versions at the start
          MaxPlans,       \* bound: revisions of the focused-test plan
          MaxAdmissions,  \* bound: admissions of the job
          MaxClaims,      \* bound: attempts of the job
          MaxFailures,    \* max_attempts of fail_job
          MaxChanges      \* bound: changes from outside and revocations

ASSUME AdmissionAssumption ==
    /\ Gates # {} /\ Gates \subseteq {"focused", "three"}
    /\ Required \in [Gates -> SUBSET {"browser", "database"}]
    /\ First \in Version
    /\ {MaxPlans, MaxAdmissions, MaxClaims, MaxFailures} \subseteq Nat \ {0}
    /\ MaxChanges \in Nat

Attempt == 1..MaxClaims
Tree == [test : Version, code : Version]
Collector == {"browser", "database"}
Calls == {"none", "release"} \cup Collector
AdmissionRecord == [status : {"active", "revoked"}, plan : 1..MaxPlans,
                    collectors : SUBSET Collector]
Outcome == {"pass", "fail"}
NoExecution == [status |-> "none", plan |-> 0, outcome |-> "none"]

VARIABLES
    gates,       \* required_gates of the item
    enabled,     \* resources that are enabled
    mode,        \* execution_mode of the campaign
    plans,       \* focused_test_plans, by plan_number
    collectors,  \* collector plans that exist
    admissions,  \* focused_test_admissions of the job, in the order of admitted_at
    tree,        \* what is in the worktree
    runtime,     \* Python and sandbox executables of the machine
    sameDirs,    \* both directories are the ones recorded
    ready,       \* the worktree is ready, not quarantined
    item,        \* state of the work item
    job,         \* status of the tester job
    attempt,     \* the last attempt claimed, the current one while the job runs
    lapsed,      \* its lease has expired
    failures,    \* attempts that failed
    pinned,      \* the admission of each attempt, 0 for none
    process,     \* the external process of each attempt
    execution,   \* the focused_test_execution of each attempt
    refusal,     \* the last call of this attempt refused by a broken authorization
    changes      \* changes so far

planVars == <<plans, collectors>>
worldVars == <<tree, runtime, sameDirs, ready>>
jobVars == <<item, job, attempt, lapsed, failures>>
attemptVars == <<pinned, process, execution, refusal>>
vars == <<gates, enabled, mode, planVars, admissions, worldVars, jobVars, attemptVars, changes>>

TypeOK ==
    /\ gates \in Gates
    /\ enabled \subseteq Collector
    /\ mode \in {"legacy", "focused"}
    /\ plans \in Seq([tree : Tree, runtime : Version]) /\ Len(plans) <= MaxPlans
    /\ collectors \subseteq Collector
    /\ admissions \in Seq(AdmissionRecord) /\ Len(admissions) <= MaxAdmissions
    /\ tree \in Tree /\ runtime \in Version
    /\ sameDirs \in BOOLEAN /\ ready \in BOOLEAN
    /\ item \in {"ready_for_test", "testing", "ready_for_fix", "verified", "blocked"}
    /\ job \in {"pending", "running", "completed", "failed"}
    /\ attempt \in 0..MaxClaims /\ lapsed \in BOOLEAN /\ failures \in 0..MaxFailures
    /\ pinned \in [Attempt -> 0..MaxAdmissions]
    /\ process \in [Attempt -> {"none", "active", "quarantined", "stopped"}]
    /\ execution \in
         [Attempt -> [status : {"none", "prepared", "finished", "abandoned", "quarantined"},
                      plan : 0..MaxPlans, outcome : Outcome \cup {"none"}]]
    /\ refusal \in Calls
    /\ changes \in 0..MaxChanges

Init ==
    /\ gates \in Gates
    /\ enabled = Collector /\ mode = "legacy" /\ plans = <<>> /\ collectors = {}
    /\ admissions = <<>>
    /\ tree = [test |-> First, code |-> First] /\ runtime = First /\ sameDirs = TRUE /\ ready = TRUE
    /\ item = "ready_for_test" /\ job = "pending" /\ attempt = 0 /\ lapsed = FALSE
    /\ failures = 0
    /\ pinned = [a \in Attempt |-> 0]
    /\ process = [a \in Attempt |-> "none"]
    /\ execution = [a \in Attempt |-> NoExecution]
    /\ refusal = "none" /\ changes = 0

---------------------------------------------------------------------------
(* What the calls check.                                                   *)

LatestPlan == Len(plans)
Running == job = "running"
LiveLease == Running /\ ~lapsed
ResourcesEnabled == Required[gates] \subseteq enabled


Live(n) ==
    /\ admissions[n].status = "active"
    /\ mode = "focused"
    /\ ready /\ sameDirs
    /\ admissions[n].plan = LatestPlan
    /\ ResourcesEnabled

\* An attempt without an admission passes in any mode (a faulty variant).
Admitted_Unpinned(a) == pinned[a] # 0 => mode = "focused" /\ Live(pinned[a])

\* The admission the attempt was claimed under still stands; an attempt claimed without
\* one goes on only while the campaign is in the legacy mode.
Admitted(a) ==
    IF pinned[a] = 0 THEN mode = "legacy" ELSE mode = "focused" /\ Live(pinned[a])

ProcessOver(a) == process[a] \in {"none", "stopped"}

\* The executables are those the plan records.
SandboxBinding(a) == runtime = plans[execution[a].plan].runtime
\* The tree is the one the plan lists, which is what was scanned before and after the test.
Unchanged(a) == tree = plans[execution[a].plan].tree

\* The changed tree is noticed only before the test (a faulty variant).
Finished_AnyTree(a) ==
    /\ execution[a].status = "finished"
    /\ ready /\ sameDirs
    /\ process[a] = "stopped"
    /\ SandboxBinding(a)

Finished(a) ==
    /\ execution[a].status = "finished"
    /\ ready /\ sameDirs
    /\ process[a] = "stopped"
    /\ SandboxBinding(a) /\ Unchanged(a)

---------------------------------------------------------------------------
(* Plans, resources and admissions: calls of the operator's tools.         *)

SameAuthority(t) ==
    LatestPlan # 0 =>
      /\ runtime = plans[LatestPlan].runtime
      /\ t.test = plans[LatestPlan].tree.test

\* The manifest is the caller's: it need not be what is in the worktree.
CreatePlan(t) ==
    /\ item = "ready_for_test"
    /\ LatestPlan < MaxPlans
    /\ SameAuthority(t)
    /\ plans' = Append(plans, [tree |-> t, runtime |-> runtime])
    /\ UNCHANGED <<gates, enabled, mode, collectors, admissions, worldVars, jobVars,
                   attemptVars, changes>>

CollectorPlanBinding(c) == gates = "three" /\ c \in enabled

CreateCollectorPlan(c) ==
    /\ CollectorPlanBinding(c)
    /\ item = "ready_for_test"
    /\ c \notin collectors
    /\ collectors' = collectors \cup {c}
    /\ UNCHANGED <<gates, enabled, mode, plans, admissions, worldVars, jobVars,
                   attemptVars, changes>>

CreateBrowserPlan == CreateCollectorPlan("browser")
CreateDatabasePlan == CreateCollectorPlan("database")
PlanValid(c) == c \in collectors /\ CollectorPlanBinding(c)

NoneActive == \A n \in DOMAIN admissions : admissions[n].status = "revoked"

MayAdmit ==
    /\ item = "ready_for_test" /\ job = "pending"
    /\ ready /\ sameDirs
    /\ LatestPlan # 0
    /\ ResourcesEnabled

\* The three-gate item needs the plans of both collectors, on enabled resources.
Admit ==
    /\ Len(admissions) < MaxAdmissions
    /\ MayAdmit
    /\ gates = "three" => \A c \in Collector : PlanValid(c)
    /\ NoneActive
    /\ mode' = "focused"
    /\ admissions' = Append(admissions,
         [status |-> "active", plan |-> LatestPlan,
          collectors |-> IF gates = "three" THEN Collector ELSE {}])
    /\ UNCHANGED <<gates, enabled, planVars, worldVars, jobVars, attemptVars, changes>>

Changed == changes < MaxChanges /\ changes' = changes + 1

Revoke(n) ==
    /\ Changed
    /\ admissions[n].status = "active"
    /\ admissions' = [admissions EXCEPT ![n].status = "revoked"]
    /\ UNCHANGED <<gates, enabled, mode, planVars, worldVars, jobVars, attemptVars>>

SetEnabled(r) ==
    /\ Changed
    /\ enabled' = IF r \in enabled THEN enabled \ {r} ELSE enabled \cup {r}
    /\ UNCHANGED <<gates, mode, planVars, admissions, worldVars, jobVars, attemptVars>>

\* A tester job of another item of the campaign is admitted.
AdmitElsewhere ==
    /\ Changed
    /\ mode = "legacy" /\ mode' = "focused"
    /\ UNCHANGED <<gates, enabled, planVars, admissions, worldVars, jobVars, attemptVars>>

\* Files are written, the runtime is upgraded, a directory is replaced, the worktree is
\* quarantined.
WorldChanges ==
    /\ Changed
    /\ \/ /\ tree' \in Tree \ {tree}
          /\ UNCHANGED <<runtime, sameDirs, ready>>
       \/ /\ runtime' \in Version \ {runtime}
          /\ UNCHANGED <<tree, sameDirs, ready>>
       \/ /\ sameDirs /\ sameDirs' = FALSE
          /\ UNCHANGED <<tree, runtime, ready>>
       \/ /\ ready /\ ready' = FALSE
          /\ UNCHANGED <<tree, runtime, sameDirs>>
    /\ UNCHANGED <<gates, enabled, mode, planVars, admissions, jobVars, attemptVars>>

---------------------------------------------------------------------------
(* The queue.                                                              *)

ActiveAdmission == CHOOSE n \in DOMAIN admissions : admissions[n].status = "active"
ClaimAuthority ==
    mode = "focused" => ~NoneActive /\ Live(ActiveAdmission)

Claim ==
    /\ attempt < MaxClaims
    /\ job = "pending" /\ item = "ready_for_test"
    /\ ClaimAuthority
    /\ ready
    /\ ResourcesEnabled
    /\ job' = "running" /\ item' = "testing" /\ lapsed' = FALSE
    /\ attempt' = attempt + 1
    /\ pinned' = [pinned EXCEPT ![attempt'] = IF mode = "focused" THEN ActiveAdmission ELSE 0]
    /\ refusal' = "none"
    /\ UNCHANGED <<gates, enabled, mode, planVars, admissions, worldVars, failures,
                   process, execution, changes>>

Lapse ==
    /\ LiveLease
    /\ lapsed' = TRUE
    /\ UNCHANGED <<gates, enabled, mode, planVars, admissions, worldVars, item, job,
                   attempt, failures, attemptVars, changes>>

\* The execution is left as it is (a faulty variant).
EndPrepared_Left(status) == UNCHANGED execution
EndPrepared(status) ==
    execution' = [execution EXCEPT ![attempt].status = IF @ = "prepared" THEN status ELSE @]

BackToPending ==
    /\ job' = "pending" /\ item' = "ready_for_test" /\ lapsed' = FALSE
    /\ EndPrepared("abandoned")
    /\ UNCHANGED <<attempt, failures>>

\* The worker or the scheduler hands the job back.
Interrupt ==
    /\ LiveLease
    /\ ProcessOver(attempt)
    /\ BackToPending
    /\ UNCHANGED <<gates, enabled, mode, planVars, admissions, worldVars, pinned, process,
                   refusal, changes>>

Fail ==
    /\ LiveLease
    /\ ProcessOver(attempt)
    /\ EndPrepared("abandoned")
    /\ failures' = failures + 1
    /\ \/ /\ failures' < MaxFailures /\ ready
          /\ job' = "pending" /\ item' = "ready_for_test"
       \/ /\ ~(failures' < MaxFailures /\ ready)
          /\ job' = "failed" /\ item' = "blocked"
    /\ UNCHANGED <<gates, enabled, mode, planVars, admissions, worldVars, attempt, lapsed,
                   pinned, process, refusal, changes>>

Expire ==
    /\ Running /\ lapsed
    /\ ProcessOver(attempt)
    /\ BackToPending
    /\ UNCHANGED <<gates, enabled, mode, planVars, admissions, worldVars, pinned, process,
                   refusal, changes>>

\* The reconciler proves the process gone, and the lapsed attempt expires with it.
Reconcile ==
    /\ Running /\ lapsed
    /\ ~ProcessOver(attempt)
    /\ process' = [process EXCEPT ![attempt] = "stopped"]
    /\ BackToPending
    /\ UNCHANGED <<gates, enabled, mode, planVars, admissions, worldVars, pinned, refusal,
                   changes>>

\* It cannot prove it.
Quarantine ==
    /\ Running /\ lapsed
    /\ ~ProcessOver(attempt)
    /\ process' = [process EXCEPT ![attempt] = "quarantined"]
    /\ EndPrepared("quarantined")
    /\ UNCHANGED <<gates, enabled, mode, planVars, admissions, worldVars, jobVars, pinned,
                   refusal, changes>>

---------------------------------------------------------------------------
(* The calls of the tester that holds the lease.                           *)

AdmittedPlan(a) == admissions[pinned[a]].plan

\* An existing execution is returned as it is.
MayPrepare(a) ==
    /\ LiveLease
    /\ ready
    /\ pinned[a] # 0 /\ Admitted(a)
    /\ execution[a].status = "none"
    /\ runtime = plans[AdmittedPlan(a)].runtime
    /\ tree = plans[AdmittedPlan(a)].tree

Prepare ==
    /\ MayPrepare(attempt)
    /\ execution' = [execution EXCEPT ![attempt] =
         [status |-> "prepared", plan |-> AdmittedPlan(attempt), outcome |-> "none"]]
    /\ UNCHANGED <<gates, enabled, mode, planVars, admissions, worldVars, jobVars, pinned,
                   process, refusal, changes>>

\* The blocked guardian is recorded.
RecordProcess ==
    /\ LiveLease
    /\ Admitted(attempt)
    /\ ProcessOver(attempt)
    /\ process' = [process EXCEPT ![attempt] = "active"]
    /\ UNCHANGED <<gates, enabled, mode, planVars, admissions, worldVars, jobVars, pinned,
                   execution, refusal, changes>>

\* What the release of the guardian asks for.
MayRelease(a) ==
    /\ LiveLease /\ a = attempt
    /\ pinned[a] # 0 /\ Admitted(a)
    /\ execution[a].status = "prepared"
    /\ process[a] = "active"

\* The fence is a generator function without its contextmanager decorator: entering it
\* raises before it has looked at anything, and the guardian is aborted.
Release ==
    /\ LiveLease
    /\ process[attempt] = "active"
    /\ refusal' = "release"
    /\ UNCHANGED <<gates, enabled, mode, planVars, admissions, worldVars, jobVars, pinned,
                   process, execution, changes>>

ClearProcess ==
    /\ LiveLease
    /\ process[attempt] = "active"
    /\ process' = [process EXCEPT ![attempt] = "stopped"]
    /\ UNCHANGED <<gates, enabled, mode, planVars, admissions, worldVars, jobVars, pinned,
                   execution, refusal, changes>>

MayComplete(a) ==
    /\ LiveLease
    /\ ready
    /\ pinned[a] # 0 /\ Admitted(a)
    /\ execution[a].status = "prepared"
    /\ SandboxBinding(a) /\ Unchanged(a)
    /\ process[a] = "stopped"

\* The output names the selected test alone, as passed or as failed.
Complete(outcome) ==
    /\ MayComplete(attempt)
    /\ execution' = [execution EXCEPT ![attempt].status = "finished",
                                      ![attempt].outcome = outcome]
    /\ UNCHANGED <<gates, enabled, mode, planVars, admissions, worldVars, jobVars, pinned,
                   process, refusal, changes>>

\* Each operation of a collector calls _assert_attempt_collector_admission without its
\* last argument: the call raises, whatever the admission.  So no collector execution is
\* ever prepared, and the calls that need one are refused for want of it.
Collect(c) ==
    /\ LiveLease
    /\ c \in collectors \cap Required[gates]
    /\ refusal' = c
    /\ UNCHANGED <<gates, enabled, mode, planVars, admissions, worldVars, jobVars, pinned,
                   process, execution, changes>>
PrepareBrowser == Collect("browser")
PrepareDatabase == Collect("database")

\* The canonical handoff: a test that failed under an admission blocks the item.
Handoff(a) == IF execution[a].outcome = "fail" THEN "blocked" ELSE "pass"

\* The focused gate alone decides (a faulty variant).
PipelineEvidence_FocusedOnly(a) == TRUE
\* After a test that passed, a three-gate item needs the finished browser execution of the
\* attempt, which does not exist.
PipelineEvidence(a) == gates = "three" => Handoff(a) = "blocked"

NextState(a) ==
    CASE Handoff(a) = "blocked" -> "blocked"
      [] Handoff(a) = "pass" -> "verified"

Commit ==
    /\ LiveLease
    /\ ProcessOver(attempt)
    /\ Admitted(attempt)
    /\ Finished(attempt) /\ PipelineEvidence(attempt)
    /\ item' = NextState(attempt)
    /\ job' = "completed"
    /\ UNCHANGED <<gates, enabled, mode, planVars, admissions, worldVars, attempt, lapsed,
                   failures, attemptVars, changes>>

---------------------------------------------------------------------------
Operator ==
    \/ \E t \in Tree : CreatePlan(t)
    \/ CreateBrowserPlan \/ CreateDatabasePlan
    \/ \E r \in Collector : SetEnabled(r)
    \/ Admit \/ AdmitElsewhere
    \/ \E n \in DOMAIN admissions : Revoke(n)

Queue == Claim \/ Lapse \/ Interrupt \/ Fail \/ Expire \/ Reconcile \/ Quarantine

Tester ==
    \/ Prepare \/ RecordProcess \/ Release \/ ClearProcess \/ Commit
    \/ \E outcome \in Outcome : Complete(outcome)
    \/ PrepareBrowser \/ PrepareDatabase

Next == Operator \/ WorldChanges \/ Queue \/ Tester

Spec == Init /\ [][Next]_vars
=============================================================================
