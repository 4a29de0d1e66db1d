------------------------------ MODULE JobStore ------------------------------
(***************************************************************************)
(* The durable queue of agent-flow: SQLiteStore in storage.py.             *)
(*                                                                         *)
(* Every operation of the store is one BEGIN IMMEDIATE transaction that    *)
(* reads the clock once, so each is one action here; an operation that     *)
(* raises rolls back and is a step that does not happen.  The callers are  *)
(* concurrent and unreliable: a scheduler keeps the lease token of a claim *)
(* and may present it long after it was fenced, so every operation that    *)
(* takes a token takes an attempt here, current or not.                    *)
(*                                                                         *)
(* Time is abstracted to the only thing the store asks of it: whether a    *)
(* lease has expired.  "lapsed" holds the running jobs whose               *)
(* lease_expires_at is not after now; a heartbeat in time keeps a job out  *)
(* of it.  The resource leases of a job carry the expiry of the job.       *)
(*                                                                         *)
(* The tables of worktrees, approvals, admissions and resource definitions *)
(* are summed up in "bound": the items whose open job finds all of its     *)
(* bindings (ready worktree, approval, live admission, enabled registered  *)
(* resources) intact.  Other operations change them at any time.           *)
(***************************************************************************)
EXTENDS Naturals, FiniteSets

CONSTANTS Item,         \* work items of one active campaign
          Resource,     \* resource keys a job may require
          Registered,   \* the keys that are registered definitions (res_...)
          Limit,        \* concurrency limit of each resource's policy
          Owner,        \* holders of standalone resource leases
          Stage,        \* stage names a job may be enqueued under
          Session,      \* external provider sessions
          Reconciler,   \* process reconcilers
          Free,         \* marks a resource slot nobody holds
          NoSession,    \* marks an attempt bound to no session
          Nobody,       \* marks a process nobody reconciles
          MaxLimit,     \* the largest limit of any policy
          MaxJobs,      \* bound: jobs ever enqueued for one item
          MaxClaims,    \* bound: attempts ever made of one job
          MaxAttempts,  \* fail_job's max_attempts
          GlobalLimit,  \* the campaign's global concurrency limit
          RoleLimit     \* the campaign's limit of each role

Role == {"investigator", "fixer", "tester"}
ItemStates == {"absent", "backlog", "investigating", "ready_for_fix", "fixing",
               "ready_for_test", "testing", "verified_green", "blocked"}
JobStates == {"absent", "pending", "running", "completed", "failed"}
AttemptStates == {"none", "running", "succeeded", "failed", "expired",
                  "interrupted"}
ProcessStates == {"none", "active", "quarantined", "stopped"}

\* ROLE_STATES: the item state a role's job queues from and the one it works in.
QueuedState == [r \in Role |->
    CASE r = "investigator" -> "backlog"
      [] r = "fixer"        -> "ready_for_fix"
      [] r = "tester"       -> "ready_for_test"]
ActiveState == [r \in Role |->
    CASE r = "investigator" -> "investigating"
      [] r = "fixer"        -> "fixing"
      [] r = "tester"       -> "testing"]

CreatableStates == {"backlog", "ready_for_fix", "ready_for_test", "blocked"}

\* STAGE_NEXT_STATES: where a finished stage of each role may send its item.
NextStates == [r \in Role |->
    CASE r = "investigator" -> {"ready_for_fix", "blocked"}
      [] r = "fixer"        -> {"ready_for_test", "blocked"}
      [] r = "tester"       -> {"verified_green", "ready_for_fix", "blocked"}]

\* A job is named by its item and its place among the jobs of that item, an
\* attempt by its job and its attempt_number; the attempt also stands for the
\* lease token issued with it.
AttemptNo == 1..MaxClaims
Job == Item \X (1..MaxJobs)
Attempt == Job \X AttemptNo
ItemOf(j) == j[1]

\* One lease row per (resource_key, lease_slot); an unregistered key has slot 1.
Slot == {s \in Resource \X (1..MaxLimit) : s[2] <= Limit[s[1]]}

ASSUME LimitAssumption ==
    /\ MaxLimit \in Nat
    /\ Limit \in [Resource -> 1..MaxLimit]
    /\ Registered \subseteq Resource
    /\ \A r \in Resource \ Registered : Limit[r] = 1

ASSUME BoundAssumption ==
    /\ MaxJobs \in Nat
    /\ MaxClaims \in Nat
    /\ MaxAttempts \in Nat \ {0}
    /\ GlobalLimit \in Nat \ {0}
    /\ RoleLimit \in [Role -> Nat \ {0}]
    /\ Stage # {}

ASSUME MarkAssumption ==
    /\ Free \notin Attempt \cup Owner
    /\ Attempt \cap Owner = {}
    /\ NoSession \notin Session
    /\ Nobody \notin Reconciler

VARIABLES itemState,        \* work_items.state
          bound,            \* items whose open job has its bindings intact
          jobCount,         \* jobs enqueued so far for each item
          jobStatus,        \* jobs.status
          role,             \* jobs.role
          stage,            \* jobs.stage
          needs,            \* jobs.required_resources_json
          attemptCount,     \* jobs.attempt_count
          attemptStatus,    \* attempts.status
          lapsed,           \* running jobs whose lease has expired
          holder,           \* resource_leases: the token in each slot
          slotLapsed,       \* slots whose standalone lease has expired
          proc,             \* external_processes.state of an attempt's latest
          recon,            \* the reconciler holding the process fence
          reconLapsed,      \* attempts whose reconciliation fence has expired
          session,          \* attempts.external_session_id
          resumedFrom,      \* applied resume: source attempt of this attempt
          interruptAt,      \* pending interrupt: the attempt it targets, or 0
          interruptSession, \* pending interrupt: its expected session
          resumeFrom        \* pending resume: its source attempt, or 0

itemVars == <<itemState, bound>>
jobVars == <<jobCount, jobStatus, role, stage, needs, attemptCount, attemptStatus, lapsed>>
leaseVars == <<holder, slotLapsed>>
processVars == <<proc, recon, reconLapsed>>
controlVars == <<session, resumedFrom, interruptAt, interruptSession, resumeFrom>>
vars == <<itemVars, jobVars, leaseVars, processVars, controlVars>>

TypeOK ==
    /\ itemState \in [Item -> ItemStates]
    /\ bound \subseteq Item
    /\ jobCount \in [Item -> 0..MaxJobs]
    /\ jobStatus \in [Job -> JobStates]
    /\ role \in [Job -> Role]
    /\ stage \in [Job -> Stage]
    /\ needs \in [Job -> SUBSET Resource]
    /\ attemptCount \in [Job -> 0..MaxClaims]
    /\ attemptStatus \in [Attempt -> AttemptStates]
    /\ lapsed \subseteq Job
    /\ holder \in [Slot -> Attempt \cup Owner \cup {Free}]
    /\ slotLapsed \subseteq Slot
    /\ proc \in [Attempt -> ProcessStates]
    /\ recon \in [Attempt -> Reconciler \cup {Nobody}]
    /\ reconLapsed \subseteq Attempt
    /\ session \in [Attempt -> Session \cup {NoSession}]
    /\ resumedFrom \in [Attempt -> 0..MaxClaims]
    /\ interruptAt \in [Job -> 0..MaxClaims]
    /\ interruptSession \in [Job -> Session \cup {NoSession}]
    /\ resumeFrom \in [Job -> 0..MaxClaims]

Init ==
    /\ itemState = [i \in Item |-> "absent"]
    /\ bound = Item
    /\ jobCount = [i \in Item |-> 0]
    /\ jobStatus = [j \in Job |-> "absent"]
    /\ role = [j \in Job |-> "investigator"]
    /\ stage = [j \in Job |-> CHOOSE st \in Stage : TRUE]
    /\ needs = [j \in Job |-> {}]
    /\ attemptCount = [j \in Job |-> 0]
    /\ attemptStatus = [a \in Attempt |-> "none"]
    /\ lapsed = {}
    /\ holder = [s \in Slot |-> Free]
    /\ slotLapsed = {}
    /\ proc = [a \in Attempt |-> "none"]
    /\ recon = [a \in Attempt |-> Nobody]
    /\ reconLapsed = {}
    /\ session = [a \in Attempt |-> NoSession]
    /\ resumedFrom = [a \in Attempt |-> 0]
    /\ interruptAt = [j \in Job |-> 0]
    /\ interruptSession = [j \in Job |-> NoSession]
    /\ resumeFrom = [j \in Job |-> 0]

-----------------------------------------------------------------------------
(* What the operations read. *)

\* jobs.current_attempt_id of a running job.
Current(j) == <<j, attemptCount[j]>>

\* A lease check that forgets the expiry (a faulty variant).
LiveLease_IgnoringExpiry(a) ==
    jobStatus[a[1]] = "running" /\ attemptCount[a[1]] = a[2]

\* _assert_live_lease for the token of attempt a.
LiveLease(a) ==
    /\ jobStatus[a[1]] = "running"
    /\ attemptCount[a[1]] = a[2]
    /\ a[1] \notin lapsed

\* An external process of the attempt that is not proven stopped.
Unresolved(a) == proc[a] \in {"active", "quarantined"}

OpenJob(j) == jobStatus[j] \in {"pending", "running"}

\* The lease rows of the job are exactly its required resources, one row each,
\* all under the token of its current attempt.
FenceExact(j) ==
    /\ \A s \in Slot, n \in AttemptNo :
          holder[s] = <<j, n>> => n = attemptCount[j] /\ s[1] \in needs[j]
    /\ \A r \in needs[j] : \E s \in Slot : s[1] = r /\ holder[s] = Current(j)
    /\ \A s, t \in Slot :
          holder[s] = Current(j) /\ holder[t] = Current(j) /\ s[1] = t[1] => s = t

\* The item still stands where the job's stage put it (the compare-and-swap of
\* every update of work_items.state).
InStage(j) == itemState[ItemOf(j)] = ActiveState[role[j]]

-----------------------------------------------------------------------------
(* What ending the current attempts of a set S of running jobs writes. *)

\* UPDATE jobs SET status = ?, with the lease columns cleared.
JobsSet(S, status) == [j \in Job |-> IF j \in S THEN status ELSE jobStatus[j]]

\* An update of the attempts by job alone (a faulty variant).
AttemptsEnded_OfAnyNumber(S, status) ==
    [a \in Attempt |->
        IF a[1] \in S /\ attemptStatus[a] # "none" THEN status ELSE attemptStatus[a]]

\* The attempt row left as it is (a faulty variant).
AttemptsEnded_Forgotten(S, status) == attemptStatus

AttemptsEnded(S, status) ==
    [a \in Attempt |->
        IF a[1] \in S /\ a = Current(a[1]) /\ attemptStatus[a] = "running"
        THEN status ELSE attemptStatus[a]]

\* Leases left behind by the attempt that ends (a faulty variant).
SlotsFreed_Forgotten(S) == holder

\* DELETE FROM resource_leases WHERE job_id = ? AND lease_token = ?
SlotsFreed(S) ==
    [s \in Slot |-> IF \E j \in S : holder[s] = Current(j) THEN Free ELSE holder[s]]

ItemsRequeued(S) ==
    [i \in Item |->
        IF \E j \in S : ItemOf(j) = i
        THEN QueuedState[role[CHOOSE j \in S : ItemOf(j) = i]]
        ELSE itemState[i]]

InterruptsDropped(S) == [j \in Job |-> IF j \in S THEN 0 ELSE interruptAt[j]]
InterruptSessionsDropped(S) ==
    [j \in Job |-> IF j \in S THEN NoSession ELSE interruptSession[j]]

\* _expire_job_after_lease raises unless all of this holds of the job.
Expirable(j) ==
    /\ FenceExact(j)
    /\ InStage(j)
    /\ attemptStatus[Current(j)] = "running"

\* Recovery that never looks for a live process (a faulty variant).
Recovered_DespiteProcess == lapsed

\* The jobs _recover_expired returns to their queues: those with an expired
\* lease and no process that may still be running.  One that cannot be expired
\* makes the whole transaction raise.
Recovered == {j \in lapsed : ~Unresolved(Current(j))}
RecoveryPossible ==
    /\ \A j \in Recovered : Expirable(j)
    /\ \A j, k \in Recovered : ItemOf(j) = ItemOf(k) => j = k

-----------------------------------------------------------------------------
(* Work items and jobs. *)

NextJob(i) == <<i, jobCount[i] + 1>>

\* The unique index one_open_job_per_stage over the open jobs in O.
StageFree(i, r, st, O) ==
    \A j \in O : ItemOf(j) = i => role[j] # r \/ stage[j] # st

\* _enqueue_job: an item in state `queued` may receive a job of role r.
Enqueueable(i, r, st, queued) ==
    /\ jobCount[i] < MaxJobs
    /\ queued = QueuedState[r]
    /\ StageFree(i, r, st, {j \in Job : OpenJob(j)})

\* The row that _enqueue_job inserts, next to the job statuses in `status`.
AddJob(i, r, st, resources, status) ==
    /\ jobCount' = [jobCount EXCEPT ![i] = @ + 1]
    /\ jobStatus' = [status EXCEPT ![NextJob(i)] = "pending"]
    /\ role' = [role EXCEPT ![NextJob(i)] = r]
    /\ stage' = [stage EXCEPT ![NextJob(i)] = st]
    /\ needs' = [needs EXCEPT ![NextJob(i)] = resources]

CreateWorkItem(i, state) ==
    /\ itemState[i] = "absent"
    /\ itemState' = [itemState EXCEPT ![i] = state]
    /\ UNCHANGED <<bound, jobVars, leaseVars, processVars, controlVars>>

CreateWorkItemWithJob(i, r, st, resources) ==
    /\ itemState[i] = "absent"
    /\ Enqueueable(i, r, st, QueuedState[r])
    /\ itemState' = [itemState EXCEPT ![i] = QueuedState[r]]
    /\ AddJob(i, r, st, resources, jobStatus)
    /\ UNCHANGED <<bound, attemptCount, attemptStatus, lapsed, leaseVars,
                   processVars, controlVars>>

EnqueueJob(i, r, st, resources) ==
    /\ Enqueueable(i, r, st, itemState[i])
    /\ AddJob(i, r, st, resources, jobStatus)
    /\ UNCHANGED <<itemVars, attemptCount, attemptStatus, lapsed, leaseVars,
                   processVars, controlVars>>

\* Some other operation breaks or restores the bindings of the item's open job.
ChangeBindings(i) ==
    /\ \E j \in Job : ItemOf(j) = i /\ OpenJob(j)
    /\ bound' = IF i \in bound THEN bound \ {i} ELSE bound \cup {i}
    /\ UNCHANGED <<itemState, jobVars, leaseVars, processVars, controlVars>>

-----------------------------------------------------------------------------
(* Recovery and claims. *)

LeaseLapses(j) ==
    /\ jobStatus[j] = "running"
    /\ j \notin lapsed
    /\ lapsed' = lapsed \cup {j}
    /\ UNCHANGED <<itemVars, jobCount, jobStatus, role, stage, needs, attemptCount,
                   attemptStatus, leaseVars, processVars, controlVars>>

\* The lease rows once _recover_expired has also deleted the expired leases
\* that belong to no running job.
HoldersAfterRecovery ==
    [s \in Slot |-> IF s \in slotLapsed THEN Free ELSE SlotsFreed(Recovered)[s]]

RecoverExpiredLeases ==
    /\ Recovered # {} \/ slotLapsed # {}
    /\ RecoveryPossible
    /\ itemState' = ItemsRequeued(Recovered)
    /\ jobStatus' = JobsSet(Recovered, "pending")
    /\ attemptStatus' = AttemptsEnded(Recovered, "expired")
    /\ lapsed' = lapsed \ Recovered
    /\ holder' = HoldersAfterRecovery
    /\ slotLapsed' = {}
    /\ interruptAt' = InterruptsDropped(Recovered)
    /\ interruptSession' = InterruptSessionsDropped(Recovered)
    /\ UNCHANGED <<bound, jobCount, role, stage, needs, attemptCount, processVars,
                   session, resumedFrom, resumeFrom>>

\* The comparisons off by one (a faulty variant).
WithinLimits_OffByOne(r, status) ==
    LET running == {j \in Job : status[j] = "running"}
    IN  /\ Cardinality(running) <= GlobalLimit
        /\ Cardinality({j \in running : role[j] = r}) <= RoleLimit[r]

\* Room in the campaign for one more running job of role r, where `status` is
\* the status of each job once recovery has run.
WithinLimits(r, status) ==
    LET running == {j \in Job : status[j] = "running"}
    IN  /\ Cardinality(running) < GlobalLimit
        /\ Cardinality({j \in running : role[j] = r}) < RoleLimit[r]

\* _resource_claim_plan takes the lowest free slot of each required resource.
LowestFree(s, rows) ==
    /\ rows[s] = Free
    /\ \A t \in Slot : t[1] = s[1] /\ t[2] < s[2] => rows[t] # Free

\* The pending resume of job j still names its latest attempt, cleanly
\* interrupted and with its provider process proven stopped.
ResumeExact(j) ==
    LET source == <<j, resumeFrom[j]>>
    IN  /\ resumeFrom[j] = attemptCount[j]
        /\ attemptStatus[source] = "interrupted"
        /\ session[source] # NoSession
        /\ proc[source] = "stopped"

\* What claim_job asks of a job once recovery has run.  A pending resume that no
\* longer matches makes the transaction raise.
Claimable(j) ==
    LET status == JobsSet(Recovered, "pending")
    IN
    /\ attemptCount[j] < MaxClaims
    /\ RecoveryPossible
    /\ status[j] = "pending"
    /\ ItemsRequeued(Recovered)[ItemOf(j)] = QueuedState[role[j]]
    /\ ItemOf(j) \in bound
    /\ WithinLimits(role[j], status)
    /\ \A r \in needs[j] : \E s \in Slot : s[1] = r /\ HoldersAfterRecovery[s] = Free
    /\ resumeFrom[j] # 0 => ResumeExact(j)

\* claim_job: recovery and the claim of one eligible pending job, all its
\* resources or none, in one transaction.
ClaimJob(j) ==
    LET status == JobsSet(Recovered, "pending")
        items == ItemsRequeued(Recovered)
        rows == HoldersAfterRecovery
        a == <<j, attemptCount[j] + 1>>
    IN
    /\ Claimable(j)
    /\ itemState' = [items EXCEPT ![ItemOf(j)] = ActiveState[role[j]]]
    /\ jobStatus' = [status EXCEPT ![j] = "running"]
    /\ attemptCount' = [attemptCount EXCEPT ![j] = @ + 1]
    /\ attemptStatus' = [AttemptsEnded(Recovered, "expired") EXCEPT ![a] = "running"]
    /\ lapsed' = lapsed \ Recovered
    /\ holder' = [s \in Slot |->
                    IF s[1] \in needs[j] /\ LowestFree(s, rows) THEN a ELSE rows[s]]
    /\ slotLapsed' = {}
    /\ interruptAt' = InterruptsDropped(Recovered)
    /\ interruptSession' = InterruptSessionsDropped(Recovered)
    /\ resumedFrom' = [resumedFrom EXCEPT ![a] = resumeFrom[j]]
    /\ resumeFrom' = [resumeFrom EXCEPT ![j] = 0]
    /\ UNCHANGED <<bound, jobCount, role, stage, needs, processVars, session>>

\* heartbeat_job extends the lease of a live attempt and of its resources.
HeartbeatJob(a) ==
    /\ LiveLease(a)
    /\ FenceExact(a[1])
    /\ lapsed' = lapsed \ {a[1]}
    /\ UNCHANGED <<itemVars, jobCount, jobStatus, role, stage, needs, attemptCount,
                   attemptStatus, leaseVars, processVars, controlVars>>

-----------------------------------------------------------------------------
(* The ways a worker ends its attempt. *)

\* A finalization that does not look for requests (a faulty variant).
NoPendingInterrupt_Unchecked(j) == TRUE

\* _assert_no_pending_operator_interrupt
NoPendingInterrupt(j) == interruptAt[j] = 0

\* The attempt of a ends with `ended`, its job takes status `next` and its
\* resource leases are deleted; shared by failing and interrupting.
EndAttempt(a, ended, next) ==
    /\ attemptStatus' = AttemptsEnded({a[1]}, ended)
    /\ jobStatus' = JobsSet({a[1]}, next)
    /\ holder' = SlotsFreed({a[1]})
    /\ UNCHANGED <<bound, jobCount, role, stage, needs, attemptCount, lapsed,
                   slotLapsed, processVars, session, resumedFrom, resumeFrom>>

\* _assert_resume_authorization_fulfilled
ResumeFulfilled(a) ==
    resumedFrom[a] # 0 =>
        /\ session[a] = session[<<a[1], resumedFrom[a]>>]
        /\ proc[a] = "stopped"

Successor(next) ==
    CASE next = "ready_for_fix"  -> {"fixer"}
      [] next = "ready_for_test" -> {"tester"}
      [] OTHER                   -> {}

\* The fences of a finalization: the lease, the bindings, the item, the process,
\* the resumed session and every resource lease.
MayCommit(a) ==
    /\ LiveLease(a)
    /\ NoPendingInterrupt(a[1])
    /\ ItemOf(a[1]) \in bound
    /\ InStage(a[1])
    /\ ~Unresolved(a)
    /\ ResumeFulfilled(a)
    /\ FenceExact(a[1])
    /\ attemptStatus[a] = "running"

\* commit_stage_result: the outcome, the end of the attempt, the release of
\* its leases and the successor job, or none of them.
CommitStageResult(a, next, resources) ==
    LET j == a[1]
        i == ItemOf(a[1])
    IN
    /\ MayCommit(a)
    /\ next \in NextStates[role[j]]
    /\ itemState' = [itemState EXCEPT ![i] = next]
    /\ attemptStatus' = AttemptsEnded({j}, "succeeded")
    /\ holder' = SlotsFreed({j})
    /\ \/ /\ Successor(next) = {}
          /\ resources = {}
          /\ jobStatus' = JobsSet({j}, "completed")
          /\ UNCHANGED <<jobCount, role, stage, needs>>
       \/ \E r \in Successor(next), st \in Stage :
             /\ jobCount[i] < MaxJobs
             /\ StageFree(i, r, st, {k \in Job \ {j} : OpenJob(k)})
             /\ AddJob(i, r, st, resources, JobsSet({j}, "completed"))
    /\ UNCHANGED <<bound, attemptCount, lapsed, slotLapsed, processVars,
                   controlVars>>

\* The comparison off by one (a faulty variant).
FailuresAllow_OffByOne(a) ==
    Cardinality({n \in AttemptNo : n = a[2] \/ attemptStatus[<<a[1], n>>] = "failed"})
        <= MaxAttempts

\* Fewer than max_attempts attempts have failed, that of a included.
FailuresAllow(a) ==
    Cardinality({n \in AttemptNo : n = a[2] \/ attemptStatus[<<a[1], n>>] = "failed"})
        < MaxAttempts

\* The item given the status of its job (a faulty variant).
AfterFailure_JobStatus(j, again) == IF again THEN QueuedState[role[j]] ELSE "failed"

\* Where fail_job leaves the item.
AfterFailure(j, again) == IF again THEN QueuedState[role[j]] ELSE "blocked"

\* What failing and giving back a claim ask of its attempt.
MayEnd(a) ==
    /\ LiveLease(a)
    /\ NoPendingInterrupt(a[1])
    /\ ~Unresolved(a)
    /\ InStage(a[1])

\* fail_job: back to the queue while attempts are left and the caller (or the
\* quarantine of its worktree) does not rule it out, otherwise blocked.
FailJob(a, requeue) ==
    LET j == a[1]
        again == requeue /\ FailuresAllow(a)
    IN
    /\ MayEnd(a)
    /\ itemState' = [itemState EXCEPT ![ItemOf(j)] = AfterFailure(j, again)]
    /\ EndAttempt(a, "failed", IF again THEN "pending" ELSE "failed")
    /\ UNCHANGED <<interruptAt, interruptSession>>

\* interrupt_job without an operator request (also release_job): the scheduler
\* gives its claim back.
InterruptJob(a) ==
    /\ MayEnd(a)
    /\ itemState' = ItemsRequeued({a[1]})
    /\ EndAttempt(a, "interrupted", "pending")
    /\ UNCHANGED <<interruptAt, interruptSession>>

\* _assert_operator_interrupt_request, for an attempt with no live process.
InterruptExact(a) ==
    /\ interruptAt[a[1]] = a[2]
    /\ interruptSession[a[1]] = session[a]
    /\ attemptStatus[a] = "running"

MayComplete(a) ==
    /\ LiveLease(a)
    /\ InterruptExact(a)
    /\ ~Unresolved(a)
    /\ InStage(a[1])

\* interrupt_job with an operator request: the request is applied.
CompleteOperatorInterrupt(a) ==
    /\ MayComplete(a)
    /\ itemState' = ItemsRequeued({a[1]})
    /\ EndAttempt(a, "interrupted", "pending")
    /\ interruptAt' = InterruptsDropped({a[1]})
    /\ interruptSession' = InterruptSessionsDropped({a[1]})

-----------------------------------------------------------------------------
(* Operator controls and provider sessions. *)

RequestJobInterrupt(a) ==
    /\ LiveLease(a)
    /\ interruptAt[a[1]] = 0
    /\ attemptStatus[a] = "running"
    /\ interruptAt' = [interruptAt EXCEPT ![a[1]] = a[2]]
    /\ interruptSession' = [interruptSession EXCEPT ![a[1]] = session[a]]
    /\ UNCHANGED <<itemVars, jobVars, leaseVars, processVars, session,
                   resumedFrom, resumeFrom>>

\* Any interrupted attempt may be resumed (a faulty variant).
RequestJobResume_AnyAttempt(a) ==
    /\ jobStatus[a[1]] = "pending"
    /\ resumeFrom[a[1]] = 0
    /\ attemptStatus[a] = "interrupted"
    /\ session[a] # NoSession
    /\ proc[a] = "stopped"
    /\ resumeFrom' = [resumeFrom EXCEPT ![a[1]] = a[2]]
    /\ UNCHANGED <<itemVars, jobVars, leaseVars, processVars, session,
                   resumedFrom, interruptAt, interruptSession>>

\* request_job_resume: only the latest attempt of a pending job, cleanly
\* interrupted, with a session and a process proven stopped.
RequestJobResume(a) ==
    /\ jobStatus[a[1]] = "pending"
    /\ resumeFrom[a[1]] = 0
    /\ a[2] = attemptCount[a[1]]
    /\ attemptStatus[a] = "interrupted"
    /\ session[a] # NoSession
    /\ proc[a] = "stopped"
    /\ resumeFrom' = [resumeFrom EXCEPT ![a[1]] = a[2]]
    /\ UNCHANGED <<itemVars, jobVars, leaseVars, processVars, session,
                   resumedFrom, interruptAt, interruptSession>>

\* A session kept from other jobs only (a faulty variant).
SessionFree_WithinJob(a, s) == \A b \in Attempt : session[b] = s => b[1] = a[1]

\* No attempt of another job has the session, and one of this job only when the
\* resume authorization of a covers it.
SessionFree(a, s) ==
    \A b \in Attempt \ {a} : session[b] = s => b[1] = a[1] /\ resumedFrom[a] # 0

\* record_external_session: a session belongs to one job for good, and only an
\* authorized resume carries it to another attempt of that job.
RecordExternalSession(a, s) ==
    /\ LiveLease(a)
    /\ attemptStatus[a] = "running"
    /\ session[a] = NoSession
    /\ resumedFrom[a] # 0 => s = session[<<a[1], resumedFrom[a]>>]
    /\ SessionFree(a, s)
    /\ session' = [session EXCEPT ![a] = s]
    /\ UNCHANGED <<itemVars, jobVars, leaseVars, processVars, resumedFrom,
                   interruptAt, interruptSession, resumeFrom>>

-----------------------------------------------------------------------------
(* External processes and their reconciliation after an expired lease. *)

RecordExternalProcess(a) ==
    /\ LiveLease(a)
    /\ attemptStatus[a] = "running"
    /\ ~Unresolved(a)
    /\ proc' = [proc EXCEPT ![a] = "active"]
    /\ UNCHANGED <<itemVars, jobVars, leaseVars, recon, reconLapsed, controlVars>>

\* clear_external_process: the worker has reaped its process group.
ClearExternalProcess(a) ==
    /\ LiveLease(a)
    /\ proc[a] = "active"
    /\ proc' = [proc EXCEPT ![a] = "stopped"]
    /\ UNCHANGED <<itemVars, jobVars, leaseVars, recon, reconLapsed, controlVars>>

\* A fence that a crashed reconciler keeps for ever (a faulty variant).
Reconcilable_Once(a) == recon[a] = Nobody

\* No reconciler holds the fence of the process, or its fence has expired.
Reconcilable(a) == recon[a] = Nobody \/ a \in reconLapsed

\* claim_external_process_reconciliation; `retry` is include_quarantined.
ClaimReconciliation(w, a, retry) ==
    /\ proc[a] = "active" \/ (retry /\ proc[a] = "quarantined")
    /\ jobStatus[a[1]] = "running"
    /\ a = Current(a[1])
    /\ a[1] \in lapsed
    /\ Reconcilable(a)
    /\ recon' = [recon EXCEPT ![a] = w]
    /\ reconLapsed' = reconLapsed \ {a}
    /\ UNCHANGED <<itemVars, jobVars, leaseVars, proc, controlVars>>

ReconciliationLapses(a) ==
    /\ recon[a] # Nobody
    /\ a \notin reconLapsed
    /\ reconLapsed' = reconLapsed \cup {a}
    /\ UNCHANGED <<itemVars, jobVars, leaseVars, proc, recon, controlVars>>

\* What complete_external_process_reconciliation demands of reconciler w.
ReconciliationHeld(w, a) ==
    /\ recon[a] = w
    /\ a \notin reconLapsed
    /\ jobStatus[a[1]] = "running"
    /\ a = Current(a[1])
    /\ a[1] \in lapsed

\* ... with status "quarantined": the process keeps the job and its resources.
QuarantineProcess(w, a) ==
    /\ ReconciliationHeld(w, a)
    /\ proc' = [proc EXCEPT ![a] = "quarantined"]
    /\ recon' = [recon EXCEPT ![a] = Nobody]
    /\ UNCHANGED <<itemVars, jobVars, leaseVars, reconLapsed, controlVars>>

\* ... with status "gone" or "terminated": the job goes back to its queue.
ResolveProcess(w, a) ==
    LET S == {a[1]}
    IN
    /\ ReconciliationHeld(w, a)
    /\ Unresolved(a)
    /\ Expirable(a[1])
    /\ proc' = [proc EXCEPT ![a] = "stopped"]
    /\ recon' = [recon EXCEPT ![a] = Nobody]
    /\ itemState' = ItemsRequeued(S)
    /\ jobStatus' = JobsSet(S, "pending")
    /\ attemptStatus' = AttemptsEnded(S, "expired")
    /\ lapsed' = lapsed \ S
    /\ holder' = SlotsFreed(S)
    /\ interruptAt' = InterruptsDropped(S)
    /\ interruptSession' = InterruptSessionsDropped(S)
    /\ UNCHANGED <<bound, jobCount, role, stage, needs, attemptCount, slotLapsed,
                   reconLapsed, session, resumedFrom, resumeFrom>>

-----------------------------------------------------------------------------
(* Standalone resource leases, on the only slot of an unregistered key. *)

\* The expiry alone decides who may take the slot (a faulty variant): also the lease
\* of a job whose own lease has lapsed.
Takeable_FromJob(s) == holder[s] = Free \/ s \in slotLapsed \/ holder[s] \in lapsed \X AttemptNo

\* No lease is in the slot, or an expired one that belongs to no job.
Takeable(s) == holder[s] = Free \/ s \in slotLapsed

AcquireResource(r, o) ==
    LET s == <<r, 1>>
    IN
    /\ Takeable(s)
    /\ holder' = [holder EXCEPT ![s] = o]
    /\ slotLapsed' = slotLapsed \ {s}
    /\ UNCHANGED <<itemVars, jobVars, processVars, controlVars>>

HeartbeatResource(r, o) ==
    LET s == <<r, 1>>
    IN
    /\ holder[s] = o
    /\ s \notin slotLapsed
    /\ slotLapsed' = slotLapsed \ {s}
    /\ UNCHANGED <<itemVars, jobVars, holder, processVars, controlVars>>

ReleaseResource(r, o) ==
    LET s == <<r, 1>>
    IN
    /\ holder[s] = o
    /\ holder' = [holder EXCEPT ![s] = Free]
    /\ slotLapsed' = slotLapsed \ {s}
    /\ UNCHANGED <<itemVars, jobVars, processVars, controlVars>>

ResourceLapses(r) ==
    LET s == <<r, 1>>
    IN
    /\ holder[s] \in Owner
    /\ s \notin slotLapsed
    /\ slotLapsed' = slotLapsed \cup {s}
    /\ UNCHANGED <<itemVars, jobVars, holder, processVars, controlVars>>

-----------------------------------------------------------------------------

ItemStep ==
    \/ \E i \in Item, state \in CreatableStates : CreateWorkItem(i, state)
    \/ \E i \in Item, r \in Role, st \in Stage, resources \in SUBSET Resource :
          \/ CreateWorkItemWithJob(i, r, st, resources)
          \/ EnqueueJob(i, r, st, resources)
    \/ \E i \in Item : ChangeBindings(i)

WorkerStep ==
    \/ \E a \in Attempt :
          \/ HeartbeatJob(a)
          \/ InterruptJob(a)
          \/ CompleteOperatorInterrupt(a)
          \/ RecordExternalProcess(a)
          \/ ClearExternalProcess(a)
    \/ \E a \in Attempt, next \in ItemStates, resources \in SUBSET Resource :
          CommitStageResult(a, next, resources)
    \/ \E a \in Attempt, requeue \in BOOLEAN : FailJob(a, requeue)
    \/ \E a \in Attempt, s \in Session : RecordExternalSession(a, s)

OperatorStep ==
    \E a \in Attempt : RequestJobInterrupt(a) \/ RequestJobResume(a)

QueueStep ==
    \/ RecoverExpiredLeases
    \/ \E j \in Job : ClaimJob(j) \/ LeaseLapses(j)

ReconcilerStep ==
    \/ \E w \in Reconciler, a \in Attempt :
          \/ \E retry \in BOOLEAN : ClaimReconciliation(w, a, retry)
          \/ QuarantineProcess(w, a)
          \/ ResolveProcess(w, a)
    \/ \E a \in Attempt : ReconciliationLapses(a)

ResourceStep ==
    \E r \in Resource \ Registered :
        \/ \E o \in Owner :
              AcquireResource(r, o) \/ HeartbeatResource(r, o) \/ ReleaseResource(r, o)
        \/ ResourceLapses(r)

Next ==
    \/ ItemStep
    \/ QueueStep
    \/ WorkerStep
    \/ OperatorStep
    \/ ReconcilerStep
    \/ ResourceStep

Spec == Init /\ [][Next]_vars
=============================================================================
