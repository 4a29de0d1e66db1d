# Verification of agent-flow

agent-flow is a local, durable supervisor for AI workers: a SQLite database holds
campaigns, work items, jobs and leases, and any number of scheduler processes claim
jobs from it, run workers as external processes and commit their results. This
directory holds TLA+ modules translated from that code, TLC configurations that check
them on small instances, and proofs of their main invariants for all instances.

    tlc -workers 2 -config stage_cycle.cfg MCJobStore    # one run; see "Runs"
    tlapm SchedulerProofs.tla                            # one module's proofs

Paths below are relative to `src/agent_flow/` of the repository, unless they name its
`README.md`.

## Inventory

| Component | State it keeps | Operations | What makes it hard | What makes it correct |
|---|---|---|---|---|
| Durable job queue (`storage.py`) | work items, jobs, attempts | create, enqueue, claim, heartbeat, commit, fail, release, interrupt, recover | concurrent schedulers; tokens presented after they were fenced; several rows changed per step | item, job and attempt agree; one runner per item; an ended attempt is frozen; failures are bounded |
| Resource leases (`storage.py`) | one row per (key, slot) | claimed and freed with a job; standalone acquire, heartbeat, release | slots freed and taken by claims, recovery and owners in any order | a running job holds exactly its slots, nobody else's lease outlives its attempt |
| Operator controls (`storage.py`, `cli.py`) | pending and applied requests | interrupt, resume | requests race results, expiry and later attempts | an interrupt beats the result and never leaks; a resume stays exact; sessions have one lineage |
| External process registry (`storage.py`) | process rows with a reconciliation fence | record, clear, claim and complete a reconciliation | supervisor and reconciler crashes | a process that may live keeps its job; recovery makes progress |
| Scheduler (`scheduler.py`, `sqlite_scheduler.py`) | worker slots, tasks | `run_once`, heartbeat, poll, finalize, shutdown | asyncio callbacks and threads interleave with storage calls | no live claim is forgotten, no worker wrongly cancelled, no lost lease runs on; quiescence |
| Guardian and reconciler (`worktrees.py`, `process_reconciler.py`, `codex_worker.py`) | OS process, pipes | launch behind a barrier, record, release, reap, TERM, KILL | crash between any two steps, reuse of process ids | nothing runs unrecorded; only the recorded group is signalled; every launcher is resolved |
| Codex worker (`codex_worker.py`) | captures, baseline of the tree | prepare, launch, capture, terminate, validate, postflight, answer | cancellation does not stop a thread; a command may leave others behind | an answer is accepted only on proof; a worktree is condemned only with cause |
| Managed worktrees (`worktrees.py`, `storage.py`) | worktree and operation rows, the disk | request, create, quarantine, retry, clean up, remove | Git commands outside the transaction; two fences | the rows never claim more than the disk holds; one operation at a time; exact work is adopted |
| Admissions and evidence (`storage.py`, `evidence_pipeline.py`, `focused_tests.py`) | plans, admissions, executions | plan, admit, revoke, prepare, complete, release fence | revocations and revisions race attempts; files change under an execution | verified only on the attempt's own evidence under the latest plan |
| Gate evaluation (`models.py`, `scheduler.py`) | none | `evaluate_test_handoff`, judgement of an answer | combinations of gates and evidence; two judges at two times | green only with every required gate proved |
| Collectors, sandbox, CLI, status, live proof | none of their own | sequential I/O and reports | - | - |

Components interact only through the database and through callbacks the scheduler
hands to a worker (`WorkerContext`). Every write is one `BEGIN IMMEDIATE` transaction
(`storage.py:481`), which rolls back when the operation raises; an attempt's lease token
is its right to call. `PROJECT.json` lists the hazards of this code line by line.

## Modules

| Module | Models |
|---|---|
| `JobStore` | the queue: items, jobs, attempts, job and standalone leases, operator controls, sessions, the process registry and its reconciliation fence |
| `Workflow` | the abstract queue: an item, the one attempt that works on it, the results accepted |
| `JobStoreWorkflow` | the refinement mapping from `JobStore` to `Workflow` |
| `Scheduler` | one scheduler process, with its slots, tasks, threads and shutdown, composed with `JobStore` (it EXTENDS it and takes each store action together with its caller's step) |
| `Guardian` | one launcher: barrier, record, release, command, descendants, termination, and the reconcilers that take over |
| `CodexWorker` | successive Codex attempts on one workspace, from preflight to handoff |
| `Worktrees` | the lifecycle of one managed worktree: rows, managers, reconcilers, Git and the disk |
| `Workspace` | the abstract worktree, as whoever works in it knows it: the item, the directory, and whether it may be used |
| `Admission` | one tester job under focused-test admission: plans, admissions, executions, release fence |
| `Handoffs` | the answer of a worker, judged by the scheduler and again by the store |
| `*Properties` | what each of these promises, and the fairness its liveness needs (those of `JobStore`'s workflow are in `JobStoreWorkflow`, the abstract `ExclusiveWork` in `Workflow`; `WorktreeProperties` maps `Worktrees` to `Workspace`) |
| `MC*` | instances for TLC; `MCScheduler` also checks a property of `JobStore` under the composed system |
| `*Proofs` | theorems about every component and both refinements, checked by TLAPS; `JobStore` has two such modules |

*Faulty variants.* Operators named `X_Something` above an operator `X` are plausible bugs
of `X` (a forgotten row, an off-by-one, a missing check). Nothing uses them; replacing
`X` by one of them breaks a property, which shows that the property watches that code.

### `JobStore`

*Actions.* One public operation of `SQLiteStore` is one action with all of its guards; an
operation that raises or returns nothing is a step that does not happen. `claim_job`
runs recovery first, in the same transaction, so `ClaimJob` computes the state after
recovery and claims from that. `RecoverExpiredLeases` either expires every recoverable
job or, when one of them is refused, does nothing (`RecoveryPossible`).

*Callers.* No caller is assumed well-behaved. An operation that takes a lease token takes
an attempt, current or not, and any attempt may present its token at any time. This
covers slow workers, restarted schedulers and duplicated calls.

*Names.* A job is its item and its place among the item's jobs, an attempt its job and
attempt number; the attempt stands for its token, owner and row id. `QueuedState` and
`ActiveState` are `ROLE_STATES`, `NextStates` is `STAGE_NEXT_STATES`.

*Time.* The store compares `lease_expires_at` with now and nothing else. `lapsed` holds
the running jobs whose lease has expired, `LeaseLapses` puts a job there at any moment,
and only recovery takes it out: time does not run backwards. `slotLapsed` and
`reconLapsed` do the same for standalone leases and reconciliation fences. A job's own
lease rows carry the job's expiry.

*Bindings.* `bound` sums up what else an open job needs: a ready worktree of the recorded
generation, an approval that covers it, a live admission, enabled resource definitions.
`ChangeBindings` changes it at any moment. A claim and a commit need it. Recording a
session or process and heartbeating need parts of it in the code and nothing of it
here, so the model allows more behaviours than the code, never fewer.

*Left out.* One provider stands for all. Processes migrated from the old schema
(`legacy_unverifiable`) behave as ones a reconciler quarantines. The order in which
`claim_job` tries its candidates is not kept: any eligible job may be claimed. `fail_job`
is used with its default `blocked_item_state`. The gate evaluation is any next state
`STAGE_NEXT_STATES` allows for the role. Approvals, artifacts, the event log and the
registration of resources appear only through `bound`, or not at all.

### `Workflow` and the refinement

`Workflow` knows nothing of jobs, leases and tokens: an item is queued for a role, taken
by an attempt that was never handed out before, and sent on by that attempt's result,
given up after its last failure, or returned to its queue. `JobStoreWorkflow` maps the
worker of an item to the current attempt of its running job, the issued attempts to those
below `attempt_count`, the accepted ones to the succeeded. Recovery inside a claim makes
one concrete step return many items and take one: hence the set `S` of `Take` and `Return`.

### `Scheduler`

A lane is a `_WorkerSlot` with the task of `_execute_claim`, its worker and its heartbeat;
`main` is the loop (`run_until_quiescent` around `run_once`) or `shutdown`; `thread` is
`recover_expired_leases` in a worker thread. `turn` names the coroutine between two of its
awaits: the event loop runs one at a time, while threads, other processes and time do
not wait. A store call of the scheduler is the `JobStore` action of that name conjoined
with the caller's step. Disturbances (crashes, shutdowns, operator requests, storage
errors, lost heartbeats, changed bindings) are bounded by `MaxDisturbances`.

Left out: the order of jobs within a role (`JobStore` claims any); storage errors other
than in a heartbeat, in handing a claim back and in giving it back at shutdown; a
cancellation that arrives while the loop's own recovery thread runs, which is covered by
the crash. A commit the store refuses for reasons other than the lease takes the path of
a failure.

`last_reconciliation_results` is one list for all recovery threads: each resets it, appends
to it and reads off its length how many processes it has inspected. `results` says whether
it has an entry; the test of the loop and the count returned are one step with what follows
them. A worker records processes and binds its session (`WorkerBinds`) as it goes, and any
call of its context that the store refuses ends it as lost, under a live lease too
(`scheduler.py:763`, `790`). A request whose session has changed since makes every poll
report none (`Deaf`).

`SchedulerAssumption` says of the lanes what the constructor makes true of the worker pool
(`scheduler.py:522-537`): each has a role and a number among the lanes of that role, no two
the same, and none is the loop.

### `Guardian`

The state is the process row, the launcher, the command, a descendant, and the two sides
of each pipe; `sup` is the supervisor's coroutine, `rec` the reconcilers. `stranger`
stands for another process that takes the recorded id once the whole group is gone; a
group with a member keeps its id, which the kernel guarantees. The check of an identity
and the signal that follows at once are one step: the model assumes no id is reused
between the two. Zombies count as gone. The moment between a launcher's start and the
installation of its SIGTERM handler is ignored. Malformed and legacy identities, which
are always quarantined, are left out. Both supervisors are covered: the Codex worker
retries a broken termination once, without the child's report, the Git runner does not,
and the model allows either.

### `CodexWorker`

`run[a]` is `CodexCliWorker.run` for attempt `a`; the store's side is the lease, the
session and the process row of each attempt. Preparing an invocation and judging the
workspace run in threads (`codex_worker.py:488`, `662`) that a cancellation does not stop:
`cancelled` marks an attempt that is over for the scheduler while its thread goes on, and
`Condemn` is a step of its own because the verdict and the transaction that records it
are apart. JSONL events are abstracted to what the reply still lacks (`Replies`): order
and duplicates make no other difference to `_validate_execution`. The tree has one of a few
contents; only commands change it, while its binding may be broken by anyone. Launcher and
termination are those of `Guardian` in one step each. The refusal of a second `run` on one
worker object is left out: a new claim needs the earlier record stopped. `verify_binding`
raises on a passing failure of Git or the OS as it does on a broken binding, and the worktree
is condemned for either; the model has one kind of broken binding for both.

A read-only command that changes its tree and then fails, times out or is cancelled does
not reach the postflight, and the next attempt takes the changed tree as its baseline
(`codex_worker.py:372`). The model has this behaviour; the code promises nothing about it.

### `Worktrees`

A worktree is created by one operation and removed by another. Each has a row with the
owner's lease and a reconciler's fence, driven by `manager` through intent, guardian,
record, release, reap, artifacts, inspection and completion. `disk` is the directory with
its registry entry, `git` the guarded command, `drift` what outsiders have changed and the
lifecycle compares. Git may fail and leave a part of the directory, or take back what it had
made. From the moment Git has made the files anybody may edit them, in every state of the
rows (`EditTree`): provisioning, quarantined, ready or being removed. The inspection before
a worktree is declared ready looks at the registration, the branch and the identity of the
directory, not at files, so that an edited tree is offered as an untouched one is; `Whole`
is the tree Git has completed, edited or not.

An edit is `hidden` when only the preflight of a cleanup looks for it:
ignored files and files exempt from `git status`. `git worktree remove`, run without
`--force`, refuses the others itself. So a hidden edit made after the preflight is removed
with the tree; `README.md:83-85` promises that cleanup refuses such changes, which the
preflight does, as far as it can see. Reconcilers claim expired operations or, with
`--retry-quarantined`, quarantined ones. A cleanup that fails its preflight leaves the
worktree quarantined for good, by design: no operation retries it.

*The abstract workspace.* `Workspace` knows nothing of rows, guardians, managers and fences:
a directory is made while its item waits, offered once it is whole, edited or not, and
taken away only after the item has ended. `StatusOf` maps the six states of the row to whether the worktree
may be used: provisioning, cleanup and quarantine are all `withheld`. So what a worker has
condemned, or a cleanup has claimed, is never offered again, and edits Git sees stay.

### `Admission`

One tester job, with the campaign's execution mode, plans, admissions, resource switches,
evidence executions, the tree, the runtime and the directories. The holder of the lease
may make the store's calls in any order, so every worker is covered. Hashes of rows that no
operation rewrites are not state. A tree that changes and changes back between two scans is
not noticed, by the code or the model. The revision of a plan recorded under schema v9, which
the code exempts from a comparison (`storage.py:7385-7392`), is left out. Heartbeats and operator interrupts are those of
`JobStore`, the validity of a collector plan's file is left out, and the campaign does not
accept simulated evidence. Browser and database executions end at an assertion that
always raises (see "Findings"), so what would follow it is not modelled.

### `Handoffs`

Every handoff of a bounded size may be an answer; `Judge` is the scheduler's validation
with `evaluate_test_handoff`, `Commit` the store's. Evidence is its kind and a file that
exists or not, or the mark of a simulation; the two simulation flags (the scheduler's run,
the campaign's) are separate. Texts are given or not given, the binding of a handoff to
its item is left out, and no managed worktree is quarantined. An item that requires all
three gates outside a simulation never gets green: the execution of its collectors can
never be prepared, so a pass is refused and the claim is lost.

## Properties and hazards

Every property is about a hazard of `PROJECT.json` and names the code it is about in the
comment above it. In short:

- *Queue.* `TablesAgree`: six operations each update item, job and attempt; none may
  forget one, and no item ever has two runners. `ResourcesFollowJob`: a running job holds
  exactly one slot of each required key, even lapsed; nothing else of a job is held.
  `RecoveryNeverBlocked`: `_expire_job_after_lease` raises on any mismatch, and every claim
  recovers first, so one mismatch would stop the whole queue. `ProcessKeepsJob`: expiry
  alone never hands an item to another worker while a process may live.
  `LapsedOnlyExpires`, `EndedAttemptFrozen`: fencing over time. `InterruptBeatsResult`,
  `ResumeStaysExact`, `SessionLineage`: operator requests and the sessions they move.
  `FailureBudget`, `ConcurrencyLimits`: counters at their limits. `ImplementsWorkflow`: all
  of it is the abstract queue.
- *Scheduler.* `CancelOnlyLost`, `NoClaimForgotten`, `HeartbeatPrecedes`,
  `ShutdownGivesBack` (safety of the interleavings around each await);
  `ClaimableIsClaimed`, `ClaimsEnd`, `RunsEnd`, `UnwantedWorkersStop` (liveness).
- *Processes.* `CommandOnRecord`, `StrangerSpared`, `ResultAfterReap`, `LauncherResolved`.
- *Codex worker.* `AcceptedOnProof`, `CondemnedWithCause`.
- *Worktrees.* `GitOnlyWhileRecorded`, `TreeFollowsOperation`, `CompletionWhole`;
  `ImplementsWorkspace`: the lifecycle is the abstract workspace; and under fairness
  `OperationResolved`, `ExactStateAdopted`.
- *Evidence.* `VerifiedOnEvidence`, `AuthorityBehindSteps`, `PreparedWhileRunning`;
  `GreenIsProved`, `SetbackNamesCause`, `EvidenceStandsAtCommit`, `TesterWordNeverCounts`.

`TypeOK` of `JobStore` is checked and proved. The type invariants of the other modules
document their variables and are not among the properties of the runs. Those of
`Scheduler`, `Guardian`, `CodexWorker`, `Worktrees` and `Admission` hold by proof; that of
`Handoffs` holds on its instance.

One hazard has no property: a change made by a read-only command that never reached its
postflight (see `CodexWorker` above) contradicts nothing the code promises.

## Runs

| Run | Question | Bounds and why they are enough |
|---|---|---|
| `stage_cycle` | do the tables, sessions and requests stay consistent over a whole cycle? | one item (the tables of two items share no row), two jobs so that a successor follows a finished job and may claim its session, three claims in a job so that a resumed attempt is resumed again and stale tokens exist, one session, one reconciler; `MaxAttempts = 1`, so that failure ends a job: a requeue by failure is in `scheduler_claims` |
| `contention` | do resources and limits hold under contention, and is every step one of the workflow? | two items, an exclusive key and a tenant of two slots, one standalone owner; role limit 1 under a global limit of 2: with two items the role limit alone refuses claims, and the global half of `ConcurrencyLimits` is shown by its proof; one claim per job, so that recovery inside a claim returns one item while it takes another; that a returned item is taken again is shown by `Implementation` |
| `interrupt_lost` | can a pending interrupt always be applied? | one job, one attempt; expected to be violated |
| `scheduler_claims` | does one scheduler keep its claims straight at every interleaving, is a worker stopped that has lost its claim or whom the operator has asked, and does every claim end within its budget? | two lanes of one role over one item, so that a job recovered in one lane is claimed again by the other; two claims of one job; two disturbances, so that a fault meets another; one session; `MaxAttempts = 2`; workers never end unless cancelled, the hard case, but for `ClaimsEnd`, which supposes that they do |
| `scheduler_stages` | does the work get done? | a fixer and a tester share one global slot, two jobs of one item with two claims; one disturbance; workers end by themselves; no session, which no claim and no end of a run depends on |
| `guardian` | does anything run unrecorded, get signalled wrongly, or stay for ever? | one launcher (launchers share no state), two reconcilers that race, one fault each way, one descendant, one stranger |
| `codex_attempts` | what is accepted, and why is a worktree condemned? | two attempts, so that a thread of the first meets the second; two sessions and two contents of the tree, so that one can be wrong |
| `worktree_lifecycle` | do rows and disk agree under crashes, stale fences and edits, and is every step one of the workspace? | one worktree (worktrees share no row), two reconcilers, two faults |
| `worktree_recovery` | does every operation end? | one reconciler that may lose its fence twice, under fairness; one worktree, so that the order in which a reconciler claims operations, 25 at a time, is not covered |
| `admission_authority` | can a stale authority act or verify? | two plans, two admissions, two attempts, two outside changes; both choices of gates |
| `release_refused` | is a release refused only without authority? | no outside changes; expected to be violated |
| `handoff_judgement` | can an unproved answer pass either judge? | every handoff of up to two proofs with one piece of evidence each, items that require one gate, two or three, two attempts |

Deadlock is not checked: the bounds stop the models, and a queue whose items are done, a
resolved launcher or a removed worktree really has nothing to do. Symmetry is used only
in runs without liveness, over sets whose members are only compared.

### Fairness

- `GuardianFairness` (`guardian`): launchers read their pipes, commands and descendants
  end, leases and fences run out, reconcilers come back, `--retry-quarantined` included.
  Nothing is assumed of the supervisor, which may hang with a pipe open.
- `ReconciliationFairness` (`worktree_recovery`): the same for worktree operations; nothing
  is assumed of the manager. A fence that a reconciler holds while it works does not
  lapse for ever, since the fence outlasts its steps.
- `SchedulerFairness` (`scheduler_claims`, `scheduler_stages`): asyncio runs every
  coroutine that can go on, a thread ends, a due heartbeat is sent, a cancelled worker
  ends (the Codex worker's termination is bounded by its grace times), leases nobody
  extends run out, and the scheduler is started again after it ends. A fence does not
  lapse while its thread inspects the process: the constructor demands a fence longer
  than both grace periods (`sqlite_scheduler.py:139-146`). Operators and other processes
  owe nothing. `WorkersEnd` says that workers end by themselves, as their own timeouts make
  them (`codex_worker.py:605`): `FairSpec` assumes it, in `scheduler_stages`, and
  `ClaimsEnd` supposes it; `StubbornSpec`, the specification of `scheduler_claims`, does not.

### Findings

*`interrupt_lost`: a request that can never be applied.* The store keeps the session an
attempt had when the operator asked and refuses the request once it differs
(`storage.py:6186-6194`); `record_external_session` binds a session whether a request is
pending or not. So a request made between the claim and the worker's first session event,
and not polled before it, is refused at every later poll, which `sqlite_scheduler.py:271`
reports as no request; commit, failure and release are refused because a request is
pending. The worker runs to its end, its result is lost and the job waits for its lease to
expire. `README.md:367-369` promises that the scheduler cancels the worker and that
storage applies the request.

The composed model has the scheduler's side of it: `Scheduler.WorkerOf` lets a worker bind
a session at any time, its heartbeats stay accepted, each poll answers that there is no
request, and a worker that would run for ever does. So `UnwantedWorkersStop` promises less
than the documentation: a worker is stopped once its claim is lost, and when asked unless
it has become deaf to the request.

*`release_refused`: a release that never happens.* `focused_test_guardian_release_fence`
(`storage.py:6813`) is a generator without the `@contextmanager` its browser counterpart
has; `worktrees.py:333` enters it with a `with` statement, which raises whatever the
admission. The guardian is aborted and no focused test is ever released, while its
docstring promises to deny a release only after a revocation.

Met while modelling, without a run of their own:

- A reconciler adopts an edited tree. `README.md:74-79` promises restart reconciliation
  "that adopts only exact completed Git state and otherwise quarantines", and adopts after
  a quarantine "only if Git state and hashed artifacts still match". `_reconcile_creation` (`worktrees.py:1687`) inspects the
  worktree with `inspect_ready` (`worktrees.py:857-916`), which compares the registration,
  the branch, the head, the lock and the directory, and no file: what anybody has written
  there between Git's end and the inspection is adopted with it, before a quarantine or
  during it. `Worktrees.EditTree` makes these edits, and `CompletionWhole` is what holds.
- The authorization of browser and database executions (`storage.py:3351`) is asserted
  through a helper whose six callers omit its plan argument: the call raises always.
- `evidence_pipeline.py:62` leaves an `asyncio.create_task(` unclosed: the module does not
  parse, and whatever imports it fails.
- A shutdown cannot give back a claim whose interrupt is pending (`storage.py:9322`): the
  claim stays until its lease expires (`scheduler.py:441`, `455`); `ShutdownGivesBack`
  states the exception.
- Shutdown reports jobs that had committed, but whose task the loop had not reaped yet, as
  stale.

## Proofs

All theorems hold for every value of the constants that the named assumptions allow: any
items, resources, limits, stages, sessions, lanes, reconcilers, plans, attempts and bounds.
Each component has an inductive invariant, a conjunction of named parts. TLC checked it on
the component's instances before it was proved; the invariants the runs check follow from
it, and the action properties from it and a case per kind of step.

Every invariant and every action property of a passing run is proved, and both refinements.

| Module | Assumes | Proves |
|---|---|---|
| `JobStoreProofs` | `LimitAssumption`, `BoundAssumption`, `MarkAssumption` | the queue's tables, and what hangs on an attempt |
| `JobStoreUseProofs` | the same | what running jobs use up; `Implementation` of `Workflow` |
| `SchedulerProofs` | these and `SchedulerAssumption` | the lanes, the loop and its shutdown |
| `GuardianProofs` | `GuardianAssumption` | the launcher and its record |
| `CodexWorkerProofs` | `WorkerAssumption` | answers and condemned worktrees |
| `WorktreeProofs` | `WorktreeAssumption` | rows and disk; `WorkspaceImplemented` |
| `AdmissionProofs` | `AdmissionAssumption` | authority and evidence |
| `HandoffProofs` | `HandoffAssumption` | the two judgements of an answer |

`JobStoreProofs`, first the tables:

- `TypeCorrect`: `Spec => []TypeOK`, by cases on the actions of `Next`.
- `StageCorrect`: `Spec => []StageInv`. `StageInv` is the inductive invariant over items,
  jobs and attempts. `TablesAgree` is not inductive: a claim needs to know that no attempt
  row exists beyond `attempt_count`, an enqueued job that it has no attempts yet, an
  absent item that it has no jobs, and recovery that every lapsed job runs. `StageInv` is
  `Agree`, these facts about the three tables as a predicate of six tables, plus the last
  one. Lemmas about `Agree` then cover the three ways the tables change, whoever changes
  them: `AddAgrees` (a new job), `ClaimAgrees` (a claim, from the tables after recovery),
  `EndAgrees` (a set of running jobs ends; with `OneEndAgrees` for a worker's own and
  `RecoveryAgrees` for expired ones). `StageNext` has one step per action.
- `TablesAgreeAlways` follows.

Then what hangs on an attempt:

- `ControlInvariant`: `Spec => []ControlInv`. Every step ends the attempts of some running
  jobs (`Ends`), claims a job after recovery has ended some (`Takes`), or changes only what
  hangs on the attempts (`HangsOn`); `Kinds` shows it of `Next`, and `EndsKeep`, `TakesKeep`
  and `HangsOnKeeps` that each kind keeps the invariant. `ProcessKeepsJob` rests on every
  end of an attempt asking for a resolved process; `ResumeStaysExact` and `SessionLineage`
  need that a resume names the attempt just before (`ResumedInTurn`), that an attempt not
  begun has no session (`SessionsBegun`), and that a pending interrupt aims at the attempt
  that runs (`InterruptCurrent`).
- `ProcessKeepsJobAlways`, `ResumeStaysExactAlways` and `SessionLineageAlways` follow; so do
  the action properties `EndedAttemptFrozenAlways`, `LapsedOnlyExpiresAlways` and
  `InterruptBeatsResultAlways`, by the kinds of steps.

`JobStoreUseProofs`, what the running jobs take up:

- `Implementation`: `Spec => ImplementsWorkflow`. Under `TypeOK` and `StageInv` every
  action maps to a step of `Workflow` or a stutter, by the kind of change it makes to the
  tables: a set of running jobs ends and their items return, one ends with its result,
  one ends for good, one is claimed after others have returned, a job or an item is added.
- `WorkExclusiveAlways`: `ExclusiveWork` of the abstract queue, for the attempts recorded.
- `UseInvariant`: `Spec => []UseInv`, the leases, the limits and the failure budget.
  `ResourcesFollowJob` is not inductive as it stands: `Held` adds that a holder's job
  requires what it holds, of every slot at once, as a predicate of tables, so that
  `RecoveryHeld` can state it of what recovery leaves in the middle of a claim. Every step
  but a claim only gives back (`Gives`, `HeldAfterEnds`); a claim takes the lowest free slot
  of each required resource, which exists (`LowestExists`) and is one (`LowestUnique`).
- `ResourcesFollowJobAlways`, `ConcurrencyLimitsAlways` and `FailureBudgetAlways` follow.
  `RecoveryNeverBlockedAlways` follows from `UseInv` and `StageInv`: a lapsed job still has
  its exact leases, its item in the stage's work state and its attempt running.

`SchedulerProofs`:

- `SchedulerRunsQueue`: `SchedulerSpec => Spec`. Every step of the scheduler is one of the
  queue or leaves the queue alone, so every theorem above holds under a scheduler.
- `SchedulerInvariant`: `SchedulerSpec => []SchedulerInv`, which is the queue's invariants
  with those of the lanes, the loop and the threads. `NoClaimForgotten` and `CancelOnlyLost`
  relate the lanes to the tables, and need to know that a claim no longer live never is
  again, whoever moves the queue (`UnclaimedCarries`), and that only a claim makes a new one
  (`ClaimCarries`, with `MineMade`); that a job a recovery thread returned is not claimed
  before the loop hears of it (`ThreadsStand`), since recovery names jobs and not tokens;
  and what each lane may have left at each step (`LanesStand`, `LanesJudged`,
  `DoneSettled`). For `ShutdownGivesBack` the invariant carries which claims are still to be
  given back (`ToGiveBack`), and `RefusalStays` says that what the store refuses to release
  it goes on refusing. Steps come in three kinds: of one lane (`LaneMoves`), beside the
  lanes (`Beside`), and of the loop (`LoopMoves`). `NextLaneStands`, that a round of claims
  finds a lane it has not tried while there is one, needs the places in the pool to be
  unique.
- `CancelOnlyLostAlways`, `NoClaimForgottenAlways`, `ShutdownGivesBackAlways` and
  `HeartbeatPrecedesAlways` follow.

`GuardianProofs`:

- `GuardianInvariant`: `Spec => []GuardianInv`. `CommandOnRecord` is not inductive: it
  needs to know that a launcher starts nothing before its barrier is written (`Unreleased`),
  that nothing is released without a record (`Launched`, `Released`), and that whoever
  closes the record is right about the group (`GoneIsGone`), supervisor and reconcilers
  alike. `ResultAfterReap` needs that no reconciler begins before the lease has run out
  (`Reconciled`), so that none acts on a record closed under it. Lemmas `EndingFrame` and
  `ReconcilingFrame` say what a termination and a reconciliation may do at all; the steps
  are shown to do no more.
- `CommandOnRecordAlways`, `StrangerSparedAlways` and `ResultAfterReapAlways` follow.

`CodexWorkerProofs`:

- `WorkerInvariant`: `Spec => []WorkerInv`. The tree must stand still from the moment a
  thread judges it to the transaction that acts on the verdict. That holds because a live
  group is on record and only the current attempt's record is active (`OnRecord`), and the
  current attempt has no live group while a thread judges its workspace or its answer waits
  (`Sound`); `Unborn` says that a later attempt has done nothing yet, `WantedOfLast` that a
  session asked for is that of the attempt before, which was not accepted, and
  `AcceptedSession` that no later attempt shares the session of an accepted one.
- `CondemnedWithCauseAlways` and `AcceptedOnProofAlways` follow, the first with a case per
  step that can condemn.

`WorktreeProofs`:

- The invariant `IInv` has one lemma per action. A guardian leaves three traces of unequal
  age, the manager's step, the process column and the output files; `ManagerTrail` and
  `GuardianOnRecord` order them, so that the column alone tells what may still run.
  `ReconcilerTrail` says that a claim needs a lapsed lease or a recorded process, which
  shuts the manager out: no guardian is recorded after it. `DiskAsObserved` carries an
  observation over to the completion, though the transaction does not look again.
- `WorktreeTypes`, `GitIsAlwaysRecorded`, `TreeAlwaysFollowsOperation`,
  `WorkspaceAlwaysStays` (an open item's directory is whole) and `CompletionAlwaysWhole`
  follow, the last from `OnlyCompletionCompletes` and `CompletionSees`.
- `WorkspaceImplemented`: `Spec => ImplementsWorkspace`. `WorkspaceStill` leaves thirteen
  kinds of step that may show; a quarantine and a retry do not, since a running operation's
  worktree is already withheld (`QuarantineUnseen`), and Git works only for an item that
  waits or has ended (`RunningMeans`).

`AdmissionProofs`:

- The invariant `AdmissionInv`: what a running, a lapsed and a finished job mean for its
  attempts (`JobStands`, `AttemptsToCome`), that every revision keeps the first plan's test
  file and runtime (`PlansAgree`), and that admissions, attempts and executions name plans
  and admissions that exist (`AdmissionsPlanned`, `AttemptsAdmitted`,
  `ExecutionsAdmitted`). Lemmas ending in `Means` say what each call does to the data.
- `AdmissionTypes` and `PreparedOnlyWhileRunning` follow; `StepsHaveAuthority` from
  `OnlyTheAdmitted`, by the steps that may record a process, further an execution or
  complete the job; `AlwaysVerifiedOnEvidence` from `VerifyingCommit`.

`HandoffProofs`:

- The invariant `HandoffInv` is `GreenIsProved` and `SetbackNamesCause` with the handoffs in
  hand (`InHand`), the item's place in its stage (`ItemFollowsJob`) and what a tester's
  record may still be (`TesterRecorded`). `NextStateMeans` is the core: whatever either
  judge lets the store write as the next state has its ground in the handoff itself, by the
  cases of `evaluate_test_handoff` (`EvaluateMeans`, `PassProves`, `FailureCounts`).
- `GreenIsAlwaysProved` and `SetbackAlwaysNamesCause` follow; `EvidenceAlwaysStands` and
  `TesterWordNeverDecides` from `CommitMeans`.

Only model-checked: the liveness properties (`LauncherResolved`, `OperationResolved`,
`ExactStateAdopted`, `UnwantedWorkersStop`, `ClaimableIsClaimed`, `ClaimsEnd`, `RunsEnd`),
since liveness under fairness and ENABLED are outside the prover's reach. The type
invariant of `Handoffs` is not proved: it bounds the evidence of the collectors' own
handoff by the size the answers of the instance have.

## Plan

What remains:

1. An abstract specification of admitted execution, which `Admission` implements: who may
   run a test, on which plan, and what its result may decide.
2. The worker's side composed with the scheduler's: `CodexWorker` as the worker of a lane.

## Not modelled

- Collectors, sandbox profile, browser runtime: sequential I/O without shared state. What
  the store asks of their results is in `Admission` and `Handoffs`.
- Browser and database executions behind the assertion that always raises.
- CLI parsing, status reports, the live proof script: they call operations modelled here.
- Prompts, command lines, schemas, paths, snapshots and hashes as data; migrations of the
  database; creation of campaigns; the event log.
