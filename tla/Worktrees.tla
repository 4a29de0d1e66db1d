----------------------------- MODULE Worktrees -----------------------------
(***************************************************************************)
(* The managed worktree of one work item: the lifecycle rows of storage.py *)
(* and the code of worktrees.py that drives Git behind them.               *)
(*                                                                         *)
(* A worktree is created by one operation and removed by another.  Each is *)
(* a row with a lease of its own, driven by a manager that records its     *)
(* intent, starts a blocked guardian, records the guardian, releases it    *)
(* into Git, reaps it, hashes its output, inspects the result and completes*)
(* the row.  The manager may crash or outlive its lease between any two of *)
(* these steps; reconcilers then claim the row under a second fence, reap  *)
(* the guardian and adopt what Git left on the disk only if it is exact.   *)
(*                                                                         *)
(* The commands are abstracted to what the lifecycle asks of them.  "disk" *)
(* is the worktree's directory together with its registry entry: absent,   *)
(* half made or half removed, exact (locked, at the base revision), edited *)
(* where Git looks, or hidden: edited only where git status does not look  *)
(* (ignored, assume-unchanged or skip-worktree files).  Anybody may edit a  *)
(* whole directory, whatever its row says of it.  "drift" holds what       *)
(* outsiders have changed and the lifecycle compares: the source           *)
(* checkout's snapshot and the head of the branch.                         *)
(***************************************************************************)
EXTENDS Naturals, FiniteSets

CONSTANTS Reconciler,  \* processes that reconcile worktree operations
          Nobody,      \* marks an operation nobody reconciles
          MaxFaults    \* bound: crashes, lost fences and failed inspections of reconcilers

ASSUME WorktreeAssumption ==
    /\ Nobody \notin Reconciler
    /\ MaxFaults \in Nat

Kind == {"create", "remove"}
TreeStates == {"none", "provisioning", "ready", "cleanup_pending", "quarantined", "removed"}
OpStates == {"none", "running", "succeeded", "quarantined"}
ProcessStates == {"none", "active", "stopped"}
Artifacts == {"none", "intent", "hashed"}
ItemStates == {"waiting", "attached", "working", "ended"}
DiskStates == {"absent", "partial", "exact", "hidden", "edited"}
Whole == {"exact", "hidden", "edited"}
GitStates == {"none", "blocked", "running", "exited", "gone"}
ManagerSteps == {"idle", "requested", "intended", "spawned", "recorded", "released",
                 "collected", "cleared", "hashed", "observed", "failed", "done"}
ReconcilerSteps == {"idle", "claimed", "unresolved", "reaped", "cleared", "open",
                    "recovered", "observed", "failed"}
Drift == {"source", "branch"}
Idle == [at |-> "idle", op |-> "create", mode |-> "expired"]

\* resume_quarantined_worktree_operation: the state a kind of operation works in.
WorkingState(k) == IF k = "create" THEN "provisioning" ELSE "cleanup_pending"

VARIABLES item,         \* the item and its fixer: no worktree yet, attached, at work, over
          tree,         \* managed_worktrees.state
          op,           \* worktree_operations.status of each kind
          opLapsed,     \* operations whose owner's lease has expired
          proc,         \* worktree_operations.process_state
          artifacts,    \* stdout and stderr columns of the operation
          fence,        \* worktree_operations.reconciliation_owner
          fenceLapsed,  \* operations whose reconciliation fence has expired
          disk,         \* the worktree's directory and registry entry
          drift,        \* what outsiders have changed
          git,          \* guardian of each operation, with the Git child it runs
          exitOk,       \* operations whose Git child exited with 0
          logs,         \* operations whose captured output files exist
          mgr,          \* step of the manager that owns each operation
          rec,          \* step of each reconciler
          faults        \* faults of reconcilers so far

rowVars == <<tree, op, proc, artifacts>>
fenceVars == <<fence, fenceLapsed>>
worldVars == <<disk, drift, git, exitOk, logs>>
vars == <<item, rowVars, opLapsed, fenceVars, worldVars, mgr, rec, faults>>

TypeOK ==
    /\ item \in ItemStates
    /\ tree \in TreeStates
    /\ op \in [Kind -> OpStates]
    /\ opLapsed \subseteq Kind
    /\ proc \in [Kind -> ProcessStates]
    /\ artifacts \in [Kind -> Artifacts]
    /\ fence \in [Kind -> Reconciler \cup {Nobody}]
    /\ fenceLapsed \subseteq Kind
    /\ disk \in DiskStates
    /\ drift \subseteq Drift
    /\ git \in [Kind -> GitStates]
    /\ exitOk \subseteq Kind
    /\ logs \subseteq Kind
    /\ mgr \in [Kind -> ManagerSteps]
    /\ rec \in [Reconciler -> [at : ReconcilerSteps, op : Kind, mode : {"expired", "retry"}]]
    /\ faults \in 0..MaxFaults

Init ==
    /\ item = "waiting"
    /\ tree = "none"
    /\ op = [k \in Kind |-> "none"]
    /\ opLapsed = {}
    /\ proc = [k \in Kind |-> "none"]
    /\ artifacts = [k \in Kind |-> "none"]
    /\ fence = [k \in Kind |-> Nobody]
    /\ fenceLapsed = {}
    /\ disk = "absent"
    /\ drift = {}
    /\ git = [k \in Kind |-> "none"]
    /\ exitOk = {}
    /\ logs = {}
    /\ mgr = [k \in Kind |-> "idle"]
    /\ rec = [w \in Reconciler |-> Idle]
    /\ faults = 0

-----------------------------------------------------------------------------
(* What the transactions and the inspector read. *)

\* _assert_worktree_operation_fence with the owner's token.
OwnerFence(k) == op[k] = "running" /\ k \notin opLapsed

\* _assert_worktree_operation_fence with a reconciliation token.
ReconcilerFence(w, k) == fence[k] = w /\ k \notin fenceLapsed

\* A dead reconciler keeps its fence (a faulty variant).
FenceFree_Released(k) == fence[k] = Nobody

\* The operation's reconciliation fence is there to be taken.
FenceFree(k) == fence[k] = Nobody \/ k \in fenceLapsed

\* What both completions ask of the rows: the operation runs, its guardian is
\* recorded and reaped, its output is hashed; a creation also needs the pending
\* fixer it was made for.
ReadyToComplete(k) ==
    /\ k = "create" => item = "waiting"
    /\ op[k] = "running"
    /\ proc[k] = "stopped"
    /\ artifacts[k] = "hashed"
    /\ tree = WorkingState(k)

\* inspect_ready and inspect_source_identity: directory, registry, lock, branch
\* and head as persisted.  Edited content is not looked at.
InspectReady == disk \in Whole /\ "branch" \notin drift

\* is_clean_for_removal: content, index and untracked files are those of HEAD, and
\* nothing is ignored or exempt from git status.
CleanForRemoval == disk = "exact"

\* The state left half made is taken for the finished one (a faulty variant).
GitStateExact_Partial(k) ==
    IF k = "create" THEN disk # "absent" ELSE disk # "exact"

\* What the inspection after a command of kind k has to find.
GitStateExact(k) ==
    /\ drift = {}
    /\ IF k = "create" THEN InspectReady ELSE disk = "absent"

-----------------------------------------------------------------------------
(* What the transactions write. *)

\* complete_managed_worktree_creation and complete_managed_worktree_removal.
Completed(k) ==
    /\ op' = [op EXCEPT ![k] = "succeeded"]
    /\ tree' = IF k = "create" THEN "ready" ELSE "removed"
    /\ item' = IF k = "create" THEN "attached" ELSE item
    /\ fence' = [fence EXCEPT ![k] = Nobody]
    /\ fenceLapsed' = fenceLapsed \ {k}

\* The worktree row left in its working state (a faulty variant).
Quarantined_OperationOnly(k) ==
    /\ op' = [op EXCEPT ![k] = "quarantined"]
    /\ fence' = [fence EXCEPT ![k] = Nobody]
    /\ fenceLapsed' = fenceLapsed \ {k}
    /\ UNCHANGED tree

\* quarantine_worktree_operation, once its checks have passed.
Quarantined(k) ==
    /\ op' = [op EXCEPT ![k] = "quarantined"]
    /\ tree' = IF tree = "removed" THEN tree ELSE "quarantined"
    /\ fence' = [fence EXCEPT ![k] = Nobody]
    /\ fenceLapsed' = fenceLapsed \ {k}

\* UPDATE worktree_operations SET process_state = 'stopped'
ProcessStopped(k) == proc' = [proc EXCEPT ![k] = "stopped"]

MgrTo(k, step) == mgr' = [mgr EXCEPT ![k] = step]
RecTo(w, step) == rec' = [rec EXCEPT ![w].at = step]

-----------------------------------------------------------------------------
(* The manager: provision and cleanup. *)

\* request_managed_worktree: an approved ready_for_fix item whose pending fixer
\* awaits its first worktree.
MayRequest == item = "waiting" /\ tree = "none"

RequestWorktree ==
    /\ MayRequest
    /\ tree' = "provisioning"
    /\ op' = [op EXCEPT !["create"] = "running"]
    /\ MgrTo("create", "requested")
    /\ UNCHANGED <<item, proc, artifacts, opLapsed, fenceVars, worldVars, rec, faults>>

\* request_managed_worktree_cleanup: the item is terminal, no job is open, no
\* resource lease and no worker process is left.
MayCleanUp == tree = "ready" /\ item = "ended"

RequestCleanup ==
    /\ MayCleanUp
    /\ op["remove"] = "none"
    /\ tree' = "cleanup_pending"
    /\ op' = [op EXCEPT !["remove"] = "running"]
    /\ MgrTo("remove", "requested")
    /\ UNCHANGED <<item, proc, artifacts, opLapsed, fenceVars, worldVars, rec, faults>>

\* Before removing anything cleanup inspects the worktree and the source, then
\* either kind of operation records where its output will go.
Preflight(k) == k = "remove" => InspectReady /\ CleanForRemoval /\ drift = {}

RecordIntent(k) ==
    /\ mgr[k] = "requested"
    /\ IF Preflight(k) /\ OwnerFence(k)
       THEN artifacts' = [artifacts EXCEPT ![k] = "intent"] /\ MgrTo(k, "intended")
       ELSE UNCHANGED artifacts /\ MgrTo(k, "failed")
    /\ UNCHANGED <<item, tree, op, proc, opLapsed, fenceVars, worldVars, rec, faults>>

\* Popen of the guardian: it blocks on the barrier before it runs anything.
SpawnGuardian(k) ==
    /\ mgr[k] = "intended"
    /\ git' = [git EXCEPT ![k] = "blocked"]
    /\ MgrTo(k, "spawned")
    /\ UNCHANGED <<item, rowVars, opLapsed, fenceVars, disk, drift, exitOk, logs, rec, faults>>

\* A stable guardian is recorded under the owner's fence; one that cannot be
\* proven stable or recorded finds the barrier closed and exits.
RecordGuardian(k) ==
    /\ mgr[k] = "spawned"
    /\ \/ /\ git[k] = "blocked"
          /\ OwnerFence(k)
          /\ proc[k] = "none"
          /\ proc' = [proc EXCEPT ![k] = "active"]
          /\ MgrTo(k, "recorded")
          /\ UNCHANGED git
       \/ /\ git' = [git EXCEPT ![k] = "gone"]
          /\ MgrTo(k, "failed")
          /\ UNCHANGED proc
    /\ UNCHANGED <<item, tree, op, artifacts, opLapsed, fenceVars, disk, drift, exitOk,
                   logs, rec, faults>>

\* The output captures start and the barrier is written; a guardian that a
\* reconciler has killed meanwhile cannot be released.
ReleaseGuardian(k) ==
    /\ mgr[k] = "recorded"
    /\ logs' = logs \cup {k}
    /\ git' = [git EXCEPT ![k] = IF @ = "blocked" THEN "running" ELSE @]
    /\ MgrTo(k, "released")
    /\ UNCHANGED <<item, rowVars, opLapsed, fenceVars, disk, drift, exitOk, rec, faults>>

\* The manager collects a guardian whose child has reported its status, or
\* terminates one that ran out of time; it gives up on a group it cannot
\* identify, which then exits once its child has.
CollectGuardian(k) ==
    /\ mgr[k] = "released"
    /\ \/ git' = [git EXCEPT ![k] = "gone"] /\ MgrTo(k, "collected")
       \/ /\ git' = [git EXCEPT ![k] = IF @ = "exited" THEN "gone" ELSE @]
          /\ MgrTo(k, "failed")
    /\ UNCHANGED <<item, rowVars, opLapsed, fenceVars, disk, drift, exitOk, logs, rec, faults>>

\* clear_worktree_operation_process under the owner's fence.
ClearProcess(k) ==
    /\ mgr[k] = "collected"
    /\ IF OwnerFence(k) /\ proc[k] = "active"
       THEN ProcessStopped(k) /\ MgrTo(k, "cleared")
       ELSE UNCHANGED proc /\ MgrTo(k, "failed")
    /\ UNCHANGED <<item, tree, op, artifacts, opLapsed, fenceVars, worldVars, rec, faults>>

\* The output is hashed and recorded whether the command succeeded or not.  One
\* that ran out of time or wrote too much counts as failed in any case.
RecordArtifacts(k) ==
    /\ mgr[k] = "cleared"
    /\ IF OwnerFence(k)
       THEN /\ artifacts' = [artifacts EXCEPT ![k] = "hashed"]
            /\ \/ k \in exitOk /\ MgrTo(k, "hashed")
               \/ MgrTo(k, "failed")
       ELSE UNCHANGED artifacts /\ MgrTo(k, "failed")
    /\ UNCHANGED <<item, tree, op, proc, opLapsed, fenceVars, worldVars, rec, faults>>

Observe(k) ==
    /\ mgr[k] = "hashed"
    /\ MgrTo(k, IF GitStateExact(k) THEN "observed" ELSE "failed")
    /\ UNCHANGED <<item, rowVars, opLapsed, fenceVars, worldVars, rec, faults>>

Complete(k) ==
    /\ mgr[k] = "observed"
    /\ IF OwnerFence(k) /\ ReadyToComplete(k)
       THEN Completed(k) /\ MgrTo(k, "done")
       ELSE MgrTo(k, "failed") /\ UNCHANGED <<item, tree, op, fenceVars>>
    /\ UNCHANGED <<proc, artifacts, opLapsed, worldVars, rec, faults>>

\* _quarantine_if_fenced: silent if the guardian is unresolved or the fence lost.
QuarantineIfFenced(k) ==
    /\ mgr[k] = "failed"
    /\ IF OwnerFence(k) /\ proc[k] # "active"
       THEN Quarantined(k)
       ELSE UNCHANGED <<tree, op, fenceVars>>
    /\ MgrTo(k, "done")
    /\ UNCHANGED <<item, proc, artifacts, opLapsed, worldVars, rec, faults>>

\* The supervisor dies.  The barrier closes, so a blocked guardian exits without
\* running its command; a released one finishes it and then exits.
ManagerCrashes(k) ==
    /\ mgr[k] \notin {"idle", "done"}
    /\ MgrTo(k, "done")
    /\ git' = [git EXCEPT ![k] = IF @ \in {"blocked", "exited"} THEN "gone" ELSE @]
    /\ UNCHANGED <<item, rowVars, opLapsed, fenceVars, disk, drift, exitOk, logs, rec, faults>>

\* The manager stalls past the expiry of its lease.
LeaseLapses(k) ==
    /\ op[k] = "running"
    /\ opLapsed' = opLapsed \cup {k}
    /\ UNCHANGED <<item, rowVars, fenceVars, worldVars, mgr, rec, faults>>

-----------------------------------------------------------------------------
(* Git, the fixer and outsiders. *)

\* A worktree is removed with --force (a faulty variant).
GitBegins_Forced(k) ==
    /\ git[k] = "running"
    /\ k \notin exitOk
    /\ disk \in (IF k = "create" THEN {"absent"} ELSE Whole)
    /\ disk' = "partial"
    /\ UNCHANGED <<item, rowVars, opLapsed, fenceVars, drift, git, exitOk, logs, mgr, rec, faults>>

\* The released child works on the disk: worktree add, or unlock and remove, which Git
\* refuses of a tree it sees edited; it looks for less than the preflight.
GitBegins(k) ==
    /\ git[k] = "running"
    /\ k \notin exitOk
    /\ disk \in (IF k = "create" THEN {"absent"} ELSE {"exact", "hidden"})
    /\ disk' = "partial"
    /\ UNCHANGED <<item, rowVars, opLapsed, fenceVars, drift, git, exitOk, logs, mgr, rec, faults>>

\* The child ends: done, or failed, where worktree add may take back what it has made.
\* Its guardian reports the status and waits to be released, unless its supervisor is no
\* longer there to do so.
GitEnds(k) ==
    /\ git[k] = "running"
    /\ \/ /\ disk = "partial"
          /\ disk' = IF k = "create" THEN "exact" ELSE "absent"
          /\ exitOk' = exitOk \cup {k}
       \/ k = "create" /\ disk = "partial" /\ disk' = "absent" /\ UNCHANGED exitOk
       \/ UNCHANGED <<disk, exitOk>>
    /\ git' = [git EXCEPT ![k] = IF mgr[k] = "released" THEN "exited" ELSE "gone"]
    /\ UNCHANGED <<item, rowVars, opLapsed, fenceVars, drift, logs, mgr, rec, faults>>

\* A claim of the item's job binds only a ready worktree.
WorkBegins ==
    /\ item = "attached"
    /\ tree = "ready"
    /\ item' = "working"
    /\ UNCHANGED <<rowVars, opLapsed, fenceVars, worldVars, mgr, rec, faults>>

\* The attempt ends; another stage follows, or the item is over.
WorkEnds ==
    /\ item = "working"
    /\ item' \in {"attached", "ended"}
    /\ UNCHANGED <<rowVars, opLapsed, fenceVars, worldVars, mgr, rec, faults>>

\* quarantine_claimed_managed_worktree: the worker's verify_binding has found the
\* worktree or its source changed.
WorkerQuarantines ==
    /\ item = "working"
    /\ tree = "ready"
    /\ ~InspectReady \/ drift # {}
    /\ tree' = "quarantined"
    /\ UNCHANGED <<item, op, proc, artifacts, opLapsed, fenceVars, worldVars, mgr, rec, faults>>

\* The worker edits the worktree; so may anybody else as soon as Git has made it: before
\* its creation is completed or adopted, in quarantine, or before it is removed.
EditTree ==
    /\ \/ disk = "exact" /\ disk' \in {"hidden", "edited"}
       \/ disk = "hidden" /\ disk' = "edited"
    /\ UNCHANGED <<item, rowVars, opLapsed, fenceVars, drift, git, exitOk, logs, mgr, rec, faults>>

OutsiderChanges(d) ==
    /\ tree # "none"
    /\ d \notin drift
    /\ d = "branch" => disk # "absent"
    /\ drift' = drift \cup {d}
    /\ UNCHANGED <<item, rowVars, opLapsed, fenceVars, disk, git, exitOk, logs, mgr, rec, faults>>

-----------------------------------------------------------------------------
(* The reconciler: reconcile_expired and retry_quarantined_processes. *)

Claimed(w, k, mode) ==
    /\ rec[w].at = "idle"
    /\ FenceFree(k)
    /\ fence' = [fence EXCEPT ![k] = w]
    /\ fenceLapsed' = fenceLapsed \ {k}
    /\ rec' = [rec EXCEPT ![w] = [at |-> "claimed", op |-> k, mode |-> mode]]
    /\ UNCHANGED <<item, rowVars, opLapsed, worldVars, mgr, faults>>

\* claim_expired_worktree_operations
ClaimExpired(w, k) ==
    /\ op[k] = "running"
    /\ k \in opLapsed
    /\ Claimed(w, k, "expired")

\* An operation whose guardian is already stopped is passed over (a faulty variant).
ClaimQuarantined_ActiveOnly(w, k) ==
    /\ op[k] = "quarantined"
    /\ proc[k] = "active"
    /\ Claimed(w, k, "retry")

\* claim_quarantined_worktree_processes: without a recorded guardian there is
\* nothing to prove, and the operation stays quarantined for good.
ClaimQuarantined(w, k) ==
    /\ op[k] = "quarantined"
    /\ proc[k] \in {"active", "stopped"}
    /\ Claimed(w, k, "retry")

\* A reap that cannot be proven counts as done (a faulty variant).
Reap_Unproven(w, k) ==
    /\ rec[w].at = "claimed" /\ rec[w].op = k
    /\ RecTo(w, "reaped")
    /\ UNCHANGED <<item, rowVars, opLapsed, fenceVars, worldVars, mgr, faults>>

\* A recorded guardian is inspected, terminated and waited for, and the fence is
\* not consulted; the inspection may also stay inconclusive.
Reap(w, k) ==
    /\ rec[w].at = "claimed" /\ rec[w].op = k
    /\ \/ /\ git' = [git EXCEPT ![k] = IF proc[k] = "active" THEN "gone" ELSE @]
          /\ RecTo(w, "reaped")
          /\ UNCHANGED faults
       \/ /\ proc[k] = "active"
          /\ faults < MaxFaults
          /\ faults' = faults + 1
          /\ RecTo(w, "unresolved")
          /\ UNCHANGED git
    /\ UNCHANGED <<item, rowVars, opLapsed, fenceVars, disk, drift, exitOk, logs, mgr>>

\* clear_worktree_operation_process under the reconciliation fence.
ClearReaped(w, k) ==
    /\ rec[w].at = "reaped" /\ rec[w].op = k
    /\ CASE proc[k] # "active" -> RecTo(w, "cleared") /\ UNCHANGED proc
         [] proc[k] = "active" /\ ReconcilerFence(w, k) -> ProcessStopped(k) /\ RecTo(w, "cleared")
         [] OTHER -> RecTo(w, "failed") /\ UNCHANGED proc
    /\ UNCHANGED <<item, tree, op, artifacts, opLapsed, fenceVars, worldVars, mgr, faults>>

\* resume_quarantined_worktree_operation, where the operation was quarantined.
Reopen(w, k) ==
    /\ rec[w].at = "cleared" /\ rec[w].op = k
    /\ CASE rec[w].mode = "expired" -> RecTo(w, "open") /\ UNCHANGED <<tree, op>>
         [] /\ rec[w].mode = "retry" /\ ReconcilerFence(w, k)
            /\ op[k] = "quarantined" /\ proc[k] = "stopped" /\ tree = "quarantined" ->
              /\ tree' = WorkingState(k)
              /\ op' = [op EXCEPT ![k] = "running"]
              /\ RecTo(w, "open")
         [] OTHER -> RecTo(w, "failed") /\ UNCHANGED <<tree, op>>
    /\ UNCHANGED <<item, proc, artifacts, opLapsed, fenceVars, worldVars, mgr, faults>>

\* _recover_operation_artifacts: a guardian was recorded and its output files are
\* where the intent says.
RecoverArtifacts(w, k) ==
    /\ rec[w].at = "open" /\ rec[w].op = k
    /\ IF proc[k] # "none" /\ artifacts[k] # "none" /\ k \in logs /\ ReconcilerFence(w, k)
       THEN artifacts' = [artifacts EXCEPT ![k] = "hashed"] /\ RecTo(w, "recovered")
       ELSE UNCHANGED artifacts /\ RecTo(w, "failed")
    /\ UNCHANGED <<item, tree, op, proc, opLapsed, fenceVars, worldVars, mgr, faults>>

\* The inspections of _reconcile_creation and _reconcile_removal.
ReconcilerObserves(w, k) ==
    /\ rec[w].at = "recovered" /\ rec[w].op = k
    /\ RecTo(w, IF GitStateExact(k) THEN "observed" ELSE "failed")
    /\ UNCHANGED <<item, rowVars, opLapsed, fenceVars, worldVars, mgr, faults>>

\* Their completions, under the reconciliation fence.
ReconcilerCompletes(w, k) ==
    /\ rec[w].at = "observed" /\ rec[w].op = k
    /\ IF ReconcilerFence(w, k) /\ ReadyToComplete(k)
       THEN Completed(k) /\ RecTo(w, "idle")
       ELSE RecTo(w, "failed") /\ UNCHANGED <<item, tree, op, fenceVars>>
    /\ UNCHANGED <<proc, artifacts, opLapsed, worldVars, mgr, faults>>

\* finish_quarantined_worktree_process_retry: only the fence is given back.
RetryEnds(k) ==
    /\ op[k] = "quarantined"
    /\ fence' = [fence EXCEPT ![k] = Nobody]
    /\ UNCHANGED <<tree, op, fenceLapsed>>

\* What an unresolved guardian or a failed recovery leaves: an operation claimed
\* expired, or reopened, is quarantined; one that is quarantined gives its fence
\* back.  Where the store refuses, the operation stays as it is.
GiveUp(w, k) ==
    /\ rec[w].at \in {"unresolved", "failed"} /\ rec[w].op = k
    /\ \/ /\ ReconcilerFence(w, k)
          /\ rec[w].mode = "expired" \/ op[k] = "running"
          /\ rec[w].at = "unresolved" \/ proc[k] # "active"
          /\ Quarantined(k)
       \/ /\ ReconcilerFence(w, k)
          /\ rec[w].mode = "retry"
          /\ RetryEnds(k)
       \/ /\ \/ ~ReconcilerFence(w, k)
             \/ op[k] # "quarantined" /\ rec[w].at = "failed" /\ proc[k] = "active"
          /\ UNCHANGED <<tree, op, fenceVars>>
    /\ RecTo(w, "idle")
    /\ UNCHANGED <<item, proc, artifacts, opLapsed, worldVars, mgr, faults>>

ReconcilerCrashes(w) ==
    /\ rec[w].at # "idle"
    /\ faults < MaxFaults
    /\ faults' = faults + 1
    /\ rec' = [rec EXCEPT ![w] = Idle]
    /\ UNCHANGED <<item, rowVars, opLapsed, fenceVars, worldVars, mgr>>

\* The reconciler that took the fence is still at work.
Held(k) == \E w \in Reconciler : fence[k] = w /\ rec[w].at # "idle" /\ rec[w].op = k

\* A reconciler stalls past the expiry of its fence, or has died holding it.
FenceLapses(k) ==
    /\ fence[k] # Nobody
    /\ k \notin fenceLapsed
    /\ IF Held(k)
       THEN faults < MaxFaults /\ faults' = faults + 1
       ELSE UNCHANGED faults
    /\ fenceLapsed' = fenceLapsed \cup {k}
    /\ UNCHANGED <<item, rowVars, opLapsed, fence, worldVars, mgr, rec>>

-----------------------------------------------------------------------------
ManagerStep(k) ==
    \/ RecordIntent(k) \/ SpawnGuardian(k) \/ RecordGuardian(k) \/ ReleaseGuardian(k)
    \/ CollectGuardian(k) \/ ClearProcess(k) \/ RecordArtifacts(k) \/ Observe(k)
    \/ Complete(k) \/ QuarantineIfFenced(k)

ReconcilerStep(w, k) ==
    \/ Reap(w, k) \/ ClearReaped(w, k) \/ Reopen(w, k) \/ RecoverArtifacts(w, k)
    \/ ReconcilerObserves(w, k) \/ ReconcilerCompletes(w, k) \/ GiveUp(w, k)

Next ==
    \/ RequestWorktree \/ RequestCleanup
    \/ WorkBegins \/ WorkEnds \/ WorkerQuarantines \/ EditTree
    \/ \E d \in Drift : OutsiderChanges(d)
    \/ \E k \in Kind :
          \/ ManagerStep(k) \/ ManagerCrashes(k) \/ LeaseLapses(k)
          \/ GitBegins(k) \/ GitEnds(k) \/ FenceLapses(k)
    \/ \E w \in Reconciler : ReconcilerCrashes(w)
    \/ \E w \in Reconciler, k \in Kind :
          ClaimExpired(w, k) \/ ClaimQuarantined(w, k) \/ ReconcilerStep(w, k)

Spec == Init /\ [][Next]_vars
=============================================================================
