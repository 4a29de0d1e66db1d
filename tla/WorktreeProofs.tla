---------------------------- MODULE WorktreeProofs ----------------------------
(***************************************************************************)
(* What Worktrees promises, for every set of reconcilers and any number of *)
(* their faults.                                                           *)
(*                                                                         *)
(* A guardian is known by three traces of unequal age: the step of the     *)
(* manager that drives it, the process column and the output files.  The   *)
(* invariant orders them, so that the column alone tells what may still    *)
(* run; a reconciler's step then rests on the column, since the claim it   *)
(* began with has shut the manager out.                                    *)
(***************************************************************************)
EXTENDS WorktreeProperties, TLAPS

\* A worktree exists from the request of its creation on.
TreeRequested == tree = "none" <=> op["create"] = "none"

\* What the step of a manager says of the operation it drives.
ManagerTrail ==
    \A k \in Kind :
        /\ mgr[k] = "idle" <=> op[k] = "none"
        /\ mgr[k] \in {"idle", "requested", "intended"} =>
              proc[k] = "none" /\ git[k] = "none" /\ k \notin logs
        /\ mgr[k] = "spawned" => proc[k] = "none" /\ git[k] = "blocked" /\ k \notin logs
        /\ mgr[k] = "recorded" => proc[k] # "none" /\ git[k] \in {"blocked", "gone"}
        /\ mgr[k] = "released" => git[k] \in {"running", "exited", "gone"} /\ k \in logs
        /\ mgr[k] = "collected" => git[k] = "gone" /\ k \in logs
        /\ mgr[k] \in {"cleared", "hashed", "observed"} => proc[k] = "stopped" /\ k \in logs

\* What the columns of an operation say of its guardian.
GuardianOnRecord ==
    \A k \in Kind :
        /\ git[k] = "blocked" => mgr[k] \in {"spawned", "recorded"}
        /\ git[k] \in {"running", "exited"} => proc[k] = "active" /\ k \in logs
        /\ proc[k] = "stopped" => git[k] = "gone"
        /\ k \in logs => proc[k] # "none"
        /\ artifacts[k] = "hashed" => proc[k] = "stopped" /\ k \in logs
        /\ op[k] = "succeeded" => proc[k] = "stopped"

\* What the step of a reconciler says of the operation it has claimed.  The first
\* conjunct shuts the manager out: no guardian is recorded after the claim.
ReconcilerTrail ==
    \A w \in Reconciler :
        LET k == rec[w].op IN
        /\ rec[w].at # "idle" => k \in opLapsed \/ proc[k] # "none"
        /\ rec[w].at # "idle" /\ rec[w].mode = "expired" => k \in opLapsed
        /\ rec[w].at # "idle" /\ rec[w].mode = "expired" /\ fence[k] = w => op[k] = "running"
        /\ rec[w].at = "reaped" /\ proc[k] = "active" => git[k] = "gone"
        /\ rec[w].at \in {"cleared", "open"} => proc[k] # "active"
        /\ rec[w].at \in {"recovered", "observed"} => proc[k] = "stopped"

\* Somebody has found the result of a command of kind k exact.
Observed(k) ==
    \/ mgr[k] = "observed"
    \/ \E w \in Reconciler : rec[w].at = "observed" /\ rec[w].op = k

\* What has been observed is still there while it matters: edits leave a directory whole.
DiskAsObserved ==
    /\ Observed("create") /\ op["create"] # "succeeded" => disk \in Whole
    /\ Observed("remove") => disk = "absent"
    /\ op["remove"] # "none" => item = "ended"

\* As long as the item is open its fixer's directory is whole: no late creation,
\* adopted removal or cleanup request leaves it absent or half made under a job.
WorkspaceStays ==
    item \in {"attached", "working"} => disk \in Whole

IInv ==
    /\ TypeOK
    /\ TreeFollowsOperation
    /\ TreeRequested
    /\ ManagerTrail
    /\ GuardianOnRecord
    /\ ReconcilerTrail
    /\ DiskAsObserved
    /\ WorkspaceStays

-----------------------------------------------------------------------------
(* The transactions both owners and reconcilers use. *)

\* The rows keep their types when an operation is completed or quarantined.
LEMMA CompletedType ==
    ASSUME TypeOK, NEW k \in Kind, Completed(k)
    PROVE  /\ op' \in [Kind -> OpStates] /\ tree' \in TreeStates /\ item' \in ItemStates
           /\ fence' \in [Kind -> Reconciler \cup {Nobody}] /\ fenceLapsed' \subseteq Kind
  BY DEF TypeOK, Completed, Kind, OpStates, TreeStates, ItemStates

LEMMA QuarantinedType ==
    ASSUME TypeOK, NEW k \in Kind, Quarantined(k)
    PROVE  /\ op' \in [Kind -> OpStates] /\ tree' \in TreeStates
           /\ fence' \in [Kind -> Reconciler \cup {Nobody}] /\ fenceLapsed' \subseteq Kind
  BY DEF TypeOK, Quarantined, OpStates, TreeStates

\* What a reconciler's clearing and reopening come to, case by case.
LEMMA ClearReapedMeans ==
    ASSUME NEW w \in Reconciler, NEW k \in Kind, ClearReaped(w, k)
    PROVE  /\ rec[w].at = "reaped" /\ rec[w].op = k
           /\ \/ proc[k] # "active" /\ RecTo(w, "cleared") /\ UNCHANGED proc
              \/ proc[k] = "active" /\ ProcessStopped(k) /\ RecTo(w, "cleared")
              \/ RecTo(w, "failed") /\ UNCHANGED proc
           /\ UNCHANGED <<item, tree, op, artifacts, opLapsed, fenceVars, worldVars, mgr, faults>>
  BY Zenon DEF ClearReaped

LEMMA ReopenMeans ==
    ASSUME NEW w \in Reconciler, NEW k \in Kind, Reopen(w, k)
    PROVE  /\ rec[w].at = "cleared" /\ rec[w].op = k
           /\ \/ RecTo(w, "open") /\ UNCHANGED <<tree, op>>
              \/ /\ rec[w].mode = "retry" /\ op[k] = "quarantined" /\ tree = "quarantined"
                 /\ tree' = WorkingState(k)
                 /\ op' = [op EXCEPT ![k] = "running"]
                 /\ RecTo(w, "open")
              \/ RecTo(w, "failed") /\ UNCHANGED <<tree, op>>
           /\ UNCHANGED <<item, proc, artifacts, opLapsed, fenceVars, worldVars, mgr, faults>>
  BY Zenon DEF Reopen

-----------------------------------------------------------------------------
(* The owner of an operation keeps the invariant. *)

\* Only an item without a worktree gets one.
LEMMA RequestWorktreeKeeps == ASSUME IInv, RequestWorktree PROVE IInv'
<1>1. TypeOK'
  BY DEF IInv, Kind, MgrTo, RequestWorktree, TypeOK, fenceVars, worldVars, ManagerSteps,
         OpStates, TreeStates
<1>2. TreeFollowsOperation'
  BY DEF IInv, Kind, MayRequest, MgrTo, RequestWorktree, TreeFollowsOperation, TypeOK,
         WorkingState, fenceVars, worldVars
<1>3. TreeRequested'
  BY DEF IInv, MgrTo, RequestWorktree, TreeRequested, TypeOK, Kind, fenceVars, worldVars
<1>4. ManagerTrail'
  BY DEF IInv, Kind, ManagerTrail, MayRequest, MgrTo, RequestWorktree,
         TreeFollowsOperation, TypeOK, WorkingState, fenceVars, worldVars, OpStates
<1>5. GuardianOnRecord'
  BY DEF IInv, GuardianOnRecord, Kind, ManagerTrail, MayRequest, MgrTo, RequestWorktree,
         TreeFollowsOperation, TypeOK, WorkingState, fenceVars, worldVars, OpStates
<1>6. ReconcilerTrail'
  BY DEF IInv, MgrTo, ReconcilerTrail, RequestWorktree, TypeOK, Kind, fenceVars, worldVars
<1>7. DiskAsObserved'
  BY DEF IInv, DiskAsObserved, MayRequest, MgrTo, Observed, RequestWorktree,
         TreeFollowsOperation, Kind, fenceVars, worldVars
<1>8. WorkspaceStays'
  BY DEF IInv, RequestWorktree, WorkspaceStays, fenceVars, worldVars
<1> QED
  BY <1>1, <1>2, <1>3, <1>4, <1>5, <1>6, <1>7, <1>8 DEF IInv

\* A removal is requested of a worktree that is ready, for an item that has ended.
LEMMA RequestCleanupKeeps == ASSUME IInv, RequestCleanup PROVE IInv'
<1>1. TypeOK'
  BY DEF IInv, Kind, MgrTo, RequestCleanup, TypeOK, fenceVars, worldVars, ManagerSteps,
         OpStates, TreeStates
<1>2. TreeFollowsOperation'
  BY DEF IInv, Kind, MayCleanUp, MgrTo, RequestCleanup, TreeFollowsOperation, TypeOK,
         WorkingState, fenceVars, worldVars
<1>3. TreeRequested'
  BY DEF IInv, MayCleanUp, MgrTo, RequestCleanup, TreeRequested, TypeOK, Kind, fenceVars,
         worldVars
<1>4. ManagerTrail'
  BY DEF IInv, Kind, ManagerTrail, MgrTo, RequestCleanup, TypeOK, fenceVars, worldVars
<1>5. GuardianOnRecord'
  BY DEF IInv, GuardianOnRecord, Kind, ManagerTrail, MgrTo, RequestCleanup, fenceVars,
         worldVars
<1>6. ReconcilerTrail'
  BY DEF IInv, MgrTo, ReconcilerTrail, RequestCleanup, TypeOK, Kind, fenceVars, worldVars
<1>7. DiskAsObserved'
  BY DEF IInv, DiskAsObserved, MayCleanUp, MgrTo, Observed, RequestCleanup, TypeOK, Kind,
         fenceVars, worldVars
<1>8. WorkspaceStays'
  BY DEF IInv, RequestCleanup, WorkspaceStays, fenceVars, worldVars
<1> QED
  BY <1>1, <1>2, <1>3, <1>4, <1>5, <1>6, <1>7, <1>8 DEF IInv

LEMMA RecordIntentKeeps == ASSUME IInv, NEW k \in Kind, RecordIntent(k) PROVE IInv'
<1>1. TypeOK'
  BY DEF IInv, Kind, MgrTo, RecordIntent, TypeOK, fenceVars, worldVars, Artifacts,
         ManagerSteps
<1>2. ManagerTrail'
  BY DEF IInv, Kind, ManagerTrail, MgrTo, RecordIntent, TypeOK, fenceVars, worldVars
<1>3. GuardianOnRecord'
  BY DEF IInv, GuardianOnRecord, Kind, MgrTo, RecordIntent, TypeOK, fenceVars, worldVars
<1>4. DiskAsObserved'
  BY DEF IInv, DiskAsObserved, MgrTo, Observed, RecordIntent, TypeOK, Kind, fenceVars,
         worldVars
<1>5. (TreeFollowsOperation /\ TreeRequested /\ ReconcilerTrail /\ WorkspaceStays)'
  BY DEF IInv, Kind, ReconcilerTrail, RecordIntent, TreeFollowsOperation, TreeRequested,
         WorkingState, WorkspaceStays, fenceVars, worldVars
<1> QED
  BY <1>1, <1>2, <1>3, <1>4, <1>5 DEF IInv

\* A guardian is spawned before anything is on record of it, and waits.
LEMMA SpawnGuardianKeeps == ASSUME IInv, NEW k \in Kind, SpawnGuardian(k) PROVE IInv'
<1>1. TypeOK'
  BY DEF IInv, Kind, MgrTo, SpawnGuardian, TypeOK, fenceVars, rowVars, GitStates,
         ManagerSteps
<1>2. ManagerTrail'
  BY DEF IInv, Kind, ManagerTrail, MgrTo, SpawnGuardian, TypeOK, fenceVars, rowVars
<1>3. GuardianOnRecord'
  BY DEF IInv, GuardianOnRecord, Kind, ManagerTrail, MgrTo, SpawnGuardian, TypeOK,
         fenceVars, rowVars
<1>4. ReconcilerTrail'
  BY DEF IInv, ManagerTrail, MgrTo, ReconcilerTrail, SpawnGuardian, Kind, fenceVars, rowVars
<1>5. DiskAsObserved'
  BY DEF IInv, DiskAsObserved, MgrTo, Observed, SpawnGuardian, TypeOK, Kind, fenceVars,
         rowVars
<1>6. (TreeFollowsOperation /\ TreeRequested /\ WorkspaceStays)'
  BY DEF IInv, Kind, SpawnGuardian, TreeFollowsOperation, TreeRequested, WorkingState,
         WorkspaceStays, fenceVars, rowVars
<1> QED
  BY <1>1, <1>2, <1>3, <1>4, <1>5, <1>6 DEF IInv

\* No reconciler holds the operation yet: none had a process to find.
LEMMA RecordGuardianKeeps == ASSUME IInv, NEW k \in Kind, RecordGuardian(k) PROVE IInv'
<1>1. TypeOK'
  BY DEF IInv, Kind, MgrTo, RecordGuardian, TypeOK, fenceVars, GitStates, ManagerSteps,
         ProcessStates
<1>2. ManagerTrail'
  BY DEF IInv, Kind, ManagerTrail, MgrTo, RecordGuardian, TypeOK, fenceVars
<1>3. GuardianOnRecord'
  BY DEF IInv, GuardianOnRecord, Kind, MgrTo, RecordGuardian, TypeOK, fenceVars
<1>4. ReconcilerTrail'
  BY DEF IInv, MgrTo, OwnerFence, ReconcilerTrail, RecordGuardian, TypeOK, Kind, fenceVars
<1>5. DiskAsObserved'
  BY DEF IInv, DiskAsObserved, MgrTo, Observed, RecordGuardian, TypeOK, Kind, fenceVars
<1>6. (TreeFollowsOperation /\ TreeRequested /\ WorkspaceStays)'
  BY DEF IInv, Kind, RecordGuardian, TreeFollowsOperation, TreeRequested, WorkingState,
         WorkspaceStays, fenceVars
<1> QED
  BY <1>1, <1>2, <1>3, <1>4, <1>5, <1>6 DEF IInv

\* Git starts only with the process column active.
LEMMA ReleaseGuardianKeeps == ASSUME IInv, NEW k \in Kind, ReleaseGuardian(k) PROVE IInv'
<1>1. TypeOK'
  BY DEF IInv, Kind, MgrTo, ReleaseGuardian, TypeOK, fenceVars, rowVars, GitStates,
         ManagerSteps
<1>2. ManagerTrail'
  BY DEF IInv, Kind, ManagerTrail, MgrTo, ReleaseGuardian, TypeOK, fenceVars, rowVars
<1>3. GuardianOnRecord'
  BY DEF IInv, GuardianOnRecord, Kind, ManagerTrail, MgrTo, ReleaseGuardian, TypeOK,
         fenceVars, rowVars, ProcessStates
<1>4. ReconcilerTrail'
  BY DEF IInv, MgrTo, ReconcilerTrail, ReleaseGuardian, TypeOK, Kind, fenceVars, rowVars
<1>5. DiskAsObserved'
  BY DEF IInv, DiskAsObserved, MgrTo, Observed, ReleaseGuardian, TypeOK, Kind, fenceVars,
         rowVars
<1>6. (TreeFollowsOperation /\ TreeRequested /\ WorkspaceStays)'
  BY DEF IInv, Kind, ReleaseGuardian, TreeFollowsOperation, TreeRequested, WorkingState,
         WorkspaceStays, fenceVars, rowVars
<1> QED
  BY <1>1, <1>2, <1>3, <1>4, <1>5, <1>6 DEF IInv

LEMMA CollectGuardianKeeps == ASSUME IInv, NEW k \in Kind, CollectGuardian(k) PROVE IInv'
<1>1. TypeOK'
  BY DEF IInv, CollectGuardian, Kind, MgrTo, TypeOK, fenceVars, rowVars, GitStates,
         ManagerSteps
<1>2. ManagerTrail'
  BY DEF IInv, CollectGuardian, Kind, ManagerTrail, MgrTo, TypeOK, fenceVars, rowVars
<1>3. GuardianOnRecord'
  BY DEF IInv, CollectGuardian, GuardianOnRecord, Kind, MgrTo, TypeOK, fenceVars, rowVars
<1>4. ReconcilerTrail'
  BY DEF IInv, CollectGuardian, MgrTo, ReconcilerTrail, TypeOK, Kind, fenceVars, rowVars
<1>5. DiskAsObserved'
  BY DEF IInv, CollectGuardian, DiskAsObserved, MgrTo, Observed, TypeOK, Kind, fenceVars,
         rowVars
<1>6. (TreeFollowsOperation /\ TreeRequested /\ WorkspaceStays)'
  BY DEF IInv, CollectGuardian, Kind, TreeFollowsOperation, TreeRequested, WorkingState,
         WorkspaceStays, fenceVars, rowVars
<1> QED
  BY <1>1, <1>2, <1>3, <1>4, <1>5, <1>6 DEF IInv

\* The column is cleared once the guardian is gone.
LEMMA ClearProcessKeeps == ASSUME IInv, NEW k \in Kind, ClearProcess(k) PROVE IInv'
<1>1. TypeOK'
  BY DEF IInv, ClearProcess, Kind, MgrTo, ProcessStopped, TypeOK, fenceVars, worldVars,
         ManagerSteps, ProcessStates
<1>2. ManagerTrail'
  BY DEF IInv, ClearProcess, Kind, ManagerTrail, MgrTo, ProcessStopped, TypeOK, fenceVars,
         worldVars
<1>3. GuardianOnRecord'
  BY DEF IInv, ClearProcess, GuardianOnRecord, Kind, ManagerTrail, MgrTo, ProcessStopped,
         TypeOK, fenceVars, worldVars
<1>4. ReconcilerTrail'
  BY DEF IInv, ClearProcess, MgrTo, ProcessStopped, ReconcilerTrail, TypeOK, Kind,
         fenceVars, worldVars
<1>5. DiskAsObserved'
  BY DEF IInv, ClearProcess, DiskAsObserved, MgrTo, Observed, TypeOK, Kind, fenceVars,
         worldVars
<1>6. (TreeFollowsOperation /\ TreeRequested /\ WorkspaceStays)'
  BY DEF IInv, ClearProcess, Kind, TreeFollowsOperation, TreeRequested, WorkingState,
         WorkspaceStays, fenceVars, worldVars
<1> QED
  BY <1>1, <1>2, <1>3, <1>4, <1>5, <1>6 DEF IInv

LEMMA RecordArtifactsKeeps == ASSUME IInv, NEW k \in Kind, RecordArtifacts(k) PROVE IInv'
<1>1. TypeOK'
  BY DEF IInv, Kind, MgrTo, RecordArtifacts, TypeOK, fenceVars, worldVars, Artifacts,
         ManagerSteps
<1>2. ManagerTrail'
  BY DEF IInv, Kind, ManagerTrail, MgrTo, RecordArtifacts, TypeOK, fenceVars, worldVars
<1>3. GuardianOnRecord'
  BY DEF IInv, GuardianOnRecord, Kind, ManagerTrail, MgrTo, RecordArtifacts, TypeOK,
         fenceVars, worldVars
<1>4. DiskAsObserved'
  BY DEF IInv, DiskAsObserved, MgrTo, Observed, RecordArtifacts, TypeOK, Kind, fenceVars,
         worldVars
<1>5. (TreeFollowsOperation /\ TreeRequested /\ ReconcilerTrail /\ WorkspaceStays)'
  BY DEF IInv, Kind, ReconcilerTrail, RecordArtifacts, TreeFollowsOperation, TreeRequested,
         WorkingState, WorkspaceStays, fenceVars, worldVars
<1> QED
  BY <1>1, <1>2, <1>3, <1>4, <1>5 DEF IInv

\* What the owner finds on the disk stays: no guardian of it runs.
LEMMA ObserveKeeps == ASSUME IInv, NEW k \in Kind, Observe(k) PROVE IInv'
<1>1. TypeOK'
  BY DEF IInv, GitStateExact, Kind, MgrTo, Observe, TypeOK, fenceVars, rowVars, worldVars,
         ManagerSteps
<1>2. ManagerTrail'
  BY DEF IInv, GitStateExact, Kind, ManagerTrail, MgrTo, Observe, TypeOK, fenceVars,
         rowVars, worldVars
<1>3. GuardianOnRecord'
  BY DEF IInv, GitStateExact, GuardianOnRecord, Kind, MgrTo, Observe, TypeOK, fenceVars,
         rowVars, worldVars
<1>4. DiskAsObserved'
  BY DEF IInv, Whole, DiskAsObserved, GitStateExact, InspectReady, MgrTo, Observe, Observed,
         TypeOK, Kind, fenceVars, rowVars, worldVars
<1>5. (TreeFollowsOperation /\ TreeRequested /\ ReconcilerTrail /\ WorkspaceStays)'
  BY DEF IInv, Kind, Observe, ReconcilerTrail, TreeFollowsOperation, TreeRequested,
         WorkingState, WorkspaceStays, fenceVars, rowVars, worldVars
<1> QED
  BY <1>1, <1>2, <1>3, <1>4, <1>5 DEF IInv

\* A completion rests on the observation and on the columns.
LEMMA CompleteKeeps == ASSUME IInv, NEW k \in Kind, Complete(k) PROVE IInv'
<1>1. TypeOK'
  <2>1. CASE OwnerFence(k) /\ ReadyToComplete(k)
    <3>1. Completed(k) /\ MgrTo(k, "done")
      BY <2>1 DEF Complete
    <3> QED
      BY <3>1, CompletedType DEF IInv, Complete, TypeOK, worldVars, MgrTo, ManagerSteps
  <2>2. CASE ~(OwnerFence(k) /\ ReadyToComplete(k))
    BY <2>2 DEF IInv, Complete, TypeOK, worldVars, fenceVars, MgrTo, ManagerSteps
  <2> QED
    BY <2>1, <2>2
<1>2. TreeFollowsOperation'
  BY DEF IInv, Complete, Completed, Kind, MgrTo, ReadyToComplete, TreeFollowsOperation,
         TypeOK, WorkingState, fenceVars, worldVars
<1>3. TreeRequested'
  BY DEF IInv, Complete, Completed, MgrTo, ReadyToComplete, TreeRequested, TypeOK,
         WorkingState, Kind, fenceVars, worldVars
<1>4. ManagerTrail'
  BY DEF IInv, Complete, Completed, Kind, ManagerTrail, MgrTo, ReadyToComplete, TypeOK,
         fenceVars, worldVars
<1>5. GuardianOnRecord'
  BY DEF IInv, Complete, Completed, GuardianOnRecord, Kind, MgrTo, ReadyToComplete, TypeOK,
         fenceVars, worldVars
<1>6. ReconcilerTrail'
  BY DEF IInv, Complete, Completed, MgrTo, OwnerFence, ReadyToComplete, ReconcilerTrail,
         TypeOK, Kind, fenceVars, worldVars
<1>7. DiskAsObserved'
  BY DEF IInv, Complete, Completed, DiskAsObserved, MgrTo, Observed, ReadyToComplete,
         TypeOK, Kind, fenceVars, worldVars
<1>8. WorkspaceStays'
  BY DEF IInv, Whole, Complete, Completed, DiskAsObserved, MgrTo, ReadyToComplete, WorkspaceStays,
         Observed, fenceVars, worldVars
<1> QED
  BY <1>1, <1>2, <1>3, <1>4, <1>5, <1>6, <1>7, <1>8 DEF IInv

LEMMA QuarantineIfFencedKeeps ==
    ASSUME IInv, NEW k \in Kind, QuarantineIfFenced(k)
    PROVE  IInv'
<1>1. TypeOK'
  <2>1. CASE OwnerFence(k) /\ proc[k] # "active"
    <3>1. Quarantined(k)
      BY <2>1 DEF QuarantineIfFenced
    <3> QED
      BY <3>1, QuarantinedType
         DEF IInv, QuarantineIfFenced, TypeOK, worldVars, MgrTo, ManagerSteps
  <2>2. CASE ~(OwnerFence(k) /\ proc[k] # "active")
    BY <2>2 DEF IInv, QuarantineIfFenced, TypeOK, worldVars, fenceVars, MgrTo, ManagerSteps
  <2> QED
    BY <2>1, <2>2
<1>2. TreeFollowsOperation'
  BY DEF IInv, Kind, MgrTo, OwnerFence, QuarantineIfFenced, Quarantined,
         TreeFollowsOperation, TypeOK, WorkingState, fenceVars, worldVars
<1>3. TreeRequested'
  BY DEF IInv, MgrTo, OwnerFence, QuarantineIfFenced, Quarantined, TreeFollowsOperation,
         TreeRequested, TypeOK, Kind, fenceVars, worldVars
<1>4. ManagerTrail'
  BY DEF IInv, Kind, ManagerTrail, MgrTo, QuarantineIfFenced, Quarantined, TypeOK,
         fenceVars, worldVars
<1>5. GuardianOnRecord'
  BY DEF IInv, GuardianOnRecord, Kind, MgrTo, QuarantineIfFenced, Quarantined, TypeOK,
         fenceVars, worldVars
<1>6. ReconcilerTrail'
  BY DEF IInv, MgrTo, OwnerFence, QuarantineIfFenced, Quarantined, ReconcilerTrail, TypeOK,
         Kind, fenceVars, worldVars
<1>7. DiskAsObserved'
  BY DEF IInv, DiskAsObserved, MgrTo, Observed, OwnerFence, QuarantineIfFenced,
         Quarantined, TypeOK, Kind, fenceVars, worldVars
<1>8. WorkspaceStays'
  BY DEF IInv, QuarantineIfFenced, WorkspaceStays, fenceVars, worldVars
<1> QED
  BY <1>1, <1>2, <1>3, <1>4, <1>5, <1>6, <1>7, <1>8 DEF IInv

\* A guardian nobody released dies with its manager; another goes on.
LEMMA ManagerCrashesKeeps == ASSUME IInv, NEW k \in Kind, ManagerCrashes(k) PROVE IInv'
<1>1. TypeOK'
  BY DEF IInv, Kind, ManagerCrashes, MgrTo, TypeOK, fenceVars, rowVars, GitStates,
         ManagerSteps
<1>2. ManagerTrail'
  BY DEF IInv, Kind, ManagerCrashes, ManagerTrail, MgrTo, TypeOK, fenceVars, rowVars
<1>3. GuardianOnRecord'
  BY DEF IInv, GuardianOnRecord, Kind, ManagerCrashes, MgrTo, TypeOK, fenceVars, rowVars
<1>4. ReconcilerTrail'
  BY DEF IInv, ManagerCrashes, MgrTo, ReconcilerTrail, TypeOK, Kind, fenceVars, rowVars
<1>5. DiskAsObserved'
  BY DEF IInv, DiskAsObserved, ManagerCrashes, MgrTo, Observed, TypeOK, Kind, fenceVars,
         rowVars
<1>6. (TreeFollowsOperation /\ TreeRequested /\ WorkspaceStays)'
  BY DEF IInv, Kind, ManagerCrashes, TreeFollowsOperation, TreeRequested, WorkingState,
         WorkspaceStays, fenceVars, rowVars
<1> QED
  BY <1>1, <1>2, <1>3, <1>4, <1>5, <1>6 DEF IInv

-----------------------------------------------------------------------------
(* So do time, Git and the work in the tree. *)

LEMMA LeaseLapsesKeeps == ASSUME IInv, NEW k \in Kind, LeaseLapses(k) PROVE IInv'
<1>1. TypeOK'
  BY DEF IInv, Kind, LeaseLapses, TypeOK, fenceVars, rowVars, worldVars
<1>2. ReconcilerTrail'
  BY DEF IInv, LeaseLapses, ReconcilerTrail, TypeOK, Kind, fenceVars, rowVars, worldVars
<1>3. (TreeFollowsOperation /\ TreeRequested /\ ManagerTrail /\ GuardianOnRecord
       /\ DiskAsObserved /\ WorkspaceStays)'
  BY DEF IInv, DiskAsObserved, GuardianOnRecord, Kind, LeaseLapses, ManagerTrail, Observed,
         TreeFollowsOperation, TreeRequested, WorkingState, WorkspaceStays, fenceVars,
         rowVars, worldVars
<1> QED
  BY <1>1, <1>2, <1>3 DEF IInv

\* Git changes the disk only while nobody can have observed it.
LEMMA GitBeginsKeeps == ASSUME IInv, NEW k \in Kind, GitBegins(k) PROVE IInv'
<1>1. TypeOK'
  BY DEF IInv, GitBegins, Kind, TypeOK, fenceVars, rowVars, DiskStates
<1>2. DiskAsObserved'
  BY DEF IInv, DiskAsObserved, GitBegins, GuardianOnRecord, ManagerTrail, Observed,
         ReconcilerTrail, TreeFollowsOperation, Kind, fenceVars, rowVars
<1>3. WorkspaceStays'
  BY DEF IInv, Whole, DiskAsObserved, GitBegins, ManagerTrail, WorkspaceStays, Kind, fenceVars,
         rowVars
<1>4. (TreeFollowsOperation /\ TreeRequested /\ ManagerTrail /\ GuardianOnRecord
       /\ ReconcilerTrail)'
  BY DEF IInv, GitBegins, GuardianOnRecord, Kind, ManagerTrail, ReconcilerTrail,
         TreeFollowsOperation, TreeRequested, WorkingState, fenceVars, rowVars
<1> QED
  BY <1>1, <1>2, <1>3, <1>4 DEF IInv

LEMMA GitEndsKeeps == ASSUME IInv, NEW k \in Kind, GitEnds(k) PROVE IInv'
<1>1. TypeOK'
  BY DEF IInv, GitEnds, Kind, TypeOK, fenceVars, rowVars, DiskStates, GitStates
<1>2. ManagerTrail'
  BY DEF IInv, GitEnds, Kind, ManagerTrail, TypeOK, fenceVars, rowVars
<1>3. GuardianOnRecord'
  BY DEF IInv, GitEnds, GuardianOnRecord, Kind, TypeOK, fenceVars, rowVars
<1>4. ReconcilerTrail'
  BY DEF IInv, GitEnds, ReconcilerTrail, TypeOK, Kind, fenceVars, rowVars
<1>5. DiskAsObserved'
  <2>1. (Observed("create")' <=> Observed("create")) /\ (Observed("remove")' <=> Observed("remove"))
    BY DEF GitEnds, Observed
  <2>2. UNCHANGED <<op, item>> /\ (disk' = disk \/ disk = "partial")
    BY DEF GitEnds, rowVars
  <2>3. disk = "partial" => disk \notin Whole
    BY DEF Whole
  <2> QED
    BY <2>1, <2>2, <2>3 DEF IInv, DiskAsObserved
<1>6. WorkspaceStays'
  BY DEF IInv, Whole, GitEnds, TypeOK, WorkspaceStays, Kind, fenceVars, rowVars
<1>7. (TreeFollowsOperation /\ TreeRequested)'
  BY DEF IInv, GitEnds, Kind, TreeFollowsOperation, TreeRequested, WorkingState, fenceVars,
         rowVars
<1> QED
  BY <1>1, <1>2, <1>3, <1>4, <1>5, <1>6, <1>7 DEF IInv

LEMMA WorkBeginsKeeps == ASSUME IInv, WorkBegins PROVE IInv'
<1>1. TypeOK'
  BY DEF IInv, Kind, TypeOK, WorkBegins, fenceVars, rowVars, worldVars, ItemStates
<1>2. TreeFollowsOperation'
  BY DEF IInv, Kind, TreeFollowsOperation, TypeOK, WorkBegins, fenceVars, rowVars, worldVars
<1>3. DiskAsObserved'
  BY DEF IInv, DiskAsObserved, Observed, TypeOK, WorkBegins, Kind, fenceVars, rowVars,
         worldVars
<1>4. WorkspaceStays'
  BY DEF IInv, TypeOK, WorkBegins, WorkspaceStays, Kind, fenceVars, rowVars, worldVars
<1>5. (TreeRequested /\ ManagerTrail /\ GuardianOnRecord /\ ReconcilerTrail)'
  BY DEF IInv, GuardianOnRecord, Kind, ManagerTrail, ReconcilerTrail, TreeRequested,
         WorkBegins, fenceVars, rowVars, worldVars
<1> QED
  BY <1>1, <1>2, <1>3, <1>4, <1>5 DEF IInv

LEMMA WorkEndsKeeps == ASSUME IInv, WorkEnds PROVE IInv'
<1>1. TypeOK'
  BY DEF IInv, Kind, TypeOK, WorkEnds, fenceVars, rowVars, worldVars, ItemStates
<1>2. TreeFollowsOperation'
  BY DEF IInv, Kind, TreeFollowsOperation, TypeOK, WorkEnds, fenceVars, rowVars, worldVars
<1>3. DiskAsObserved'
  BY DEF IInv, DiskAsObserved, Observed, TypeOK, WorkEnds, Kind, fenceVars, rowVars,
         worldVars
<1>4. WorkspaceStays'
  BY DEF IInv, TypeOK, WorkEnds, WorkspaceStays, Kind, fenceVars, rowVars, worldVars
<1>5. (TreeRequested /\ ManagerTrail /\ GuardianOnRecord /\ ReconcilerTrail)'
  BY DEF IInv, GuardianOnRecord, Kind, ManagerTrail, ReconcilerTrail, TreeRequested,
         WorkEnds, fenceVars, rowVars, worldVars
<1> QED
  BY <1>1, <1>2, <1>3, <1>4, <1>5 DEF IInv

LEMMA WorkerQuarantinesKeeps == ASSUME IInv, WorkerQuarantines PROVE IInv'
<1>1. TypeOK'
  BY DEF IInv, Kind, TypeOK, WorkerQuarantines, fenceVars, worldVars, TreeStates
<1>2. TreeFollowsOperation'
  BY DEF IInv, Kind, TreeFollowsOperation, TypeOK, WorkerQuarantines, WorkingState,
         fenceVars, worldVars
<1>3. TreeRequested'
  BY DEF IInv, TreeRequested, TypeOK, WorkerQuarantines, Kind, fenceVars, worldVars
<1>4. (ManagerTrail /\ GuardianOnRecord /\ ReconcilerTrail /\ DiskAsObserved /\ WorkspaceStays)'
  BY DEF IInv, DiskAsObserved, GuardianOnRecord, Kind, ManagerTrail, Observed,
         ReconcilerTrail, WorkerQuarantines, WorkspaceStays, fenceVars, worldVars
<1> QED
  BY <1>1, <1>2, <1>3, <1>4 DEF IInv

\* An edit leaves the directory whole, and there is none to edit once it is gone.
LEMMA EditTreeKeeps == ASSUME IInv, EditTree PROVE IInv'
<1>1. TypeOK'
  BY DEF IInv, EditTree, Kind, TypeOK, fenceVars, rowVars, DiskStates
<1>2. DiskAsObserved'
  BY DEF IInv, Whole, DiskAsObserved, EditTree, Observed, fenceVars, rowVars
<1>3. WorkspaceStays'
  BY DEF EditTree, Whole, WorkspaceStays, fenceVars, rowVars
<1>4. (TreeFollowsOperation /\ TreeRequested /\ ManagerTrail /\ GuardianOnRecord
       /\ ReconcilerTrail)'
  BY DEF IInv, EditTree, GuardianOnRecord, Kind, ManagerTrail, ReconcilerTrail,
         TreeFollowsOperation, TreeRequested, WorkingState, fenceVars, rowVars
<1> QED
  BY <1>1, <1>2, <1>3, <1>4 DEF IInv

\* Branches, metadata and the clone are no part of the invariant.
LEMMA OutsiderChangesKeeps == ASSUME IInv, NEW d \in Drift, OutsiderChanges(d) PROVE IInv'
<1>1. TypeOK'
  BY DEF IInv, Kind, OutsiderChanges, TypeOK, fenceVars, rowVars
<1>2. (TreeFollowsOperation /\ TreeRequested /\ ManagerTrail /\ GuardianOnRecord
       /\ ReconcilerTrail /\ DiskAsObserved /\ WorkspaceStays)'
  BY DEF IInv, DiskAsObserved, GuardianOnRecord, Kind, ManagerTrail, Observed,
         OutsiderChanges, ReconcilerTrail, TreeFollowsOperation, TreeRequested,
         WorkingState, WorkspaceStays, fenceVars, rowVars
<1> QED
  BY <1>1, <1>2 DEF IInv

-----------------------------------------------------------------------------
(* So do the reconcilers. *)

\* A claim needs a lapsed lease or an unresolved process: it shuts the manager out.
LEMMA ClaimExpiredKeeps ==
    ASSUME IInv, NEW w \in Reconciler, NEW k \in Kind, ClaimExpired(w, k)
    PROVE  IInv'
<1>1. TypeOK'
  BY DEF IInv, ClaimExpired, Claimed, Kind, TypeOK, rowVars, worldVars, ReconcilerSteps
<1>2. TreeFollowsOperation'
  BY DEF IInv, ClaimExpired, Claimed, Kind, TreeFollowsOperation, TypeOK, rowVars, worldVars
<1>3. TreeRequested'
  BY DEF IInv, ClaimExpired, Claimed, TreeRequested, TypeOK, Kind, rowVars, worldVars
<1>4. ManagerTrail'
  BY DEF IInv, ClaimExpired, Claimed, Kind, ManagerTrail, TypeOK, rowVars, worldVars
<1>5. GuardianOnRecord'
  BY DEF IInv, ClaimExpired, Claimed, GuardianOnRecord, Kind, TypeOK, rowVars, worldVars
<1>6. ReconcilerTrail'
  BY DEF IInv, ClaimExpired, Claimed, ReconcilerTrail, TypeOK, Kind, rowVars, worldVars
<1>7. DiskAsObserved'
  BY DEF IInv, ClaimExpired, Claimed, DiskAsObserved, Observed, TypeOK, Kind, rowVars,
         worldVars
<1>8. WorkspaceStays'
  BY DEF IInv, ClaimExpired, Claimed, TypeOK, WorkspaceStays, Kind, rowVars, worldVars
<1> QED
  BY <1>1, <1>2, <1>3, <1>4, <1>5, <1>6, <1>7, <1>8 DEF IInv

LEMMA ClaimQuarantinedKeeps ==
    ASSUME IInv, NEW w \in Reconciler, NEW k \in Kind, ClaimQuarantined(w, k)
    PROVE  IInv'
<1>1. TypeOK'
  BY DEF IInv, ClaimQuarantined, Claimed, Kind, TypeOK, rowVars, worldVars, ReconcilerSteps
<1>2. TreeFollowsOperation'
  BY DEF IInv, ClaimQuarantined, Claimed, Kind, TreeFollowsOperation, TypeOK, rowVars,
         worldVars
<1>3. TreeRequested'
  BY DEF IInv, ClaimQuarantined, Claimed, TreeRequested, TypeOK, Kind, rowVars, worldVars
<1>4. ManagerTrail'
  BY DEF IInv, ClaimQuarantined, Claimed, Kind, ManagerTrail, TypeOK, rowVars, worldVars
<1>5. GuardianOnRecord'
  BY DEF IInv, ClaimQuarantined, Claimed, GuardianOnRecord, Kind, TypeOK, rowVars, worldVars
<1>6. ReconcilerTrail'
  BY DEF IInv, ClaimQuarantined, Claimed, ReconcilerTrail, TypeOK, Kind, rowVars, worldVars
<1>7. DiskAsObserved'
  BY DEF IInv, ClaimQuarantined, Claimed, DiskAsObserved, Observed, TypeOK, Kind, rowVars,
         worldVars
<1>8. WorkspaceStays'
  BY DEF IInv, ClaimQuarantined, Claimed, TypeOK, WorkspaceStays, Kind, rowVars, worldVars
<1> QED
  BY <1>1, <1>2, <1>3, <1>4, <1>5, <1>6, <1>7, <1>8 DEF IInv

\* A reaped guardian is gone.
LEMMA ReapKeeps == ASSUME IInv, NEW w \in Reconciler, NEW k \in Kind, Reap(w, k) PROVE IInv'
<1>1. TypeOK'
  BY WorktreeAssumption
     DEF IInv, Kind, Reap, RecTo, TreeFollowsOperation, TypeOK, fenceVars, rowVars, Drift,
         GitStates, ReconcilerSteps
<1>2. ManagerTrail'
  BY DEF IInv, Kind, ManagerTrail, Reap, RecTo, TypeOK, fenceVars, rowVars
<1>3. GuardianOnRecord'
  BY DEF IInv, GuardianOnRecord, Kind, Reap, RecTo, TypeOK, fenceVars, rowVars
<1>4. ReconcilerTrail'
  BY DEF IInv, Reap, RecTo, ReconcilerTrail, TypeOK, Kind, fenceVars, rowVars
<1>5. DiskAsObserved'
  BY DEF IInv, DiskAsObserved, Observed, Reap, RecTo, TypeOK, Kind, fenceVars, rowVars
<1>6. (TreeFollowsOperation /\ TreeRequested /\ WorkspaceStays)'
  BY DEF IInv, Kind, Reap, TreeFollowsOperation, TreeRequested, WorkingState,
         WorkspaceStays, fenceVars, rowVars
<1> QED
  BY <1>1, <1>2, <1>3, <1>4, <1>5, <1>6 DEF IInv

LEMMA ClearReapedKeeps ==
    ASSUME IInv, NEW w \in Reconciler, NEW k \in Kind, ClearReaped(w, k)
    PROVE  IInv'
<1>1. TypeOK'
  BY ClearReapedMeans
     DEF IInv, DiskAsObserved, Kind, ProcessStopped, RecTo, TypeOK, fenceVars, worldVars,
         ProcessStates, ReconcilerSteps
<1>2. ManagerTrail'
  BY ClearReapedMeans
     DEF IInv, Kind, ManagerTrail, ProcessStopped, RecTo, TypeOK, fenceVars, worldVars
<1>3. GuardianOnRecord'
  BY ClearReapedMeans
     DEF IInv, GuardianOnRecord, Kind, ProcessStopped, RecTo, ReconcilerTrail, TypeOK,
         fenceVars, worldVars
<1>4. ReconcilerTrail'
  BY ClearReapedMeans
     DEF IInv, ProcessStopped, RecTo, ReconcilerTrail, TypeOK, Kind, fenceVars, worldVars,
         Drift
<1>5. DiskAsObserved'
  BY ClearReapedMeans, WorktreeAssumption
     DEF IInv, DiskAsObserved, Observed, ProcessStopped, RecTo, TypeOK, Kind, fenceVars,
         worldVars
<1>6. (TreeFollowsOperation /\ TreeRequested /\ WorkspaceStays)'
  BY ClearReapedMeans
     DEF IInv, Kind, TreeFollowsOperation, TreeRequested, WorkingState, WorkspaceStays,
         fenceVars, worldVars
<1> QED
  BY <1>1, <1>2, <1>3, <1>4, <1>5, <1>6 DEF IInv

\* A reopened operation goes back to the state it had.
LEMMA ReopenKeeps ==
    ASSUME IInv, NEW w \in Reconciler, NEW k \in Kind, Reopen(w, k)
    PROVE  IInv'
<1>1. TypeOK'
  BY ReopenMeans
     DEF IInv, Kind, RecTo, TypeOK, WorkingState, fenceVars, worldVars, Artifacts, OpStates,
         ReconcilerSteps, TreeStates
<1>2. TreeFollowsOperation'
  BY ReopenMeans
     DEF IInv, Kind, RecTo, TreeFollowsOperation, TypeOK, WorkingState, fenceVars,
         worldVars
<1>3. TreeRequested'
  BY ReopenMeans
     DEF IInv, RecTo, TreeRequested, TypeOK, WorkingState, Kind, fenceVars, worldVars
<1>4. ManagerTrail'
  BY ReopenMeans DEF IInv, Kind, ManagerTrail, RecTo, TypeOK, fenceVars, worldVars
<1>5. GuardianOnRecord'
  BY ReopenMeans DEF IInv, GuardianOnRecord, Kind, RecTo, TypeOK, fenceVars, worldVars
<1>6. ReconcilerTrail'
  BY ReopenMeans DEF IInv, RecTo, ReconcilerTrail, TypeOK, Kind, fenceVars, worldVars
<1>7. DiskAsObserved'
  BY ReopenMeans
     DEF IInv, DiskAsObserved, Observed, RecTo, TreeFollowsOperation, TreeRequested,
         TypeOK, Kind, fenceVars, worldVars
<1>8. WorkspaceStays'
  BY ReopenMeans DEF IInv, WorkspaceStays, fenceVars, worldVars
<1> QED
  BY <1>1, <1>2, <1>3, <1>4, <1>5, <1>6, <1>7, <1>8 DEF IInv

LEMMA RecoverArtifactsKeeps ==
    ASSUME IInv, NEW w \in Reconciler, NEW k \in Kind, RecoverArtifacts(w, k)
    PROVE  IInv'
<1>1. TypeOK'
  BY DEF IInv, Kind, RecTo, RecoverArtifacts, TypeOK, fenceVars, worldVars, Artifacts,
         ReconcilerSteps
<1>2. GuardianOnRecord'
  BY DEF IInv, GuardianOnRecord, Kind, RecTo, ReconcilerTrail, RecoverArtifacts, TypeOK,
         fenceVars, worldVars, ProcessStates
<1>3. ReconcilerTrail'
  BY DEF IInv, RecTo, ReconcilerTrail, RecoverArtifacts, TypeOK, Kind, fenceVars,
         worldVars, ProcessStates
<1>4. DiskAsObserved'
  BY DEF IInv, DiskAsObserved, Observed, RecTo, RecoverArtifacts, TypeOK, Kind, fenceVars,
         worldVars
<1>5. (TreeFollowsOperation /\ TreeRequested /\ ManagerTrail /\ WorkspaceStays)'
  BY DEF IInv, Kind, ManagerTrail, RecoverArtifacts, TreeFollowsOperation, TreeRequested,
         WorkingState, WorkspaceStays, fenceVars, worldVars
<1> QED
  BY <1>1, <1>2, <1>3, <1>4, <1>5 DEF IInv

LEMMA ReconcilerObservesKeeps ==
    ASSUME IInv, NEW w \in Reconciler, NEW k \in Kind, ReconcilerObserves(w, k)
    PROVE  IInv'
<1>1. TypeOK'
  BY DEF IInv, GitStateExact, Kind, RecTo, ReconcilerObserves, TypeOK, fenceVars, rowVars,
         worldVars, ReconcilerSteps
<1>2. ReconcilerTrail'
  BY DEF IInv, GitStateExact, RecTo, ReconcilerObserves, ReconcilerTrail, TypeOK, Kind,
         fenceVars, rowVars, worldVars
<1>3. DiskAsObserved'
  BY DEF IInv, Whole, DiskAsObserved, GitStateExact, InspectReady, Observed, RecTo,
         ReconcilerObserves, TypeOK, Kind, fenceVars, rowVars, worldVars
<1>4. (TreeFollowsOperation /\ TreeRequested /\ ManagerTrail /\ GuardianOnRecord
       /\ WorkspaceStays)'
  BY DEF IInv, GuardianOnRecord, Kind, ManagerTrail, ReconcilerObserves,
         TreeFollowsOperation, TreeRequested, WorkingState, WorkspaceStays, fenceVars,
         rowVars, worldVars
<1> QED
  BY <1>1, <1>2, <1>3, <1>4 DEF IInv

LEMMA ReconcilerCompletesKeeps ==
    ASSUME IInv, NEW w \in Reconciler, NEW k \in Kind, ReconcilerCompletes(w, k)
    PROVE  IInv'
<1>1. TypeOK'
  BY DEF IInv, Completed, Kind, ReadyToComplete, RecTo, ReconcilerCompletes, TypeOK,
         fenceVars, worldVars, ItemStates, OpStates, ReconcilerSteps, TreeStates
<1>2. TreeFollowsOperation'
  BY DEF IInv, Completed, Kind, ReadyToComplete, RecTo, ReconcilerCompletes,
         TreeFollowsOperation, TypeOK, WorkingState, fenceVars, worldVars
<1>3. TreeRequested'
  BY DEF IInv, Completed, ReadyToComplete, RecTo, ReconcilerCompletes, TreeRequested,
         TypeOK, WorkingState, Kind, fenceVars, worldVars
<1>4. ManagerTrail'
  BY DEF IInv, Completed, Kind, ManagerTrail, ReadyToComplete, RecTo, ReconcilerCompletes,
         TypeOK, fenceVars, worldVars
<1>5. GuardianOnRecord'
  BY DEF IInv, Completed, GuardianOnRecord, Kind, ReadyToComplete, RecTo,
         ReconcilerCompletes, TypeOK, fenceVars, worldVars
<1>6. ReconcilerTrail'
  BY WorktreeAssumption
     DEF IInv, Completed, ReadyToComplete, RecTo, ReconcilerCompletes, ReconcilerTrail,
         TypeOK, Kind, fenceVars, worldVars
<1>7. DiskAsObserved'
  BY DEF IInv, Completed, DiskAsObserved, Observed, ReadyToComplete, RecTo,
         ReconcilerCompletes, TypeOK, Kind, fenceVars, worldVars
<1>8. WorkspaceStays'
  BY DEF IInv, Whole, Completed, DiskAsObserved, ReadyToComplete, RecTo, ReconcilerCompletes,
         WorkspaceStays, Observed, fenceVars, worldVars
<1> QED
  BY <1>1, <1>2, <1>3, <1>4, <1>5, <1>6, <1>7, <1>8 DEF IInv

LEMMA GiveUpKeeps ==
    ASSUME IInv, NEW w \in Reconciler, NEW k \in Kind, GiveUp(w, k)
    PROVE  IInv'
<1>1. TypeOK'
  BY DEF IInv, GiveUp, Kind, Quarantined, RecTo, RetryEnds, TypeOK, fenceVars, worldVars,
         OpStates, ReconcilerSteps, TreeStates
<1>2. TreeFollowsOperation'
  BY DEF IInv, GiveUp, Kind, Quarantined, RecTo, ReconcilerFence, ReconcilerTrail,
         RetryEnds, TreeFollowsOperation, TypeOK, WorkingState, fenceVars, worldVars
<1>3. TreeRequested'
  BY DEF IInv, GiveUp, Quarantined, RecTo, ReconcilerFence, ReconcilerTrail, RetryEnds,
         TreeFollowsOperation, TreeRequested, TypeOK, Kind, fenceVars, worldVars
<1>4. ManagerTrail'
  BY DEF IInv, GiveUp, Kind, ManagerTrail, Quarantined, RecTo, ReconcilerFence,
         ReconcilerTrail, RetryEnds, TypeOK, fenceVars, worldVars
<1>5. GuardianOnRecord'
  BY DEF IInv, GiveUp, GuardianOnRecord, Kind, Quarantined, RecTo, RetryEnds, TypeOK,
         fenceVars, worldVars
<1>6. ReconcilerTrail'
  BY WorktreeAssumption
     DEF IInv, GiveUp, Quarantined, RecTo, ReconcilerTrail, RetryEnds, TypeOK, Kind,
         fenceVars, worldVars
<1>7. DiskAsObserved'
  BY DEF IInv, DiskAsObserved, GiveUp, Observed, Quarantined, RecTo, ReconcilerFence,
         ReconcilerTrail, RetryEnds, TypeOK, Kind, fenceVars, worldVars
<1>8. WorkspaceStays'
  BY DEF IInv, GiveUp, WorkspaceStays, fenceVars, worldVars
<1> QED
  BY <1>1, <1>2, <1>3, <1>4, <1>5, <1>6, <1>7, <1>8 DEF IInv

LEMMA ReconcilerCrashesKeeps ==
    ASSUME IInv, NEW w \in Reconciler, ReconcilerCrashes(w)
    PROVE  IInv'
<1>1. TypeOK'
  BY WorktreeAssumption
     DEF IInv, Idle, Kind, ReconcilerCrashes, TypeOK, fenceVars, rowVars, worldVars,
         ReconcilerSteps
<1>2. ReconcilerTrail'
  BY DEF IInv, Idle, ReconcilerCrashes, ReconcilerTrail, TypeOK, Kind, fenceVars, rowVars,
         worldVars
<1>3. DiskAsObserved'
  BY DEF IInv, DiskAsObserved, Idle, Observed, ReconcilerCrashes, TypeOK, Kind, fenceVars,
         rowVars, worldVars
<1>4. (TreeFollowsOperation /\ TreeRequested /\ ManagerTrail /\ GuardianOnRecord
       /\ WorkspaceStays)'
  BY DEF IInv, GuardianOnRecord, Kind, ManagerTrail, ReconcilerCrashes,
         TreeFollowsOperation, TreeRequested, WorkingState, WorkspaceStays, fenceVars,
         rowVars, worldVars
<1> QED
  BY <1>1, <1>2, <1>3, <1>4 DEF IInv

LEMMA FenceLapsesKeeps == ASSUME IInv, NEW k \in Kind, FenceLapses(k) PROVE IInv'
<1>1. TypeOK'
  BY WorktreeAssumption DEF IInv, FenceLapses, Kind, TypeOK, rowVars, worldVars
<1>2. (TreeFollowsOperation /\ TreeRequested /\ ManagerTrail /\ GuardianOnRecord
       /\ ReconcilerTrail /\ DiskAsObserved /\ WorkspaceStays)'
  BY DEF IInv, DiskAsObserved, FenceLapses, GuardianOnRecord, Kind, ManagerTrail, Observed,
         ReconcilerTrail, TreeFollowsOperation, TreeRequested, WorkingState,
         WorkspaceStays, rowVars, worldVars
<1> QED
  BY <1>1, <1>2 DEF IInv

-----------------------------------------------------------------------------
(* The invariant holds. *)

LEMMA WorktreeInitially == Init => IInv
<1> SUFFICES ASSUME Init PROVE IInv
  OBVIOUS
<1>1. TypeOK
  BY WorktreeAssumption
     DEF Init, TypeOK, Idle, Kind, TreeStates, OpStates, ProcessStates, Artifacts, ItemStates,
         DiskStates, GitStates, ManagerSteps, ReconcilerSteps
<1>2. TreeFollowsOperation /\ TreeRequested /\ DiskAsObserved /\ WorkspaceStays
  BY DEF Init, TreeFollowsOperation, TreeRequested, DiskAsObserved, Observed, WorkspaceStays,
         WorkingState, Idle, Kind
<1>3. ManagerTrail /\ GuardianOnRecord /\ ReconcilerTrail
  BY DEF Init, ManagerTrail, GuardianOnRecord, ReconcilerTrail, Idle
<1> QED
  BY <1>1, <1>2, <1>3 DEF IInv

LEMMA WorktreeKept == IInv /\ [Next]_vars => IInv'
<1> SUFFICES ASSUME IInv, [Next]_vars PROVE IInv'
  OBVIOUS
<1>1. ASSUME NEW k \in Kind, ManagerStep(k) PROVE IInv'
  BY <1>1, RecordIntentKeeps, SpawnGuardianKeeps, RecordGuardianKeeps, ReleaseGuardianKeeps,
     CollectGuardianKeeps, ClearProcessKeeps, RecordArtifactsKeeps, ObserveKeeps, CompleteKeeps,
     QuarantineIfFencedKeeps DEF ManagerStep
<1>2. ASSUME NEW w \in Reconciler, NEW k \in Kind, ReconcilerStep(w, k) PROVE IInv'
  BY <1>2, ReapKeeps, ClearReapedKeeps, ReopenKeeps, RecoverArtifactsKeeps,
     ReconcilerObservesKeeps, ReconcilerCompletesKeeps, GiveUpKeeps DEF ReconcilerStep
<1>3. CASE UNCHANGED vars
  BY <1>3 DEF vars, rowVars, fenceVars, worldVars, IInv, TypeOK, TreeFollowsOperation,
              TreeRequested, ManagerTrail, GuardianOnRecord, ReconcilerTrail, DiskAsObserved,
              Observed, WorkspaceStays
<1>4. CASE \/ RequestWorktree \/ RequestCleanup
           \/ WorkBegins \/ WorkEnds \/ WorkerQuarantines \/ EditTree
           \/ \E d \in Drift : OutsiderChanges(d)
  BY <1>4, RequestWorktreeKeeps, RequestCleanupKeeps, WorkBeginsKeeps, WorkEndsKeeps,
     WorkerQuarantinesKeeps, EditTreeKeeps, OutsiderChangesKeeps
<1>5. CASE \E k \in Kind :
              ManagerCrashes(k) \/ LeaseLapses(k) \/ GitBegins(k) \/ GitEnds(k) \/ FenceLapses(k)
  BY <1>5, ManagerCrashesKeeps, LeaseLapsesKeeps, GitBeginsKeeps, GitEndsKeeps, FenceLapsesKeeps
<1>6. CASE \/ \E w \in Reconciler : ReconcilerCrashes(w)
           \/ \E w \in Reconciler, k \in Kind : ClaimExpired(w, k) \/ ClaimQuarantined(w, k)
  BY <1>6, ReconcilerCrashesKeeps, ClaimExpiredKeeps, ClaimQuarantinedKeeps
<1> QED
  BY <1>1, <1>2, <1>3, <1>4, <1>5, <1>6 DEF Next

LEMMA WorktreeInvariant == Spec => []IInv
  BY WorktreeInitially, WorktreeKept, PTL DEF Spec

\* The rows, the disk and every process keep their types.
THEOREM WorktreeTypes == Spec => []TypeOK
  BY WorktreeInvariant, PTL DEF IInv

\* A Git command that may still change the disk is on record as active, whoever has
\* crashed and whichever fence has lapsed between its start and now.
THEOREM GitIsAlwaysRecorded == Spec => []GitOnlyWhileRecorded
<1>1. IInv => GitOnlyWhileRecorded
  BY DEF IInv, GuardianOnRecord, GitOnlyWhileRecorded
<1> QED
  BY <1>1, WorktreeInvariant, PTL

\* The worktree row and its two operation rows, written by seven transactions, tell
\* the same story.
THEOREM TreeAlwaysFollowsOperation == Spec => []TreeFollowsOperation
  BY WorktreeInvariant, PTL DEF IInv

\* No late creation, adopted removal or cleanup takes an open item's directory away.
THEOREM WorkspaceAlwaysStays == Spec => []WorkspaceStays
  BY WorktreeInvariant, PTL DEF IInv

-----------------------------------------------------------------------------
(* Completion. *)

\* Only a completion ends a lifecycle, and it has seen what it declares.
LEMMA CompletionSees ==
    ASSUME IInv, NEW k \in Kind, ReadyToComplete(k), Observed(k)
    PROVE  /\ k = "create" => disk \in Whole
           /\ k = "remove" => disk = "absent"
           /\ proc[k] = "stopped" /\ git[k] = "gone" /\ k \in logs
<1>1. op[k] = "running" /\ proc[k] = "stopped" /\ artifacts[k] = "hashed"
  BY DEF ReadyToComplete
<1>2. git[k] = "gone" /\ k \in logs
  BY <1>1 DEF IInv, GuardianOnRecord
<1>3. (k = "create" => disk \in Whole) /\ (k = "remove" => disk = "absent")
  BY <1>1 DEF IInv, DiskAsObserved
<1> QED
  BY <1>1, <1>2, <1>3

\* Every other step leaves the two final states and success to it.
LEMMA OnlyCompletionCompletes ==
    ASSUME IInv, Next
    PROVE  \/ \E k \in Kind : ReadyToComplete(k) /\ Observed(k) /\ Completed(k)
           \/ /\ tree' \in {"ready", "removed"} => tree' = tree
              /\ \A k \in Kind : op'[k] = "succeeded" => op[k] = "succeeded"
<1> DEFINE Kept == /\ tree' \in {"ready", "removed"} => tree' = tree
                   /\ \A k \in Kind : op'[k] = "succeeded" => op[k] = "succeeded"
           Done == \E k \in Kind : ReadyToComplete(k) /\ Observed(k) /\ Completed(k)
<1>1. TypeOK
  BY DEF IInv
<1>2. CASE UNCHANGED <<tree, op>>
  BY <1>2
<1>3. ASSUME NEW k \in Kind, Quarantined(k) PROVE Kept
  BY <1>1, <1>3 DEF Quarantined, TypeOK
<1>4. ASSUME NEW k \in Kind, ManagerStep(k) PROVE Kept \/ Done
  <2>1. CASE Complete(k)
    BY <2>1 DEF Complete, Observed
  <2>2. CASE QuarantineIfFenced(k)
    BY <1>2, <1>3, <2>2 DEF QuarantineIfFenced
  <2>3. CASE ~Complete(k) /\ ~QuarantineIfFenced(k)
    <3>1. UNCHANGED <<tree, op>>
      BY <1>4, <2>3
         DEF ManagerStep, RecordIntent, SpawnGuardian, RecordGuardian, ReleaseGuardian,
             CollectGuardian, ClearProcess, RecordArtifacts, Observe, rowVars
    <3> QED
      BY <3>1
  <2> QED
    BY <2>1, <2>2, <2>3
<1>5. ASSUME NEW w \in Reconciler, NEW k \in Kind, ReconcilerStep(w, k) PROVE Kept \/ Done
  <2>1. CASE ReconcilerCompletes(w, k)
    BY <2>1 DEF ReconcilerCompletes, Observed
  <2>2. CASE GiveUp(w, k)
    BY <1>2, <1>3, <2>2 DEF GiveUp, RetryEnds
  <2>3. CASE Reopen(w, k)
    BY <1>1, <2>3, ReopenMeans DEF TypeOK, WorkingState
  <2>4. CASE ClearReaped(w, k)
    BY <2>4, ClearReapedMeans
  <2>5. CASE Reap(w, k) \/ RecoverArtifacts(w, k) \/ ReconcilerObserves(w, k)
    BY <2>5 DEF Reap, RecoverArtifacts, ReconcilerObserves, rowVars
  <2> QED
    BY <1>5, <2>1, <2>2, <2>3, <2>4, <2>5 DEF ReconcilerStep
<1>6. CASE RequestWorktree \/ RequestCleanup
  BY <1>1, <1>6 DEF RequestWorktree, RequestCleanup, TypeOK
<1>7. CASE WorkBegins \/ WorkEnds \/ WorkerQuarantines \/ EditTree
  BY <1>7 DEF WorkBegins, WorkEnds, WorkerQuarantines, EditTree, rowVars
<1>8. CASE \/ \E d \in Drift : OutsiderChanges(d)
           \/ \E k \in Kind :
                ManagerCrashes(k) \/ LeaseLapses(k) \/ GitBegins(k) \/ GitEnds(k) \/ FenceLapses(k)
           \/ \E w \in Reconciler : ReconcilerCrashes(w)
           \/ \E w \in Reconciler, k \in Kind : ClaimExpired(w, k) \/ ClaimQuarantined(w, k)
  BY <1>8 DEF OutsiderChanges, ManagerCrashes, LeaseLapses, GitBegins, GitEnds, FenceLapses,
              ReconcilerCrashes, ClaimExpired, ClaimQuarantined, Claimed, rowVars
<1> QED
  BY <1>4, <1>5, <1>6, <1>7, <1>8 DEF Next, Kept, Done

\* A lifecycle is declared complete only on what is on the disk at that moment, with
\* nothing of it still being written.
THEOREM CompletionAlwaysWhole == Spec => CompletionWhole
<1>1. ASSUME IInv, Next
      PROVE  /\ tree # "ready" /\ tree' = "ready" => disk \in Whole
             /\ tree # "removed" /\ tree' = "removed" => disk = "absent"
             /\ \A k \in Kind :
                   op[k] # "succeeded" /\ op'[k] = "succeeded" =>
                       proc[k] = "stopped" /\ git[k] = "gone" /\ k \in logs
  <2>1. CASE \E k \in Kind : ReadyToComplete(k) /\ Observed(k) /\ Completed(k)
    <3>1. PICK k \in Kind : ReadyToComplete(k) /\ Observed(k) /\ Completed(k)
      BY <2>1
    <3>2. /\ k = "create" => disk \in Whole
          /\ k = "remove" => disk = "absent"
          /\ proc[k] = "stopped" /\ git[k] = "gone" /\ k \in logs
      BY <1>1, <3>1, CompletionSees
    <3>3. tree' = (IF k = "create" THEN "ready" ELSE "removed")
          /\ op' = [op EXCEPT ![k] = "succeeded"]
      BY <3>1 DEF Completed
    <3> QED
      BY <1>1, <3>2, <3>3 DEF IInv, TypeOK, Kind
  <2>2. CASE /\ tree' \in {"ready", "removed"} => tree' = tree
             /\ \A k \in Kind : op'[k] = "succeeded" => op[k] = "succeeded"
    BY <2>2
  <2> QED
    BY <1>1, <2>1, <2>2, OnlyCompletionCompletes
<1> QED
  BY <1>1, WorktreeInvariant, PTL DEF Spec, CompletionWhole

-----------------------------------------------------------------------------
(* The abstract workspace. *)

\* What the mapping says of each state of the row.
LEMMA StatusMeans ==
    /\ StatusOf["ready"] = "ready"
    /\ StatusOf["removed"] = "removed"
    /\ \A s \in TreeStates \ {"ready", "removed"} : StatusOf[s] = "withheld"
<1>1. \A s \in TreeStates : StatusOf[s] = (CASE s = "ready" -> "ready" [] s = "removed" -> "removed"
                                              [] OTHER -> "withheld")
  BY DEF StatusOf
<1>2. "ready" \in TreeStates /\ "removed" \in TreeStates
  BY DEF TreeStates
<1> QED
  BY <1>1, <1>2

\* Whatever the mapping hides, a step that leaves the three alone is a stutter.
LEMMA WorkspaceStutters ==
    ASSUME UNCHANGED <<item, disk, tree>>
    PROVE  UNCHANGED Ws!vars
  BY DEF Ws!vars

\* Which steps change the item, the disk or the row's state at all.
LEMMA WorkspaceStill ==
    ASSUME Next
    PROVE  \/ UNCHANGED <<item, disk, tree>>
           \/ RequestWorktree \/ RequestCleanup
           \/ WorkBegins \/ WorkEnds \/ WorkerQuarantines \/ EditTree
           \/ \E k \in Kind : \/ Complete(k) \/ QuarantineIfFenced(k)
                              \/ GitBegins(k) \/ GitEnds(k)
           \/ \E w \in Reconciler, k \in Kind :
                 Reopen(w, k) \/ ReconcilerCompletes(w, k) \/ GiveUp(w, k)
<1>1. ASSUME NEW k \in Kind, ManagerStep(k), ~Complete(k), ~QuarantineIfFenced(k)
      PROVE  UNCHANGED <<item, disk, tree>>
  BY <1>1 DEF ManagerStep, RecordIntent, SpawnGuardian, RecordGuardian, ReleaseGuardian,
              CollectGuardian, ClearProcess, RecordArtifacts, Observe, rowVars, worldVars
<1>2. ASSUME NEW w \in Reconciler, NEW k \in Kind,
             Reap(w, k) \/ ClearReaped(w, k) \/ RecoverArtifacts(w, k) \/ ReconcilerObserves(w, k)
      PROVE  UNCHANGED <<item, disk, tree>>
  <2>1. CASE ClearReaped(w, k)
    BY <2>1, ClearReapedMeans DEF worldVars
  <2> QED
    BY <1>2, <2>1 DEF Reap, RecoverArtifacts, ReconcilerObserves, rowVars, worldVars
<1>3. ASSUME \/ \E d \in Drift : OutsiderChanges(d)
             \/ \E k \in Kind : ManagerCrashes(k) \/ LeaseLapses(k) \/ FenceLapses(k)
             \/ \E w \in Reconciler : ReconcilerCrashes(w)
             \/ \E w \in Reconciler, k \in Kind : ClaimExpired(w, k) \/ ClaimQuarantined(w, k)
      PROVE  UNCHANGED <<item, disk, tree>>
  BY <1>3 DEF OutsiderChanges, ManagerCrashes, LeaseLapses, FenceLapses, ReconcilerCrashes,
              ClaimExpired, ClaimQuarantined, Claimed, rowVars, worldVars
<1> QED
  BY <1>1, <1>2, <1>3 DEF Next, ReconcilerStep

\* A creation that still runs has an item that waits; a removal has one that has ended,
\* and its worktree is no longer, or not yet, in anybody's hands.
LEMMA RunningMeans ==
    ASSUME IInv, NEW k \in Kind, op[k] = "running" \/ git[k] \in {"running", "exited"}
    PROVE  /\ k = "create" => item = "waiting"
           /\ k = "remove" => item = "ended" /\ tree \notin {"ready", "removed"}
<1>1. git[k] \in {"running", "exited"} => proc[k] = "active"
  BY DEF IInv, GuardianOnRecord
<1>2. op[k] \notin {"none", "succeeded"}
  <2>1. proc[k] = "active" => op[k] # "none"
    BY DEF IInv, ManagerTrail
  <2>2. proc[k] = "active" => op[k] # "succeeded"
    BY DEF IInv, GuardianOnRecord
  <2> QED
    BY <1>1, <2>1, <2>2
<1>3. op[k] \in {"running", "quarantined"}
  BY <1>2 DEF IInv, TypeOK, OpStates
<1> QED
  BY <1>3 DEF IInv, TreeFollowsOperation, DiskAsObserved, WorkingState, Kind

\* A quarantine of a running operation is not seen: its worktree was withheld before.
LEMMA QuarantineUnseen ==
    ASSUME IInv, NEW k \in Kind, op[k] = "running", Quarantined(k), UNCHANGED <<item, disk>>
    PROVE  UNCHANGED Ws!vars
<1>1. tree = WorkingState(k) /\ tree \in {"provisioning", "cleanup_pending"}
  BY DEF IInv, TreeFollowsOperation, WorkingState
<1>2. tree' = "quarantined"
  BY <1>1 DEF Quarantined
<1>3. StatusOf[tree] = "withheld" /\ StatusOf[tree'] = "withheld"
  BY <1>1, <1>2, StatusMeans DEF TreeStates
<1> QED
  BY <1>3 DEF Ws!vars

\* A completion offers the workspace, or settles that it is gone.
LEMMA CompletionShows ==
    ASSUME IInv, NEW k \in Kind, ReadyToComplete(k), Observed(k), Completed(k), UNCHANGED disk
    PROVE  Ws!Offer \/ Ws!Settle
<1>1. op[k] = "running" /\ tree = WorkingState(k)
  BY DEF ReadyToComplete
<1>2. CASE k = "create"
  <2>1. item = "waiting" /\ disk \in Ws!Whole
    BY <1>2, CompletionSees DEF ReadyToComplete, Whole, Ws!Whole
  <2>2. item' = "attached" /\ tree' = "ready"
    BY <1>2 DEF Completed
  <2> QED
    BY <2>1, <2>2, StatusMeans DEF Ws!Offer
<1>3. CASE k = "remove"
  <2>1. item = "ended" /\ disk = "absent"
    BY <1>1, <1>3, RunningMeans, CompletionSees
  <2>2. item' = item /\ tree' = "removed" /\ tree = "cleanup_pending"
    BY <1>1, <1>3 DEF Completed, WorkingState
  <2> QED
    BY <2>1, <2>2, StatusMeans DEF Ws!Settle, TreeStates
<1> QED
  BY <1>2, <1>3 DEF Kind

\* Every step is one of the abstract workspace or does not show in it.
LEMMA WorkspaceStep == IInv /\ [Next]_vars => [Ws!Next]_Ws!vars
<1> SUFFICES ASSUME IInv, [Next]_vars PROVE Ws!Next \/ UNCHANGED Ws!vars
  OBVIOUS
<1>1. TypeOK /\ StatusOf[tree] \in {"ready", "removed", "withheld"}
  BY StatusMeans DEF IInv, TypeOK
<1>2. CASE UNCHANGED <<item, disk, tree>>
  BY <1>2, WorkspaceStutters
<1>3. CASE RequestWorktree
  BY <1>3, StatusMeans DEF RequestWorktree, MayRequest, worldVars, TreeStates, Ws!vars
<1>4. CASE RequestCleanup
  <2>1. Ws!Withdraw
    BY <1>4, StatusMeans DEF RequestCleanup, MayCleanUp, worldVars, TreeStates, Ws!Withdraw
  <2> QED
    BY <2>1 DEF Ws!Next
<1>5. CASE WorkBegins
  <2>1. Ws!Begin
    BY <1>5, StatusMeans DEF WorkBegins, rowVars, worldVars, Ws!Begin
  <2> QED
    BY <2>1 DEF Ws!Next
<1>6. CASE WorkEnds
  <2>1. Ws!Finish
    BY <1>6 DEF WorkEnds, rowVars, worldVars, Ws!Finish
  <2> QED
    BY <2>1 DEF Ws!Next
<1>7. CASE WorkerQuarantines
  <2>1. Ws!Withdraw
    BY <1>7, StatusMeans DEF WorkerQuarantines, worldVars, TreeStates, Ws!Withdraw
  <2> QED
    BY <2>1 DEF Ws!Next
<1>8. CASE EditTree
  <2>1. Ws!Edit
    BY <1>8 DEF EditTree, rowVars, Ws!Edit
  <2> QED
    BY <2>1 DEF Ws!Next
<1>9. ASSUME NEW k \in Kind, Complete(k) PROVE Ws!Next \/ UNCHANGED Ws!vars
  <2>1. UNCHANGED disk /\ mgr[k] = "observed"
    BY <1>9 DEF Complete, worldVars
  <2>2. CASE ReadyToComplete(k) /\ Completed(k)
    BY <2>1, <2>2, CompletionShows DEF Observed, Ws!Next
  <2>3. CASE UNCHANGED <<item, tree>>
    BY <2>1, <2>3, WorkspaceStutters
  <2> QED
    BY <1>9, <2>2, <2>3 DEF Complete
<1>10. ASSUME NEW k \in Kind, QuarantineIfFenced(k) PROVE UNCHANGED Ws!vars
  <2>1. UNCHANGED <<item, disk>>
    BY <1>10 DEF QuarantineIfFenced, worldVars
  <2>2. CASE op[k] = "running" /\ Quarantined(k)
    BY <2>1, <2>2, QuarantineUnseen
  <2>3. CASE UNCHANGED tree
    BY <2>1, <2>3, WorkspaceStutters
  <2> QED
    BY <1>10, <2>2, <2>3 DEF QuarantineIfFenced, OwnerFence
<1>11. ASSUME NEW k \in Kind, GitBegins(k) \/ GitEnds(k) PROVE Ws!Next \/ UNCHANGED Ws!vars
  <2>1. UNCHANGED <<item, tree>> /\ git[k] = "running"
    BY <1>11 DEF GitBegins, GitEnds, rowVars
  <2>2. CASE UNCHANGED disk
    BY <2>1, <2>2, WorkspaceStutters
  <2>3. CASE k = "create" /\ disk' # disk
    <3>1. item = "waiting"
      BY <2>1, <2>3, RunningMeans
    <3>2. Ws!Make
      BY <1>11, <2>1, <2>3, <3>1 DEF GitBegins, GitEnds, Ws!Make
    <3> QED
      BY <3>2 DEF Ws!Next
  <2>4. CASE k = "remove" /\ disk' # disk
    <3>1. item = "ended" /\ StatusOf[tree] = "withheld"
      BY <1>1, <2>1, <2>4, RunningMeans, StatusMeans DEF TypeOK
    <3>2. Ws!TakeAway
      BY <1>11, <2>1, <2>4, <3>1 DEF GitBegins, GitEnds, Ws!TakeAway
    <3> QED
      BY <3>2 DEF Ws!Next
  <2> QED
    BY <2>2, <2>3, <2>4 DEF Kind
<1>12. ASSUME NEW w \in Reconciler, NEW k \in Kind, Reopen(w, k) PROVE UNCHANGED Ws!vars
  <2>1. UNCHANGED <<item, disk>>
    BY <1>12, ReopenMeans DEF worldVars
  <2>2. CASE tree = "quarantined" /\ tree' = WorkingState(k)
    BY <2>1, <2>2, StatusMeans DEF WorkingState, TreeStates, Ws!vars
  <2>3. CASE UNCHANGED tree
    BY <2>1, <2>3, WorkspaceStutters
  <2> QED
    BY <1>12, <2>2, <2>3, ReopenMeans
<1>13. ASSUME NEW w \in Reconciler, NEW k \in Kind, ReconcilerCompletes(w, k)
       PROVE  Ws!Next \/ UNCHANGED Ws!vars
  <2>1. UNCHANGED disk /\ rec[w].at = "observed" /\ rec[w].op = k
    BY <1>13 DEF ReconcilerCompletes, worldVars
  <2>2. CASE ReadyToComplete(k) /\ Completed(k)
    BY <2>1, <2>2, CompletionShows DEF Observed, Ws!Next
  <2>3. CASE UNCHANGED <<item, tree>>
    BY <2>1, <2>3, WorkspaceStutters
  <2> QED
    BY <1>13, <2>2, <2>3 DEF ReconcilerCompletes
<1>14. ASSUME NEW w \in Reconciler, NEW k \in Kind, GiveUp(w, k) PROVE UNCHANGED Ws!vars
  <2>1. UNCHANGED <<item, disk>>
    BY <1>14 DEF GiveUp, worldVars
  <2>2. CASE op[k] = "running" /\ Quarantined(k)
    BY <2>1, <2>2, QuarantineUnseen
  <2>3. CASE UNCHANGED tree
    BY <2>1, <2>3, WorkspaceStutters
  <2>4. Quarantined(k) => op[k] = "running" \/ UNCHANGED tree
    <3>1. CASE ReconcilerFence(w, k) /\ (rec[w].mode = "expired" \/ op[k] = "running")
      BY <1>14, <3>1 DEF GiveUp, ReconcilerFence, IInv, ReconcilerTrail
    <3>2. CASE ~(ReconcilerFence(w, k) /\ (rec[w].mode = "expired" \/ op[k] = "running"))
      BY <1>14, <3>2 DEF GiveUp, RetryEnds
    <3> QED
      BY <3>1, <3>2
  <2> QED
    BY <1>14, <2>2, <2>3, <2>4 DEF GiveUp, RetryEnds
<1>15. CASE UNCHANGED vars
  BY <1>2, <1>15 DEF vars, rowVars, worldVars
<1> QED
  BY <1>2, <1>3, <1>4, <1>5, <1>6, <1>7, <1>8, <1>9, <1>10, <1>11, <1>12, <1>13, <1>14, <1>15,
     WorkspaceStill

\* The lifecycle implements the abstract workspace: offered only whole, edited or not,
\* once withdrawn never again, taken away only after the item has ended, and never with
\* edits that Git sees.
THEOREM WorkspaceImplemented == Spec => ImplementsWorkspace
<1>1. Init => Ws!Init
  BY StatusMeans DEF Init, Ws!Init, TreeStates
<1> QED
  BY <1>1, WorktreeInvariant, WorkspaceStep, PTL DEF Spec, ImplementsWorkspace, Ws!Spec
=============================================================================
