------------------------ MODULE AdmissionProperties ------------------------
(***************************************************************************)
(* What an admission must guarantee, and what the repository says of it.   *)
(***************************************************************************)
EXTENDS Admission

(* Verified on evidence.  The item becomes verified only by an attempt whose own execution
   finished with a passing test, under an admission that is active and of the latest plan,
   over a tree that is still the one that plan lists, with the test file and the runtime of
   the first plan, every admitted resource enabled, and no process left.  The focused gate
   is then the only one required.  (_validate_stage_result, _assert_finished_focused_execution,
   create_focused_test_plan.)                                                            *)
VerifiedOnEvidence ==
    [][item' = "verified" /\ item # "verified" =>
         /\ LiveLease
         /\ gates = "focused"
         /\ execution[attempt].status = "finished" /\ execution[attempt].outcome = "pass"
         /\ pinned[attempt] # 0
         /\ LET n == pinned[attempt] IN
            /\ admissions[n].status = "active"
            /\ admissions[n].plan = execution[attempt].plan
         /\ execution[attempt].plan = Len(plans)
         /\ tree = plans[Len(plans)].tree
         /\ tree.test = plans[1].tree.test /\ runtime = plans[1].runtime
         /\ Required[gates] \subseteq enabled
         /\ process[attempt] = "stopped"]_vars

(* Authority behind every step.  A process is recorded, an execution prepared or finished,
   or a result committed, only while the admission the attempt was claimed under is active,
   the latest plan's, on a ready worktree with its resources enabled; an attempt claimed
   without one does so only while its campaign admits nothing.  So a revocation, a revision,
   a disabled resource or the admission of another item stops the attempt at its next call.
   (_assert_attempt_focused_test_admission and its callers.)                             *)
AuthorityBehindSteps ==
    [][ \A a \in Attempt :
          \/ process'[a] = "active" /\ process[a] # "active"
          \/ execution'[a] # execution[a] /\ execution'[a].status \in {"prepared", "finished"}
          \/ job' = "completed" /\ job # "completed" /\ a = attempt
          => IF pinned[a] = 0 THEN mode = "legacy"
             ELSE /\ admissions[pinned[a]].status = "active"
                  /\ admissions[pinned[a]].plan = Len(plans)
                  /\ ready /\ Required[gates] \subseteq enabled ]_vars

(* An execution is open only while its attempt is the current one of a running job: failure,
   interruption, expiry and reconciliation all end it.  (_end_prepared_focused_execution and
   its callers.)                                                                         *)
PreparedWhileRunning ==
    \A a \in Attempt :
      execution[a].status = "prepared" =>
        job = "running" /\ a = attempt /\ process[a] # "quarantined"

(* The release fence "either commits first and denies release, or commits after the
   already-authorized release" (storage.py, focused_test_guardian_release_fence): a release
   is refused only to a caller without the authority for it.                             *)
ReleaseRefusedWithoutAuthority ==
    [][refusal' = "release" /\ refusal # "release" => ~MayRelease(attempt)]_vars
=============================================================================
