------------------------- MODULE WorktreeProperties -------------------------
(***************************************************************************)
(* What the worktree lifecycle promises while managers and reconcilers     *)
(* crash, stall and overlap.                                               *)
(***************************************************************************)
EXTENDS Worktrees

\* A Git command that may still change the disk belongs to an operation whose
\* guardian is recorded and not yet declared stopped: a crash or a stale fence
\* between spawning, recording and releasing leaves no command nobody knows of
\* (worktrees.py:287, storage.py:4335, 4416).
GitOnlyWhileRecorded ==
    \A k \in Kind : git[k] \in {"running", "exited"} => proc[k] = "active"

\* The worktree row and its two operation rows, written by seven transactions,
\* tell the same story: at most one operation is unfinished, the worktree is in
\* that operation's working state exactly while it runs, and a removed worktree
\* is one whose removal succeeded.
TreeFollowsOperation ==
    /\ \A k \in Kind : op[k] = "running" <=> tree = WorkingState(k)
    /\ \A k \in Kind : op[k] = "quarantined" => tree = "quarantined"
    /\ op["remove"] # "none" => op["create"] = "succeeded"
    /\ tree = "removed" <=> op["remove"] = "succeeded"
    /\ item # "waiting" <=> op["create"] = "succeeded"

\* A lifecycle is declared complete only on what is on the disk at that moment, however
\* long ago it was inspected: a ready worktree is whole, with nothing of it still being
\* written or taken back, a removed one is gone, and the command behind it has ended with
\* its output kept (worktrees.py:1687, 1710).
CompletionWhole ==
    [][/\ tree # "ready" /\ tree' = "ready" => disk \in Whole
       /\ tree # "removed" /\ tree' = "removed" => disk = "absent"
       /\ \A k \in Kind :
             op[k] # "succeeded" /\ op'[k] = "succeeded" =>
                 proc[k] = "stopped" /\ git[k] = "gone" /\ k \in logs]_vars

-----------------------------------------------------------------------------
(* The abstract workspace. *)

\* managed_worktrees.state, as far as it matters to whoever works in the worktree.
StatusOf ==
    [s \in TreeStates |->
        CASE s = "ready" -> "ready" [] s = "removed" -> "removed" [] OTHER -> "withheld"]

Ws == INSTANCE Workspace WITH status <- StatusOf[tree]

\* Rows, fences, guardians and their crashes never show in the workspace: it is offered
\* only whole, once withdrawn never again, and taken away only after the item has ended,
\* never with edits that Git sees, though cleanup looks for them long before Git starts
\* (worktrees.py:1516, 1530; storage.py:4198, 4680, 4846).
ImplementsWorkspace == Ws!Spec

-----------------------------------------------------------------------------
(* Liveness *)

\* Leases and fences run out as time passes, a released child ends, and operators
\* keep running worktree-reconcile, with --retry-quarantined, to its end.  The
\* manager of an operation owes nothing.
ReconciliationFairness ==
    /\ \A k \in Kind :
          /\ WF_vars(LeaseLapses(k))
          /\ WF_vars(FenceLapses(k) /\ ~Held(k))
          /\ WF_vars(GitEnds(k))
          /\ WF_vars(\E w \in Reconciler : ClaimExpired(w, k))
          /\ WF_vars(\E w \in Reconciler : ClaimQuarantined(w, k))
    /\ \A w \in Reconciler : WF_vars(\E k \in Kind : ReconcilerStep(w, k))

FairSpec == Spec /\ ReconciliationFairness

\* No operation runs for ever, whatever became of its manager: it succeeds or is
\* quarantined for the operator.
OperationResolved ==
    \A k \in Kind : op[k] = "running" ~> op[k] \in {"succeeded", "quarantined"}

\* Quarantine is not the end of exact work: if Git did finish what was asked, its
\* guardian is on record and its output exists, a retry adopts it, unless somebody
\* has changed the source or the branch meanwhile (README.md:77-79).
ExactStateAdopted ==
    \A k \in Kind :
        /\ op[k] = "quarantined"
        /\ proc[k] # "none"
        /\ k \in logs
        /\ k \in exitOk
        ~> op[k] = "succeeded" \/ drift # {}
=============================================================================
