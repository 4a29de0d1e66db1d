------------------------- MODULE GuardianProperties -------------------------
(***************************************************************************)
(* What the launcher protocol promises between a supervisor that may die   *)
(* at any step, the command it runs and the reconcilers that clean up.     *)
(***************************************************************************)
EXTENDS Guardian

\* A command, or what it left in its group, runs only while its launcher is on
\* record as not stopped: a crash leaves no process that nobody knows of, and no
\* record is closed over a live group (codex_worker.py:546, process_reconciler.py:354).
CommandOnRecord ==
    Members \cap {"child", "descendant"} # {} => row \in {"active", "quarantined"}

\* A process that has reused the recorded id is never signalled, neither by the
\* supervisor nor by two reconcilers at work at once (README.md:63-64, 70-71).
StrangerSpared == stranger # "signalled"

\* A result is accepted only when the command has ended by itself, its whole
\* group was seen to be gone and its record is closed (README.md:60-62).
ResultAfterReap ==
    sup = "succeeded" => row = "stopped" /\ child = "ended" /\ Members = {}

-----------------------------------------------------------------------------
(* Liveness *)

\* A launcher reads its pipes, a command and its descendants end, leases and
\* fences run out, and reconcilers keep coming back, --retry-quarantined
\* included.  The supervisor owes nothing: it may hang, or hold a pipe open.
GuardianFairness ==
    /\ WF_vars(GuardianReads) /\ WF_vars(GuardianExits)
    /\ WF_vars(ChildEnds) /\ WF_vars(DescendantEnds)
    /\ WF_vars(LeaseLapses)
    /\ WF_vars(FenceLapses)
    /\ \A w \in Reconciler : WF_vars(Claim(w)) /\ WF_vars(Reconciles(w))

FairSpec == Spec /\ GuardianFairness

\* No launcher is left behind: a recorded one does not outlive its supervisor's lease for
\* ever, its group empties and its record is closed, unless a stranger has taken its id
\* and the record waits for the operator; one that was never released goes away when its
\* supervisor dies, on record or not.
LauncherResolved ==
    /\ row \in {"active", "quarantined"} ~>
          row = "stopped" \/ (Members = {} /\ stranger # "none")
    /\ sup = "crashed" /\ guardian = "blocked" ~> guardian = "dead"
=============================================================================
