------------------------------ MODULE Guardian ------------------------------
(***************************************************************************)
(* One external command, from the blocked launcher to its reaping: the     *)
(* supervisor of codex_worker.py and worktrees.py, the launcher it starts  *)
(* (the guardian), and the reconcilers of process_reconciler.py that take  *)
(* over when the supervisor's lease has run out.                           *)
(*                                                                         *)
(* The guardian leads a process group of its own.  It reads the barrier    *)
(* before it starts the command, ignores SIGTERM from then on, reports the *)
(* command's status and stays until its supervisor lets go of the control  *)
(* pipe or is gone.  The command may leave a descendant in the group.      *)
(*                                                                         *)
(* Process ids are reused: once the whole group is gone, a stranger may    *)
(* appear under the guardian's id, leading a group of that id.  As long as *)
(* a group has a member its id is taken, which the kernel guarantees.  The *)
(* check of an identity and the signal that follows it at once are one     *)
(* step here: no id is reused between the two.                             *)
(***************************************************************************)
EXTENDS Naturals, FiniteSets

CONSTANTS Reconciler,  \* reconcilers that may claim the process record
          Nobody,      \* marks a record nobody reconciles
          MaxFaults    \* bound: lost reconciliation fences, crashes, failed inspections

ASSUME GuardianAssumption ==
    /\ Nobody \notin Reconciler
    /\ MaxFaults \in Nat

RowStates == {"none", "active", "quarantined", "stopped"}
GuardianStates == {"none", "blocked", "running", "reported", "dead"}
ChildStates == {"none", "alive", "ended", "killed"}
SupervisorSteps == {"idle", "spawned", "recorded", "released", "abort", "ending", "termed",
                    "killed", "closing", "reaped", "succeeded", "failed", "crashed"}
ReconcilerSteps == {"idle", "claimed", "seen", "termed", "killed", "gone", "unproven"}
Member == {"guardian", "child", "descendant"}
Idle == [at |-> "idle", seen |-> {}]

VARIABLES row,         \* external_processes.state of this launcher
          leaseLive,   \* the supervisor's lease has not expired
          fence,       \* the reconciler holding the record
          fenceLapsed, \* its fence has expired
          guardian,    \* the launcher
          child,       \* the command it runs
          descendant,  \* a process the command leaves in the group
          barrier,     \* the barrier pipe: open, closed unwritten, or written
          control,     \* the supervisor holds the control pipe
          stranger,    \* a process that has reused the group's id
          sup,         \* step of the supervisor
          proven,      \* it has the child's own report (child_completed)
          rec,         \* step of each reconciler and the members it has verified
          faults       \* faults so far

rowVars == <<row, leaseLive, fence, fenceLapsed>>
groupVars == <<guardian, child, descendant>>
pipeVars == <<barrier, control>>
vars == <<rowVars, groupVars, pipeVars, stranger, sup, proven, rec, faults>>

TypeOK ==
    /\ row \in RowStates
    /\ leaseLive \in BOOLEAN
    /\ fence \in Reconciler \cup {Nobody}
    /\ fenceLapsed \in BOOLEAN
    /\ guardian \in GuardianStates
    /\ child \in ChildStates
    /\ descendant \in {"none", "alive", "dead"}
    /\ barrier \in {"open", "closed", "written"}
    /\ control \in BOOLEAN
    /\ stranger \in {"none", "there", "signalled"}
    /\ sup \in SupervisorSteps
    /\ proven \in BOOLEAN
    /\ rec \in [Reconciler -> [at : ReconcilerSteps, seen : SUBSET Member]]
    /\ faults \in 0..MaxFaults

Init ==
    /\ row = "none" /\ leaseLive = TRUE
    /\ fence = Nobody /\ fenceLapsed = FALSE
    /\ guardian = "none" /\ child = "none" /\ descendant = "none"
    /\ barrier = "open" /\ control = TRUE
    /\ stranger = "none"
    /\ sup = "idle" /\ proven = FALSE
    /\ rec = [w \in Reconciler |-> Idle]
    /\ faults = 0

-----------------------------------------------------------------------------
(* The process group. *)

GuardianAlive == guardian \in {"blocked", "running", "reported"}

\* list_group of the recorded group id, strangers aside.
Members ==
    {p \in Member : \/ p = "guardian" /\ GuardianAlive
                    \/ p = "child" /\ child = "alive"
                    \/ p = "descendant" /\ descendant = "alive"}

Populated == Members # {} \/ stranger # "none"

\* SIGTERM: a released guardian ignores it, the others may.
Termed ==
    \E dies \in SUBSET Members :
        /\ "guardian" \in dies <=> guardian = "blocked"
        /\ guardian' = CASE guardian = "blocked" -> "dead"
                         [] guardian = "running" /\ "child" \in dies -> "reported"
                         [] OTHER -> guardian
        /\ child' = IF "child" \in dies THEN "killed" ELSE child
        /\ descendant' = IF "descendant" \in dies THEN "dead" ELSE descendant

\* SIGKILL
Killed ==
    /\ guardian' = "dead"
    /\ child' = IF child = "alive" THEN "killed" ELSE child
    /\ descendant' = IF descendant = "alive" THEN "dead" ELSE descendant

\* killpg on the recorded id, whoever leads that group by now.
Signalled(effect) ==
    IF Members # {}
    THEN effect /\ UNCHANGED stranger
    ELSE /\ stranger' = IF stranger = "there" THEN "signalled" ELSE stranger
         /\ UNCHANGED groupVars

\* _owned_group_state and the reconciler's inspections: the recorded identity is
\* what runs under the recorded id, and it is in its group.
Owned == GuardianAlive

-----------------------------------------------------------------------------
(* The supervisor. *)

Spawn ==
    /\ sup = "idle"
    /\ guardian' = "blocked"
    /\ sup' = "spawned"
    /\ UNCHANGED <<rowVars, child, descendant, pipeVars, stranger, proven, rec, faults>>

\* The barrier is written before the record is (a faulty variant).
Record_AfterRelease ==
    /\ sup = "spawned"
    /\ \/ /\ leaseLive
          /\ row' = "active"
          /\ sup' = "recorded"
          /\ UNCHANGED <<barrier, control, guardian, child>>
       \/ /\ barrier' = "written"
          /\ guardian' = "running" /\ child' = "alive"
          /\ sup' = "released"
          /\ UNCHANGED <<row, control>>
    /\ UNCHANGED <<leaseLive, fence, fenceLapsed, descendant, stranger, proven, rec, faults>>

\* A guardian with a stable identity is recorded under the lease; otherwise the
\* barrier and the control pipe are closed on it.
Record ==
    /\ sup = "spawned"
    /\ \/ /\ leaseLive
          /\ row' = "active"
          /\ sup' = "recorded"
          /\ UNCHANGED pipeVars
       \/ /\ barrier' = "closed" /\ control' = FALSE
          /\ sup' = "abort"
          /\ UNCHANGED row
    /\ UNCHANGED <<leaseLive, fence, fenceLapsed, groupVars, stranger, proven, rec, faults>>

\* The release byte reaches a guardian that still waits; it is not written, or
\* finds no reader, if the command was cancelled, the release refused or the
\* guardian killed.
Release ==
    /\ sup = "recorded"
    /\ \/ /\ guardian = "blocked"
          /\ barrier' = "written"
          /\ guardian' = "running" /\ child' = "alive"
          /\ sup' = "released"
       \/ /\ barrier' = "closed"
          /\ sup' = "abort"
          /\ UNCHANGED <<guardian, child>>
    /\ UNCHANGED <<rowVars, descendant, control, stranger, proven, rec, faults>>

\* The unreleased guardian exits at the end of its barrier, or is killed.
AbortEnds ==
    /\ sup = "abort"
    /\ guardian' = "dead"
    /\ control' = FALSE
    /\ sup' = IF row = "none" THEN "failed" ELSE "reaped"
    /\ UNCHANGED <<rowVars, child, descendant, barrier, stranger, proven, rec, faults>>

\* The child's report arrives, or the command is cancelled, runs out of time,
\* breaks a capture, or its guardian vanishes.
Collect ==
    /\ sup = "released"
    /\ \/ guardian = "reported" /\ proven' = TRUE
       \/ proven' = FALSE
    /\ sup' = "ending"
    /\ UNCHANGED <<rowVars, groupVars, pipeVars, stranger, rec, faults>>

\* The child's report is taken for the end of its group (a faulty variant).
GroupGone_OnReport == proven \/ (~Owned /\ ~Populated)
GroupGone == ~Owned /\ ~Populated
GuardianOnly == Owned /\ Members = {"guardian"}

\* A termination that raises: the record stays active.  The Codex worker, if it had
\* the child's report, terminates once more as if it had none.
Broken ==
    \/ sup' = "failed" /\ UNCHANGED proven
    \/ proven /\ sup' = "ending" /\ proven' = FALSE

\* _terminate on entry: nothing left, a guardian to let go of, SIGTERM, or a group
\* that cannot be told.
Terminate ==
    /\ sup = "ending"
    /\ \/ /\ GroupGone
          /\ sup' = "reaped" /\ control' = FALSE
          /\ UNCHANGED <<proven, groupVars, stranger>>
       \/ /\ ~GroupGone /\ proven /\ GuardianOnly
          /\ sup' = "closing" /\ control' = FALSE
          /\ UNCHANGED <<proven, groupVars, stranger>>
       \/ /\ ~GroupGone /\ Owned /\ ~(proven /\ GuardianOnly)
          /\ sup' = "termed" /\ Signalled(Termed)
          /\ UNCHANGED <<proven, control>>
       \/ /\ ~GroupGone /\ ~Owned
          /\ Broken /\ control' \in {control, FALSE}
          /\ UNCHANGED <<groupVars, stranger>>
    /\ UNCHANGED <<rowVars, barrier, rec, faults>>

\* After the grace period: a finished command's guardian is let go, what is left
\* of the group is killed.
TerminateFurther ==
    /\ sup = "termed"
    /\ \/ /\ GroupGone
          /\ sup' = "reaped"
          /\ UNCHANGED <<proven, groupVars, stranger>>
       \/ /\ ~GroupGone /\ proven /\ GuardianOnly
          /\ sup' = "closing"
          /\ UNCHANGED <<proven, groupVars, stranger>>
       \/ /\ ~GroupGone /\ Owned /\ ~(proven /\ GuardianOnly)
          /\ sup' = "killed" /\ Signalled(Killed)
          /\ UNCHANGED proven
       \/ /\ ~GroupGone /\ ~Owned
          /\ Broken
          /\ UNCHANGED <<groupVars, stranger>>
    /\ control' = FALSE
    /\ UNCHANGED <<rowVars, barrier, rec, faults>>

\* The guardian is waited for and the group must be empty within the grace period.
AwaitExit ==
    /\ sup \in {"killed", "closing"}
    /\ ~GuardianAlive
    /\ IF Populated THEN Broken ELSE sup' = "reaped" /\ UNCHANGED proven
    /\ UNCHANGED <<rowVars, groupVars, pipeVars, stranger, rec, faults>>

\* A second cancellation, or an inspection that fails, ends the termination where
\* it stands: the control pipe may stay open.
TerminationBreaks ==
    /\ sup \in {"ending", "termed", "killed", "closing"}
    /\ Broken
    /\ UNCHANGED <<rowVars, groupVars, pipeVars, stranger, rec, faults>>

\* clear_external_process, only after the reap, and the result after that.
Clear ==
    /\ sup = "reaped"
    /\ IF leaseLive /\ row = "active"
       THEN /\ row' = "stopped"
            /\ sup' = IF proven /\ child = "ended" THEN "succeeded" ELSE "failed"
       ELSE UNCHANGED row /\ sup' = "failed"
    /\ UNCHANGED <<leaseLive, fence, fenceLapsed, groupVars, pipeVars, stranger, proven, rec,
                   faults>>

\* The supervisor's process dies, and with it both of its pipes.
SupervisorCrashes ==
    /\ sup \notin {"idle", "succeeded", "crashed"}
    /\ sup' = "crashed"
    /\ barrier' = IF barrier = "open" THEN "closed" ELSE barrier
    /\ control' = FALSE
    /\ UNCHANGED <<rowVars, groupVars, stranger, proven, rec, faults>>

LeaseLapses ==
    /\ leaseLive /\ leaseLive' = FALSE
    /\ UNCHANGED <<row, fence, fenceLapsed, groupVars, pipeVars, stranger, sup, proven, rec, faults>>

-----------------------------------------------------------------------------
(* The guardian, its command and the operating system. *)

\* The end of the barrier without its byte: the launcher exits 125.
GuardianReads ==
    /\ guardian = "blocked" /\ barrier = "closed"
    /\ guardian' = "dead"
    /\ UNCHANGED <<rowVars, child, descendant, pipeVars, stranger, sup, proven, rec, faults>>

ChildForks ==
    /\ child = "alive" /\ descendant = "none"
    /\ descendant' = "alive"
    /\ UNCHANGED <<rowVars, guardian, child, pipeVars, stranger, sup, proven, rec, faults>>

ChildEnds ==
    /\ child = "alive"
    /\ child' = "ended"
    /\ guardian' = IF guardian = "running" THEN "reported" ELSE guardian
    /\ UNCHANGED <<rowVars, descendant, pipeVars, stranger, sup, proven, rec, faults>>

DescendantEnds ==
    /\ descendant = "alive"
    /\ descendant' = "dead"
    /\ UNCHANGED <<rowVars, guardian, child, pipeVars, stranger, sup, proven, rec, faults>>

\* The control pipe ends: by a byte, by its closing, or with its supervisor.
GuardianExits ==
    /\ guardian = "reported" /\ ~control
    /\ guardian' = "dead"
    /\ UNCHANGED <<rowVars, child, descendant, pipeVars, stranger, sup, proven, rec, faults>>

IdReused ==
    /\ guardian = "dead" /\ ~Populated
    /\ stranger' = "there"
    /\ UNCHANGED <<rowVars, groupVars, pipeVars, sup, proven, rec, faults>>

-----------------------------------------------------------------------------
(* The reconciler: ExternalProcessReconciler.reconcile under the store's fence. *)

RecTo(w, step) == rec' = [rec EXCEPT ![w].at = step]
FenceHeld(w) == fence = w /\ ~fenceLapsed

\* The fence of a dead reconciler is never taken over (a faulty variant).
Claim_Released(w) ==
    /\ rec[w].at = "idle"
    /\ ~leaseLive
    /\ row \in {"active", "quarantined"}
    /\ fence = Nobody
    /\ fence' = w /\ fenceLapsed' = FALSE
    /\ RecTo(w, "claimed")
    /\ UNCHANGED <<row, leaseLive, groupVars, pipeVars, stranger, sup, proven, faults>>

\* claim_external_process_reconciliation, with --retry-quarantined or without.
Claim(w) ==
    /\ rec[w].at = "idle"
    /\ ~leaseLive
    /\ row \in {"active", "quarantined"}
    /\ fence = Nobody \/ fenceLapsed
    /\ fence' = w /\ fenceLapsed' = FALSE
    /\ RecTo(w, "claimed")
    /\ UNCHANGED <<row, leaseLive, groupVars, pipeVars, stranger, sup, proven, faults>>

\* The recorded identity is looked up: gone with its whole group, present with the
\* members it has now, or not provable.
Inspect(w) ==
    /\ rec[w].at = "claimed"
    /\ rec' = [rec EXCEPT ![w] =
                  CASE Owned -> [at |-> "seen", seen |-> Members]
                    [] ~Owned /\ ~Populated -> [at |-> "gone", seen |-> {}]
                    [] OTHER -> [at |-> "unproven", seen |-> {}]]
    /\ UNCHANGED <<rowVars, groupVars, pipeVars, stranger, sup, proven, faults>>

\* The identity is read once and trusted (a faulty variant).
SendTerm_Unchecked(w) ==
    /\ rec[w].at = "seen"
    /\ RecTo(w, "termed")
    /\ Signalled(Termed)
    /\ UNCHANGED <<rowVars, pipeVars, sup, proven, faults>>

\* The identity is read again immediately before SIGTERM.
SendTerm(w) ==
    /\ rec[w].at = "seen"
    /\ IF Owned
       THEN RecTo(w, "termed") /\ Signalled(Termed)
       ELSE RecTo(w, "unproven") /\ UNCHANGED <<groupVars, stranger>>
    /\ UNCHANGED <<rowVars, pipeVars, sup, proven, faults>>

\* After the grace period: the group is gone, or its members and its leader are
\* still those verified before and it is killed.
SendKill(w) ==
    /\ rec[w].at = "termed"
    /\ CASE ~Populated -> RecTo(w, "gone") /\ UNCHANGED <<groupVars, stranger>>
         [] Populated /\ Owned /\ Members \subseteq rec[w].seen ->
              RecTo(w, "killed") /\ Signalled(Killed)
         [] OTHER -> RecTo(w, "unproven") /\ UNCHANGED <<groupVars, stranger>>
    /\ UNCHANGED <<rowVars, pipeVars, sup, proven, faults>>

AwaitKilled(w) ==
    /\ rec[w].at = "killed"
    /\ RecTo(w, IF Populated THEN "unproven" ELSE "gone")
    /\ UNCHANGED <<rowVars, groupVars, pipeVars, stranger, sup, proven, faults>>

\* An inspection or a signal raises.
InspectionFails(w) ==
    /\ rec[w].at \in {"claimed", "seen", "termed", "killed"}
    /\ faults < MaxFaults
    /\ faults' = faults + 1
    /\ RecTo(w, "unproven")
    /\ UNCHANGED <<rowVars, groupVars, pipeVars, stranger, sup, proven>>

\* complete_external_process_reconciliation under the fence; a stale one is refused.
Report(w) ==
    /\ rec[w].at \in {"gone", "unproven"}
    /\ IF FenceHeld(w)
       THEN /\ row' = IF rec[w].at = "gone" THEN "stopped" ELSE "quarantined"
            /\ fence' = Nobody
       ELSE UNCHANGED <<row, fence>>
    /\ rec' = [rec EXCEPT ![w] = Idle]
    /\ UNCHANGED <<leaseLive, fenceLapsed, groupVars, pipeVars, stranger, sup, proven, faults>>

ReconcilerCrashes(w) ==
    /\ rec[w].at # "idle"
    /\ faults < MaxFaults
    /\ faults' = faults + 1
    /\ rec' = [rec EXCEPT ![w] = Idle]
    /\ UNCHANGED <<rowVars, groupVars, pipeVars, stranger, sup, proven>>

\* A fence runs out under its holder, a fault, or after the holder has died.
FenceLapses ==
    /\ fence # Nobody /\ ~fenceLapsed
    /\ fenceLapsed' = TRUE
    /\ IF rec[fence].at = "idle"
       THEN UNCHANGED faults
       ELSE faults < MaxFaults /\ faults' = faults + 1
    /\ UNCHANGED <<row, leaseLive, fence, groupVars, pipeVars, stranger, sup, proven, rec>>

-----------------------------------------------------------------------------
SupervisorStep ==
    \/ Spawn \/ Record \/ Release \/ AbortEnds \/ Collect \/ Terminate \/ TerminateFurther
    \/ AwaitExit \/ TerminationBreaks \/ Clear

GroupStep ==
    GuardianReads \/ ChildForks \/ ChildEnds \/ DescendantEnds \/ GuardianExits \/ IdReused

Reconciles(w) ==
    Inspect(w) \/ SendTerm(w) \/ SendKill(w) \/ AwaitKilled(w) \/ Report(w)

Next ==
    \/ SupervisorStep \/ SupervisorCrashes \/ LeaseLapses \/ GroupStep \/ FenceLapses
    \/ \E w \in Reconciler :
          Claim(w) \/ Reconciles(w) \/ InspectionFails(w) \/ ReconcilerCrashes(w)

Spec == Init /\ [][Next]_vars
=============================================================================
