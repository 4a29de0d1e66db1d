--------------------------- MODULE GuardianProofs ---------------------------
(***************************************************************************)
(* Theorems about one launcher, its supervisor and any number of           *)
(* reconcilers that may take it over, each claiming, crashing and          *)
(* reporting late.                                                         *)
(*                                                                         *)
(* The argument: a launcher is recorded before its barrier is written, so  *)
(* a command exists only behind a record; a group once gone stays gone,    *)
(* and only who has seen it gone closes the record; a result is accepted   *)
(* under the lease, while no reconciler can have begun.                    *)
(***************************************************************************)
EXTENDS GuardianProperties, TLAPS

-----------------------------------------------------------------------------
(* The inductive invariant. *)

\* Nothing is left of the launcher's group.
Gone == guardian = "dead" /\ child # "alive" /\ descendant # "alive"

\* How far the supervisor has come, by what exists: the launcher from its start, the
\* record before the release.
Launched ==
    /\ sup = "idle" <=> guardian = "none"
    /\ sup \in {"idle", "spawned"} => row = "none"
    /\ sup = "recorded" => row # "none"
    /\ sup \in {"idle", "spawned", "recorded"} => barrier = "open"
    /\ sup = "abort" => barrier = "closed"

\* Without the byte in its barrier a launcher starts nothing.
Unreleased ==
    barrier # "written" =>
        /\ guardian \notin {"running", "reported"}
        /\ child = "none" /\ descendant = "none"

\* Nothing is released without a record.
Released == barrier = "written" => row # "none"

\* Who says that the group is gone is right.
GoneIsGone ==
    /\ row = "stopped" => Gone
    /\ sup \in {"reaped", "succeeded"} => Gone
    /\ \A w \in Reconciler : rec[w].at = "gone" => Gone

\* Reconcilers begin with a record whose lease has run out, and never if the result was
\* accepted.
Reconciled ==
    \A w \in Reconciler :
        rec[w].at # "idle" => row # "none" /\ ~leaseLive /\ sup # "succeeded"

\* What an accepted result has seen.
Accepted == sup = "succeeded" => row = "stopped" /\ child = "ended"

GuardianInv ==
    /\ TypeOK
    /\ Launched
    /\ Unreleased
    /\ Released
    /\ GoneIsGone
    /\ Reconciled
    /\ Accepted
    /\ StrangerSpared

-----------------------------------------------------------------------------
(* What a step may do to the group. *)

\* No step but a start and a release brings a process of the group to life.
Calmer ==
    /\ guardian' \in GuardianStates
    /\ child' \in ChildStates
    /\ descendant' \in {"none", "alive", "dead"}
    /\ guardian = "none" <=> guardian' = "none"
    /\ guardian' \in {"running", "reported"} => guardian \in {"running", "reported"}
    /\ child \in {"none", "ended"} => child' = child
    /\ child = "none" /\ descendant = "none" => descendant' = "none"
    /\ Gone => Gone'

GroupTypeOK ==
    /\ guardian \in GuardianStates
    /\ child \in ChildStates
    /\ descendant \in {"none", "alive", "dead"}

\* A group that nobody signals stays as it is.
LEMMA SameGroup == GroupTypeOK /\ UNCHANGED groupVars => Calmer
  BY DEF GroupTypeOK, groupVars, Calmer, Gone

\* Termed and Killed only end processes, and under a proven identity they reach nobody
\* else.
LEMMA SignalTerm ==
    GroupTypeOK /\ Owned /\ Signalled(Termed) => Calmer /\ UNCHANGED stranger
<1> SUFFICES ASSUME GroupTypeOK, Owned, Signalled(Termed)
             PROVE  Calmer /\ UNCHANGED stranger
  OBVIOUS
<1>1. "guardian" \in Members
  BY DEF Owned, GuardianAlive, Members, Member
<1>2. Termed /\ UNCHANGED stranger
  BY <1>1 DEF Signalled
<1> DEFINE After(dies) == CASE guardian = "blocked" -> "dead"
                            [] guardian = "running" /\ "child" \in dies -> "reported"
                            [] OTHER -> guardian
<1>3. PICK dies \in SUBSET Members :
        /\ child' = IF "child" \in dies THEN "killed" ELSE child
        /\ descendant' = IF "descendant" \in dies THEN "dead" ELSE descendant
        /\ guardian' = After(dies)
  BY <1>2, Zenon DEF Termed
<1>4. /\ "child" \in dies => child = "alive"
      /\ "descendant" \in dies => descendant = "alive"
  BY DEF Members
<1>5. /\ guardian' \in GuardianStates /\ guardian' # "none"
      /\ guardian' = "running" => guardian = "running"
      /\ guardian' = "reported" => guardian \in {"running", "reported"}
  <2>1. \/ guardian = "blocked" /\ After(dies) = "dead"
        \/ guardian = "running" /\ After(dies) = "reported"
        \/ After(dies) = guardian
    BY Zenon
  <2> QED
    BY <1>3, <2>1 DEF GroupTypeOK, GuardianStates, Owned, GuardianAlive
<1> HIDE DEF After
<1> QED
  BY <1>2, <1>3, <1>4, <1>5
     DEF GroupTypeOK, GuardianStates, ChildStates, Calmer, Gone, Owned, GuardianAlive

LEMMA SignalKill ==
    GroupTypeOK /\ Owned /\ Signalled(Killed) => Calmer /\ UNCHANGED stranger
<1> SUFFICES ASSUME GroupTypeOK, Owned, Signalled(Killed)
             PROVE  Calmer /\ UNCHANGED stranger
  OBVIOUS
<1>1. "guardian" \in Members
  BY DEF Owned, GuardianAlive, Members, Member
<1>2. Killed /\ UNCHANGED stranger
  BY <1>1 DEF Signalled
<1> QED
  BY <1>2 DEF Killed, GroupTypeOK, GuardianStates, ChildStates, Calmer, Gone, Owned, GuardianAlive

\* A launcher that was started and of which nothing is found is gone.
LEMMA EmptyIsGone ==
    GroupTypeOK /\ guardian # "none" /\ ~Populated => Gone
<1> SUFFICES ASSUME GroupTypeOK, guardian # "none", Members = {}
             PROVE  Gone
  BY DEF Populated
<1>1. /\ ~GuardianAlive /\ child # "alive" /\ descendant # "alive"
  BY DEF Members, Member
<1> QED
  BY <1>1 DEF GroupTypeOK, GuardianStates, GuardianAlive, Gone

-----------------------------------------------------------------------------
(* The steps, each from the whole invariant. *)

LEMMA InvInit == Init => GuardianInv
<1> SUFFICES ASSUME Init
             PROVE  GuardianInv
  OBVIOUS
<1>1. Idle \in [at : ReconcilerSteps, seen : SUBSET Member] /\ Idle.at = "idle"
  BY DEF Idle, ReconcilerSteps
<1>2. /\ rec \in [Reconciler -> [at : ReconcilerSteps, seen : SUBSET Member]]
      /\ \A w \in Reconciler : rec[w].at = "idle"
  <2>1. rec = [w \in Reconciler |-> Idle]
    BY DEF Init
  <2> QED
    BY <1>1, <2>1
<1>3. TypeOK
  <2>1. 0 \in 0..MaxFaults
    BY GuardianAssumption
  <2> QED
    BY <1>2, <2>1, Zenon
       DEF Init, TypeOK, RowStates, GuardianStates, ChildStates, SupervisorSteps
<1> QED
  BY <1>2, <1>3
     DEF Init, GuardianInv, Launched, Unreleased, Released, GoneIsGone, Reconciled, Accepted,
         StrangerSpared

\* The supervisor starts the launcher, records it, releases it or gives it up.
LEMMA StartSteps ==
    GuardianInv /\ (Spawn \/ Record \/ Release \/ AbortEnds) => GuardianInv'
<1> SUFFICES ASSUME GuardianInv, Spawn \/ Record \/ Release \/ AbortEnds
             PROVE  GuardianInv'
  OBVIOUS
<1> USE DEF GuardianInv, TypeOK, Launched, Unreleased, Released, GoneIsGone, Reconciled,
            Accepted, StrangerSpared, Gone, rowVars, groupVars, pipeVars,
            RowStates, GuardianStates, ChildStates, SupervisorSteps
<1>1. CASE Spawn
  BY <1>1 DEF Spawn
<1>2. CASE Record
  BY <1>2 DEF Record
<1>3. CASE Release
  BY <1>3 DEF Release
<1>4. CASE AbortEnds
  BY <1>4 DEF AbortEnds
<1> QED
  BY <1>1, <1>2, <1>3, <1>4

\* The supervisor is past the release or gives up: it starts nothing, touches neither the
\* record nor the reconcilers, and is done with the group only when it is gone.
Ending ==
    /\ Calmer
    /\ UNCHANGED <<rowVars, stranger, rec, faults>>
    /\ sup \notin {"idle", "succeeded"}
    /\ sup' \in {"ending", "termed", "killed", "closing", "reaped", "failed", "crashed"}
    /\ sup' = "reaped" => Gone
    /\ barrier' = barrier \/ (barrier = "open" /\ barrier' = "closed")
    /\ control' \in BOOLEAN /\ proven' \in BOOLEAN

LEMMA EndingFrame == GuardianInv /\ Ending => GuardianInv'
<1> SUFFICES ASSUME GuardianInv, Ending
             PROVE  GuardianInv'
  OBVIOUS
<1> USE DEF GuardianInv, Ending, rowVars
<1>1. TypeOK'
  BY DEF TypeOK, Calmer, SupervisorSteps
<1>2. Launched'
  BY DEF Launched, Calmer
<1>3. Unreleased'
  BY DEF Unreleased, Calmer
<1>4. Released'
  BY DEF Released
<1>5. GoneIsGone'
  BY DEF GoneIsGone, Calmer
<1>6. Reconciled'
  BY DEF Reconciled
<1>7. Accepted' /\ StrangerSpared'
  BY DEF Accepted, StrangerSpared
<1> QED
  BY <1>1, <1>2, <1>3, <1>4, <1>5, <1>6, <1>7

\* The end of a command, by its supervisor.
LEMMA EndSteps ==
    ASSUME GuardianInv,
           \/ Collect \/ Terminate \/ TerminateFurther \/ AwaitExit
           \/ TerminationBreaks \/ SupervisorCrashes
    PROVE  GuardianInv'
<1> SUFFICES Ending
  BY EndingFrame
<1>1. /\ GroupTypeOK
      /\ control \in BOOLEAN /\ proven \in BOOLEAN
      /\ sup # "idle" => guardian # "none"
  BY DEF GuardianInv, TypeOK, GroupTypeOK, Launched
<1>2. UNCHANGED groupVars => Calmer
  BY <1>1, SameGroup
<1>3. CASE Collect
  BY <1>1, <1>2, <1>3 DEF Collect, Ending, pipeVars
<1>4. CASE Terminate
  <2>1. Calmer /\ UNCHANGED stranger
    BY <1>1, <1>2, <1>4, SignalTerm DEF Terminate, groupVars
  <2>2. sup' = "reaped" => Gone
    BY <1>1, <1>4, EmptyIsGone DEF Terminate, GroupGone, Broken
  <2> QED
    BY <1>1, <1>4, <2>1, <2>2 DEF Terminate, Broken, Ending
<1>5. CASE TerminateFurther
  <2>1. Calmer /\ UNCHANGED stranger
    BY <1>1, <1>2, <1>5, SignalKill DEF TerminateFurther, groupVars
  <2>2. sup' = "reaped" => Gone
    BY <1>1, <1>5, EmptyIsGone DEF TerminateFurther, GroupGone, Broken
  <2> QED
    BY <1>1, <1>5, <2>1, <2>2 DEF TerminateFurther, Broken, Ending
<1>6. CASE AwaitExit
  <2>1. sup' = "reaped" => Gone
    BY <1>1, <1>6, EmptyIsGone DEF AwaitExit, Broken
  <2> QED
    BY <1>1, <1>2, <1>6, <2>1 DEF AwaitExit, Broken, Ending, pipeVars
<1>7. CASE TerminationBreaks
  BY <1>1, <1>2, <1>7 DEF TerminationBreaks, Broken, Ending, pipeVars
<1>8. CASE SupervisorCrashes
  BY <1>1, <1>2, <1>8 DEF SupervisorCrashes, Ending
<1> QED
  BY <1>3, <1>4, <1>5, <1>6, <1>7, <1>8

\* The record is closed under the lease, before any reconciler; the lease may run out.
LEMMA LeaseSteps == GuardianInv /\ (Clear \/ LeaseLapses) => GuardianInv'
<1> SUFFICES ASSUME GuardianInv, Clear \/ LeaseLapses
             PROVE  GuardianInv'
  OBVIOUS
<1> USE DEF GuardianInv, Clear, LeaseLapses, rowVars, groupVars, pipeVars
<1>1. TypeOK'
  BY DEF TypeOK, RowStates, SupervisorSteps
<1>2. Launched' /\ Unreleased' /\ Released'
  BY DEF Launched, Unreleased, Released
<1>3. Gone' = Gone
  BY DEF Gone
<1>4. GoneIsGone'
  BY <1>3 DEF GoneIsGone
<1>5. Reconciled'
  BY DEF Reconciled
<1>6. Accepted' /\ StrangerSpared'
  BY DEF Accepted, StrangerSpared
<1> QED
  BY <1>1, <1>2, <1>4, <1>5, <1>6

\* The group's own steps: a fork needs a command that runs, the rest only ends.
LEMMA GroupSteps == GuardianInv /\ (GroupStep \/ FenceLapses) => GuardianInv'
<1> SUFFICES ASSUME GuardianInv, GroupStep \/ FenceLapses
             PROVE  GuardianInv'
  OBVIOUS
<1> USE DEF GuardianInv, TypeOK, Launched, Unreleased, Released, GoneIsGone, Reconciled,
            Accepted, StrangerSpared, Gone, rowVars, groupVars, pipeVars,
            RowStates, GuardianStates, ChildStates, SupervisorSteps
<1>1. CASE GuardianReads
  BY <1>1 DEF GuardianReads
<1>2. CASE ChildForks
  BY <1>2 DEF ChildForks
<1>3. CASE ChildEnds
  BY <1>3 DEF ChildEnds
<1>4. CASE DescendantEnds
  BY <1>4 DEF DescendantEnds
<1>5. CASE GuardianExits
  BY <1>5 DEF GuardianExits
<1>6. CASE IdReused
  BY <1>6 DEF IdReused
<1>7. CASE FenceLapses
  BY <1>7, GuardianAssumption DEF FenceLapses
<1> QED
  BY <1>1, <1>2, <1>3, <1>4, <1>5, <1>6, <1>7 DEF GroupStep

\* What a reconciler may do: it begins with a record nobody's lease covers, closes a
\* record only over a group that is gone, and leaves the other reconcilers alone.
Reconciling(w) ==
    /\ Calmer
    /\ UNCHANGED <<leaseLive, pipeVars, stranger, sup, proven>>
    /\ row' \in RowStates
    /\ row' = "none" <=> row = "none"
    /\ fence' \in Reconciler \cup {Nobody} /\ fenceLapsed' \in BOOLEAN
    /\ faults' \in 0..MaxFaults
    /\ rec' \in [Reconciler -> [at : ReconcilerSteps, seen : SUBSET Member]]
    /\ \A v \in Reconciler \ {w} : rec'[v] = rec[v]
    /\ rec[w].at = "idle" => row \in {"active", "quarantined"} /\ ~leaseLive
    /\ row' = "stopped" => row = "stopped" \/ Gone
    /\ row' # row => rec[w].at # "idle"
    /\ rec'[w].at = "gone" => Gone

LEMMA ReconcilingFrame ==
    ASSUME GuardianInv, NEW w \in Reconciler, Reconciling(w)
    PROVE  GuardianInv'
<1> USE DEF GuardianInv, Reconciling, pipeVars
<1>1. TypeOK'
  BY DEF TypeOK, Calmer
<1>2. Launched'
  BY DEF Launched, Calmer
<1>3. Unreleased'
  BY DEF Unreleased, Calmer
<1>4. Released'
  BY DEF Released
<1>5. GoneIsGone'
  BY DEF GoneIsGone, Calmer
<1>6. sup # "succeeded"
  BY DEF Reconciled, Accepted
<1>7. Reconciled'
  BY <1>6 DEF Reconciled
<1>8. Accepted' /\ StrangerSpared'
  BY <1>6 DEF Accepted, StrangerSpared
<1> QED
  BY <1>1, <1>2, <1>3, <1>4, <1>5, <1>7, <1>8

LEMMA ReconcilerActs ==
    ASSUME GuardianInv, NEW w \in Reconciler,
           Claim(w) \/ Reconciles(w) \/ InspectionFails(w) \/ ReconcilerCrashes(w)
    PROVE  Reconciling(w)
<1>1. /\ GroupTypeOK
      /\ row \in RowStates /\ faults \in 0..MaxFaults
      /\ fence \in Reconciler \cup {Nobody} /\ fenceLapsed \in BOOLEAN
      /\ rec \in [Reconciler -> [at : ReconcilerSteps, seen : SUBSET Member]]
      /\ rec[w].at # "idle" => row # "none" /\ guardian # "none"
      /\ rec[w].at = "gone" => Gone
  BY DEF GuardianInv, TypeOK, GroupTypeOK, Launched, Reconciled, GoneIsGone
<1>2. UNCHANGED groupVars => Calmer
  BY <1>1, SameGroup
<1> USE DEF ReconcilerSteps, rowVars, RecTo
<1>3. CASE Claim(w)
  BY <1>1, <1>2, <1>3 DEF Claim, Reconciling
<1>4. CASE Inspect(w)
  <2>1. Members \in SUBSET Member
    BY DEF Members
  <2> DEFINE found == CASE Owned -> [at |-> "seen", seen |-> Members]
                        [] ~Owned /\ ~Populated -> [at |-> "gone", seen |-> {}]
                        [] OTHER -> [at |-> "unproven", seen |-> {}]
  <2>2. rec' = [rec EXCEPT ![w] = found]
    BY <1>4, Zenon DEF Inspect
  <2>3. \/ found = [at |-> "seen", seen |-> Members]
        \/ found = [at |-> "gone", seen |-> {}] /\ ~Populated
        \/ found = [at |-> "unproven", seen |-> {}]
    BY Zenon
  <2> HIDE DEF found
  <2>4. /\ found \in [at : ReconcilerSteps, seen : SUBSET Member]
        /\ found.at = "gone" => ~Populated
    BY <2>1, <2>3
  <2> QED
    BY <1>1, <1>2, <1>4, <2>2, <2>4, EmptyIsGone DEF Inspect, Reconciling
<1>5. CASE SendTerm(w)
  <2>1. Calmer /\ UNCHANGED stranger
    BY <1>1, <1>2, <1>5, SignalTerm DEF SendTerm, groupVars
  <2> QED
    BY <1>1, <1>5, <2>1 DEF SendTerm, Reconciling
<1>6. CASE SendKill(w)
  <2>1. Calmer /\ UNCHANGED stranger
    BY <1>1, <1>2, <1>6, SignalKill DEF SendKill, groupVars
  <2>2. \/ RecTo(w, "gone") /\ ~Populated
        \/ RecTo(w, "killed")
        \/ RecTo(w, "unproven")
    BY <1>6 DEF SendKill
  <2> QED
    BY <1>1, <1>6, <2>1, <2>2, EmptyIsGone DEF SendKill, Reconciling
<1>7. CASE AwaitKilled(w)
  BY <1>1, <1>2, <1>7, EmptyIsGone DEF AwaitKilled, Reconciling
<1>8. CASE Report(w)
  BY <1>1, <1>2, <1>8 DEF Report, Reconciling, FenceHeld, RowStates, Idle
<1>9. CASE InspectionFails(w)
  BY <1>1, <1>2, <1>9, GuardianAssumption DEF InspectionFails, Reconciling
<1>10. CASE ReconcilerCrashes(w)
  BY <1>1, <1>2, <1>10, GuardianAssumption DEF ReconcilerCrashes, Reconciling, Idle
<1> QED
  BY <1>3, <1>4, <1>5, <1>6, <1>7, <1>8, <1>9, <1>10 DEF Reconciles

LEMMA InvStep == GuardianInv /\ [Next]_vars => GuardianInv'
<1> SUFFICES ASSUME GuardianInv, [Next]_vars
             PROVE  GuardianInv'
  OBVIOUS
<1>1. CASE SupervisorStep \/ SupervisorCrashes \/ LeaseLapses
  BY <1>1, StartSteps, EndSteps, LeaseSteps DEF SupervisorStep
<1>2. CASE GroupStep \/ FenceLapses
  BY <1>2, GroupSteps
<1>3. ASSUME NEW w \in Reconciler,
             Claim(w) \/ Reconciles(w) \/ InspectionFails(w) \/ ReconcilerCrashes(w)
      PROVE  GuardianInv'
  BY <1>3, ReconcilerActs, ReconcilingFrame
<1>4. CASE UNCHANGED vars
  BY <1>4
     DEF vars, rowVars, groupVars, pipeVars, GuardianInv, TypeOK, Launched, Unreleased,
         Released, GoneIsGone, Reconciled, Accepted, StrangerSpared, Gone
<1> QED
  BY <1>1, <1>2, <1>3, <1>4 DEF Next

-----------------------------------------------------------------------------
(* The theorems. *)

\* What ties launcher, record, supervisor and reconcilers together holds in every
\* reachable state, and with it the type invariant.
THEOREM GuardianInvariant == Spec => []GuardianInv
<1> QED
  BY InvInit, InvStep, PTL DEF Spec

\* For any number of reconcilers that race, crash and lose their fences, and a supervisor
\* that dies at any step: a command and what it leaves behind run only while their
\* launcher is on record (codex_worker.py:546, process_reconciler.py:354).
THEOREM CommandOnRecordAlways == Spec => []CommandOnRecord
<1>1. GuardianInv => CommandOnRecord
  <2> SUFFICES ASSUME GuardianInv, Members \cap {"child", "descendant"} # {}
               PROVE  row \in {"active", "quarantined"}
    BY DEF CommandOnRecord
  <2>1. child = "alive" \/ descendant = "alive"
    BY DEF Members, Member
  <2>2. row # "none"
    BY <2>1 DEF GuardianInv, TypeOK, Unreleased, Released
  <2>3. row # "stopped"
    BY <2>1 DEF GuardianInv, GoneIsGone, Gone
  <2> QED
    BY <2>2, <2>3 DEF GuardianInv, TypeOK, RowStates
<1> QED
  BY <1>1, GuardianInvariant, PTL

\* No process that has reused the recorded id is ever signalled, by the supervisor or by
\* any of the reconcilers (README.md:63-64, 70-71).
THEOREM StrangerSparedAlways == Spec => []StrangerSpared
<1>1. GuardianInv => StrangerSpared
  BY DEF GuardianInv
<1> QED
  BY <1>1, GuardianInvariant, PTL

\* A result is accepted only once its command has ended by itself, its group is gone and
\* its record is closed, and no reconciler undoes any of it (README.md:60-62).
THEOREM ResultAfterReapAlways == Spec => []ResultAfterReap
<1>1. GuardianInv => ResultAfterReap
  BY DEF GuardianInv, Accepted, GoneIsGone, Gone, Members, Member, GuardianAlive,
         ResultAfterReap
<1> QED
  BY <1>1, GuardianInvariant, PTL
=============================================================================
