-------------------------- MODULE SchedulerProofs --------------------------
(***************************************************************************)
(* Theorems about one scheduler over the durable queue, for any lanes,     *)
(* items, limits and bounds.                                               *)
(*                                                                         *)
(* The argument: every step of the scheduler is one of the queue or leaves *)
(* the queue alone, and only TryClaim claims.  A claim that is no longer   *)
(* live never is again, so what is known of the lane that holds it stays   *)
(* known; the lanes, the loop and the threads move in three ways, by a     *)
(* step of one lane (LaneMoves), by a step beside the lanes (Beside), or   *)
(* by one of the loop.                                                     *)
(***************************************************************************)
EXTENDS SchedulerProperties, JobStoreProofs

-----------------------------------------------------------------------------
(* The inductive invariant. *)

\* The run of a scheduler, before it ends.
Going == {"recovering", "claiming", "waiting", "raised"}

LaneRecord == [at : LaneSteps, job : Attempt \cup {NoClaim}, worker : WorkerStates,
               beat : BeatStates, outcome : Outcomes, cancel : BOOLEAN]
ThreadRecord == [at : {"none", "recovering", "claiming", "inspecting", "finished", "raised"},
                 of : Attempt \cup {NoClaim}, got : SUBSET Job, counted : BOOLEAN]
RoundRecord == [tried : SUBSET Lane, last : Role \cup {"none"}, progressed : BOOLEAN]

Finished(a) == [Vacant EXCEPT !.at = "done", !.job = a]

\* The attempt has been made: its token was given out by some claim.
Made(a) == a[2] <= attemptCount[a[1]]

\* A lane that is not free has the token of an attempt made; a free one and one that is
\* done have nothing else.
LanesStand ==
    \A l \in Lane :
        /\ lane[l].at = "free" => lane[l] = Vacant
        /\ lane[l].at # "free" => lane[l].job \in Attempt /\ Made(lane[l].job)
        /\ lane[l].at = "done" => lane[l] = Finished(lane[l].job)

\* Which lanes are busy, and which are still to be given back, at each step of the loop.
LoopStands ==
    /\ main \in {"off", "returned", "stopped"} => Active = {}
    /\ main \in {"givingback", "lastrecovery"} => \A l \in Active : Done(l)
    /\ main = "stopping" => closing = Active
    /\ main = "givingback" => closing \subseteq Active
    /\ main \in {"lastrecovery", "stopped"} => closing = {}
    /\ main = "claiming" => thread[Loop] = NoThread

\* A job that recovery has returned is not claimed again before the loop hears of it.
ThreadsStand ==
    /\ \A w \in Thread : thread[w].at = "inspecting" => thread[w].of \in Attempt
    /\ \A j \in thread[Loop].got : jobStatus[j] # "running"

\* A lane that was, or is to be, cancelled during the run has lost its claim.
Lost(r) == r.cancel \/ r.outcome = "cancelled"
CancelledLost ==
    main \in Going => \A l \in Lane : Lost(lane[l]) => ~LiveLease(lane[l].job)

\* A lane is done with a claim that has ended or is no longer answered for.
DoneSettled ==
    main \in Going =>
        \A l \in Lane : Done(l) /\ lane[l].job \in mine => ~LiveLease(lane[l].job)

MineMade == \A a \in mine : Made(a)

\* What a lane judges is what its worker returned under a heartbeat that goes on; it stops
\* its worker only when it has ceased to wait for it.
Judged(r) ==
    /\ r.outcome \in {"returned", "valid"} => r.beat = "on" /\ r.at \in {"gathering", "holding"}
    /\ r.at = "running" => r.worker \notin {"stopping", "ended"}
LanesJudged == \A l \in Lane : Judged(lane[l])

\* What the store refuses to give back.
Refused(a) == Unresolved(a) \/ interruptAt[a[1]] # 0

\* The live claims of a scheduler that shuts down are still to be given back, or refused.
ToGiveBack ==
    /\ main = "stopping" =>
          \A a \in mine : LiveLease(a) => \E l \in closing : lane[l].job = a
    /\ main \in {"givingback", "lastrecovery", "stopped"} =>
          \A a \in mine : LiveLease(a) => Refused(a) \/ \E l \in closing : lane[l].job = a

QueueInv == TypeOK /\ StageInv /\ ControlInv

RunInv ==
    /\ SchedulerTypeOK
    /\ LanesStand
    /\ LoopStands
    /\ ThreadsStand
    /\ CancelledLost
    /\ DoneSettled
    /\ MineMade
    /\ NoClaimForgotten
    /\ LanesJudged
    /\ ToGiveBack

SchedulerInv == QueueInv /\ RunInv

-----------------------------------------------------------------------------
(* What the queue's steps do to claims already made. *)

\* Every step of the queue that the scheduler may take but a claim.
UnclaimedStep ==
    \/ ItemStep \/ RecoverExpiredLeases \/ (\E j \in Job : LeaseLapses(j))
    \/ WorkerStep \/ OperatorStep \/ ReconcilerStep
    \/ UNCHANGED vars

\* No job starts, no attempt is made and no claim comes back to life.
Carried ==
    /\ \A j \in Job : jobStatus'[j] = "running" => jobStatus[j] = "running"
    /\ attemptCount' = attemptCount
    /\ \A a \in Attempt : LiveLease(a)' => LiveLease(a)

LEMMA UnclaimedQueue == UnclaimedStep => [Next]_vars
  BY DEF UnclaimedStep, Next, QueueStep

LEMMA QueueKeeps == QueueInv /\ [Next]_vars => QueueInv'
  BY TypeNext, StageNext, ControlStep DEF QueueInv

LEMMA UnclaimedKind ==
    ASSUME QueueInv, UnclaimedStep
    PROVE  (\E J \in SUBSET Job : Ends(J)) \/ HangsOn
<1> USE DEF QueueInv
<1>0. {} \in SUBSET Job
  OBVIOUS
<1>1. CASE ItemStep
  BY <1>0, <1>1, ItemKind
<1>2. CASE RecoverExpiredLeases
  BY <1>2, RecoveryKind, RecoveredType
<1>3. ASSUME NEW j \in Job, LeaseLapses(j)
      PROVE  Ends({})
  BY <1>3, NothingEnds DEF LeaseLapses, jobVars, processVars
<1>4. CASE WorkerStep
  BY <1>4, WorkerKinds
<1>5. CASE OperatorStep
  BY <1>5 DEF OperatorStep, HangsOn
<1>6. CASE ReconcilerStep
  <2>1. ASSUME NEW w \in Reconciler, NEW a \in Attempt, ResolveProcess(w, a)
        PROVE  \E J \in SUBSET Job : Ends(J)
    <3>1. {a[1]} \in SUBSET Job
      BY AttemptPair
    <3> QED
      BY <2>1, <3>1, ResolveKind
  <2> QED
    BY <1>6, <2>1 DEF ReconcilerStep, HangsOn
<1>7. CASE UNCHANGED vars
  BY <1>0, <1>7, NothingEnds DEF vars, jobVars, processVars, controlVars
<1> QED
  BY <1>0, <1>1, <1>2, <1>3, <1>4, <1>5, <1>6, <1>7 DEF UnclaimedStep

LEMMA UnclaimedCarries ==
    ASSUME QueueInv, UnclaimedStep
    PROVE  Carried
<1>1. ASSUME NEW J \in SUBSET Job, Ends(J)
      PROVE  Carried
  <2>1. \A j \in Job :
           /\ jobStatus'[j] = "running" => j \notin J /\ jobStatus[j] = "running"
           /\ j \notin J /\ j \in lapsed => j \in lapsed'
    BY <1>1 DEF Ends
  <2>2. attemptCount' = attemptCount
    BY <1>1 DEF Ends
  <2> QED
    BY <2>1, <2>2, AttemptPair DEF Carried, LiveLease
<1>2. CASE HangsOn
  BY <1>2, HangsOnKeeps DEF QueueInv, Keeps, Carried, LiveLease
<1> QED
  BY <1>1, <1>2, UnclaimedKind

\* What the store refuses to give back it goes on refusing, while the claim is live and
\* its worker does not clear its process.
LEMMA RefusalStays ==
    ASSUME QueueInv, UnclaimedStep, NEW a \in Attempt, Refused(a), LiveLease(a)',
           ~ClearExternalProcess(a)
    PROVE  Refused(a)'
<1>1. ASSUME NEW J \in SUBSET Job, Ends(J)
      PROVE  Refused(a)'
  <2>1. a[1] \in Job /\ a[1] \notin J
    BY <1>1, AttemptPair DEF Ends, LiveLease
  <2> QED
    BY <1>1, <2>1 DEF Ends, Refused, Unresolved
<1>2. CASE HangsOn
  <2> USE DEF QueueInv
  <2>0. \A b \in Attempt : b[1] \in Job /\ b[2] \in Nat \ {0}
    BY AttemptPair DEF AttemptNo
  <2>1. interruptAt[a[1]] # 0 => interruptAt'[a[1]] # 0
    BY <1>2, <2>0 DEF HangsOn, RequestJobInterrupt, RequestJobResume, RecordExternalProcess,
                ClearExternalProcess, ReconciliationLapses, RecordExternalSession,
                QuarantineProcess, ClaimReconciliation, controlVars, TypeOK
  <2>2. Unresolved(a) => Unresolved(a)'
    BY <1>2 DEF HangsOn, RequestJobInterrupt, RequestJobResume, RecordExternalProcess,
                ClearExternalProcess, ReconciliationLapses, RecordExternalSession,
                QuarantineProcess, ClaimReconciliation, processVars, TypeOK, Unresolved
  <2> QED
    BY <2>1, <2>2 DEF Refused
<1> QED
  BY <1>1, <1>2, UnclaimedKind

\* A claim makes one attempt and revives none.
LEMMA ClaimCarries ==
    ASSUME QueueInv, NEW j \in Job, ClaimJob(j), NEW new, new = <<j, attemptCount[j] + 1>>
    PROVE  /\ new \in Attempt /\ Made(new)'
           /\ \A a \in Attempt : Made(a) => Made(a)' /\ (LiveLease(a)' => LiveLease(a))
<1>1. Takes(Recovered, j)
  BY ClaimKind DEF QueueInv
<1>2. \A k \in Job : attemptCount[k] \in Nat
  BY BoundAssumption DEF QueueInv, TypeOK
<1>3. \A a \in Attempt : a[1] \in Job /\ a[2] \in Nat
  BY AttemptPair DEF AttemptNo
<1>4. ASSUME NEW a \in Attempt, Made(a)
      PROVE  Made(a)' /\ (LiveLease(a)' => LiveLease(a))
  <2>1. CASE a[1] = j
    BY <1>1, <1>2, <1>3, <1>4, <2>1 DEF Takes, Made, LiveLease
  <2>2. CASE a[1] # j
    BY <1>1, <1>2, <1>3, <1>4, <2>2 DEF Takes, Made, LiveLease
  <2> QED
    BY <2>1, <2>2
<1>5. new \in Attempt /\ Made(new)'
  BY <1>1, <1>2 DEF Takes, Made
<1> QED
  BY <1>4, <1>5

-----------------------------------------------------------------------------
(* Steps of one lane, and steps beside the lanes. *)

\* Lane l, its worker or its heartbeat moves, and its record becomes n.  A lane that ends
\* has settled its claim, unless it was cancelled.
LaneMoves(l, n) ==
    /\ UnclaimedStep
    /\ lane[l].at \notin {"free", "done"}
    /\ n \in LaneRecord /\ lane' = [lane EXCEPT ![l] = n]
    /\ n.job = lane[l].job /\ n.at # "free"
    /\ n.at = "done" => n = Finished(n.job)
    /\ Lost(n) => Lost(lane[l])
    /\ Judged(n)
    /\ n.at = "done" /\ n.job \in mine' /\ LiveLease(n.job)' => Lost(lane[l])
    /\ mine' \in SUBSET mine
    /\ thread' \in [Thread -> ThreadRecord]
    /\ \A w \in Thread : thread'[w].at = "inspecting" => thread'[w].of \in Attempt
    /\ thread'[Loop] = thread[Loop]
    /\ turn' \in Thread \cup {"none"} /\ disturbances' \in 0..MaxDisturbances
    /\ UNCHANGED <<main, round, cursor, results, closing>>

\* The lanes, the loop and the claims answered for stay; nothing clears a process once
\* every lane is done.
Beside ==
    /\ UnclaimedStep
    /\ UNCHANGED <<lane, main, turn, cursor, closing, mine>>
    /\ disturbances' \in 0..MaxDisturbances /\ round' \in RoundRecord /\ results' \in BOOLEAN
    /\ thread' \in [Thread -> ThreadRecord]
    /\ \A w \in Thread : thread'[w].at = "inspecting" => thread'[w].of \in Attempt
    /\ \A j \in thread'[Loop].got : jobStatus'[j] # "running"
    /\ main = "claiming" => thread'[Loop] = NoThread
    /\ (\A l \in Active : Done(l)) => \A a \in Attempt : ~ClearExternalProcess(a)

LEMMA LaneMovesKeeps ==
    ASSUME SchedulerInv, NEW l \in Lane, NEW n, LaneMoves(l, n)
    PROVE  SchedulerInv'
<1>1. Carried
  BY UnclaimedCarries DEF SchedulerInv, LaneMoves
<1>2. /\ lane \in [Lane -> LaneRecord] /\ lane' \in [Lane -> LaneRecord]
      /\ lane'[l] = n /\ \A m \in Lane \ {l} : lane'[m] = lane[m]
  BY DEF SchedulerInv, RunInv, SchedulerTypeOK, LaneMoves, LaneRecord
<1>3. \A a : Made(a)' <=> Made(a)
  BY <1>1 DEF Carried, Made
<1>4. \A m \in Lane : lane'[m].job = lane[m].job /\ (Lost(lane'[m]) => Lost(lane[m]))
  BY <1>2 DEF LaneMoves
<1>5. Active' = Active /\ l \in Active /\ ~Done(l)
  BY <1>2 DEF LaneMoves, Active, Done
<1>6. \A a \in Attempt : LiveLease(a)' => LiveLease(a)
  BY <1>1 DEF Carried
<1>7. mine \in SUBSET Attempt /\ mine' \in SUBSET mine
  BY DEF SchedulerInv, RunInv, SchedulerTypeOK, LaneMoves
<1>8. \A m \in Lane : Lost(lane[m]) => lane[m].at # "free"
  BY DEF SchedulerInv, RunInv, LanesStand, Lost, Vacant
<1>9. \A m \in Lane : lane[m].at # "free" => lane[m].job \in Attempt
  BY DEF SchedulerInv, RunInv, LanesStand
<1>10. QueueInv'
  BY UnclaimedQueue, QueueKeeps DEF SchedulerInv, LaneMoves
<1>11. SchedulerTypeOK'
  BY <1>2, <1>7 DEF SchedulerInv, RunInv, SchedulerTypeOK, LaneMoves, LaneRecord, ThreadRecord
<1>12. LanesStand'
  BY <1>2, <1>3, <1>9 DEF SchedulerInv, RunInv, LanesStand, LaneMoves
<1>13. LoopStands'
  BY <1>5 DEF SchedulerInv, RunInv, LoopStands, LaneMoves
<1>14. ThreadsStand'
  <2>1. \A j \in thread[Loop].got : j \in Job
    BY DEF SchedulerInv, RunInv, SchedulerTypeOK, Thread
  <2> QED
    BY <1>1, <2>1 DEF SchedulerInv, RunInv, ThreadsStand, LaneMoves, Carried
<1>15. CancelledLost'
  BY <1>4, <1>6, <1>8, <1>9 DEF SchedulerInv, RunInv, CancelledLost, LaneMoves
<1>16. DoneSettled'
  <2> SUFFICES ASSUME main \in Going, NEW m \in Lane, Done(m)', lane[m].job \in mine'
               PROVE  ~LiveLease(lane[m].job)'
    BY <1>4 DEF DoneSettled, LaneMoves
  <2>1. lane[m].job \in Attempt
    BY <1>7
  <2>2. CASE m = l
    BY <1>2, <1>6, <2>1, <2>2 DEF SchedulerInv, RunInv, CancelledLost, LaneMoves, Done
  <2>3. CASE m # l
    BY <1>2, <1>6, <1>7, <2>1, <2>3 DEF SchedulerInv, RunInv, DoneSettled, Done
  <2> QED
    BY <2>2, <2>3
<1>17. MineMade'
  BY <1>3, <1>7 DEF SchedulerInv, RunInv, MineMade
<1>18. NoClaimForgotten'
  BY <1>4, <1>6, <1>7 DEF SchedulerInv, RunInv, NoClaimForgotten, LaneMoves
<1>19. LanesJudged'
  BY <1>2 DEF SchedulerInv, RunInv, LanesJudged, LaneMoves
<1>20. ToGiveBack'
  <2>1. main \notin {"givingback", "lastrecovery", "stopped"}
    BY <1>5 DEF SchedulerInv, RunInv, LoopStands
  <2>2. closing \subseteq Lane
    BY DEF SchedulerInv, RunInv, SchedulerTypeOK
  <2> QED
    BY <1>4, <1>6, <1>7, <2>1, <2>2 DEF SchedulerInv, RunInv, ToGiveBack, LaneMoves
<1> QED
  BY <1>10, <1>11, <1>12, <1>13, <1>14, <1>15, <1>16, <1>17, <1>18, <1>19, <1>20
     DEF SchedulerInv, RunInv

LEMMA BesideKeeps ==
    ASSUME SchedulerInv, Beside
    PROVE  SchedulerInv'
<1>1. Carried
  BY UnclaimedCarries DEF SchedulerInv, Beside
<1>2. UNCHANGED <<lane, main, turn, cursor, closing, mine>>
  BY DEF Beside
<1>3. \A a : Made(a)' <=> Made(a)
  BY <1>1 DEF Carried, Made
<1>4. Active' = Active /\ \A l \in Lane : Done(l)' <=> Done(l)
  BY <1>2 DEF Active, Done
<1>5. \A a \in Attempt : LiveLease(a)' => LiveLease(a)
  BY <1>1 DEF Carried
<1>6. mine \in SUBSET Attempt /\ closing \in SUBSET Lane
  BY DEF SchedulerInv, RunInv, SchedulerTypeOK
<1>7. \A l \in Lane : lane[l].at # "free" => lane[l].job \in Attempt
  BY DEF SchedulerInv, RunInv, LanesStand
<1>8. \A l \in Lane : Lost(lane[l]) \/ Done(l) => lane[l].at # "free"
  BY DEF SchedulerInv, RunInv, LanesStand, Lost, Done, Vacant
<1>9. QueueInv'
  BY UnclaimedQueue, QueueKeeps DEF SchedulerInv, Beside
<1>10. SchedulerTypeOK'
  BY <1>2 DEF SchedulerInv, RunInv, SchedulerTypeOK, Beside, ThreadRecord, RoundRecord
<1>11. LanesStand' /\ LanesJudged'
  BY <1>2, <1>3 DEF SchedulerInv, RunInv, LanesStand, LanesJudged
<1>12. LoopStands'
  BY <1>2, <1>4 DEF SchedulerInv, RunInv, LoopStands, Beside, Active
<1>13. ThreadsStand'
  BY DEF ThreadsStand, Beside
<1>14. CancelledLost' /\ DoneSettled'
  BY <1>2, <1>4, <1>5, <1>7, <1>8 DEF SchedulerInv, RunInv, CancelledLost, DoneSettled
<1>15. MineMade'
  BY <1>2, <1>3 DEF SchedulerInv, RunInv, MineMade
<1>16. NoClaimForgotten'
  BY <1>2, <1>5, <1>6 DEF SchedulerInv, RunInv, NoClaimForgotten
<1>17. ToGiveBack'
  <2>1. ASSUME NEW a \in mine, LiveLease(a)',
               main \in {"givingback", "lastrecovery", "stopped"}
        PROVE  Refused(a)' \/ \E l \in closing : lane[l].job = a
    <3>1. \A l \in Active : Done(l)
      BY <2>1 DEF SchedulerInv, RunInv, LoopStands
    <3>2. ~ClearExternalProcess(a)
      BY <1>6, <3>1 DEF Beside
    <3>3. Refused(a) \/ \E l \in closing : lane[l].job = a
      BY <1>5, <1>6, <2>1 DEF SchedulerInv, RunInv, ToGiveBack
    <3> QED
      BY <1>6, <2>1, <3>2, <3>3, RefusalStays DEF SchedulerInv, Beside
  <2> QED
    BY <1>2, <1>5, <1>6, <2>1 DEF SchedulerInv, RunInv, ToGiveBack
<1> QED
  BY <1>9, <1>10, <1>11, <1>12, <1>13, <1>14, <1>15, <1>16, <1>17 DEF SchedulerInv, RunInv

-----------------------------------------------------------------------------
(* The steps beside the lanes. *)

LEMMA NothingCleared ==
    ASSUME TypeOK, proc' = proc
    PROVE  \A a \in Attempt : ~ClearExternalProcess(a)
  BY DEF ClearExternalProcess, TypeOK

LEMMA Disturbed ==
    ASSUME disturbances \in 0..MaxDisturbances, Disturb \/ UNCHANGED disturbances
    PROVE  disturbances' \in 0..MaxDisturbances
  BY SchedulerAssumption DEF Disturb

LEMMA RecoveryUnclaimed ==
    ASSUME TypeOK, RecoverOrNothing
    PROVE  /\ UnclaimedStep /\ proc' = proc
           /\ Recovered \in SUBSET Job
           /\ \A j \in Recovered : jobStatus'[j] # "running"
<1>1. Recovered \in SUBSET Job
  BY RecoveredType
<1>2. CASE RecoverExpiredLeases
  BY <1>1, <1>2 DEF UnclaimedStep, RecoverExpiredLeases, processVars, JobsSet
<1>3. CASE Recovered = {} /\ UNCHANGED vars
  BY <1>3 DEF UnclaimedStep, vars, processVars
<1> QED
  BY <1>1, <1>2, <1>3 DEF RecoverOrNothing

\* A thread that has ended and been heard, one just started, and a new round.
LEMMA IdleThread ==
    /\ NewRound \in RoundRecord
    /\ NoThread \in ThreadRecord /\ NoThread.at = "none" /\ NoThread.got = {}
    /\ Recovering \in ThreadRecord /\ Recovering.at = "recovering" /\ Recovering.got = {}
  BY DEF NoThread, Recovering, ThreadRecord, NewRound, RoundRecord

\* Only the thread's own record changes.
LEMMA ThreadMoves ==
    ASSUME SchedulerInv, UnclaimedStep, NEW w \in Thread, thread[w].at # "none",
           NEW t \in ThreadRecord, thread' = [thread EXCEPT ![w] = t],
           t.at = "inspecting" => t.of \in Attempt,
           \A j \in t.got : w = Loop => jobStatus'[j] # "running",
           \A a \in Attempt : ~ClearExternalProcess(a),
           ThreadOnly, results' \in BOOLEAN
    PROVE  Beside
<1>1. /\ thread \in [Thread -> ThreadRecord] /\ thread' \in [Thread -> ThreadRecord]
      /\ thread'[w] = t /\ \A v \in Thread \ {w} : thread'[v] = thread[v]
      /\ disturbances' \in 0..MaxDisturbances
  BY DEF SchedulerInv, RunInv, SchedulerTypeOK, ThreadRecord, ThreadOnly
<1>2. Loop \in Thread /\ thread[Loop].got \in SUBSET Job
  BY DEF SchedulerInv, RunInv, SchedulerTypeOK, Thread
<1>3. \A v \in Thread : thread'[v].at = "inspecting" => thread'[v].of \in Attempt
  BY <1>1 DEF SchedulerInv, RunInv, ThreadsStand
<1>4. \A j \in thread'[Loop].got : jobStatus'[j] # "running"
  <2>1. CASE w = Loop
    BY <1>1, <2>1
  <2>2. CASE w # Loop
    BY <1>1, <1>2, <2>2, UnclaimedCarries
       DEF SchedulerInv, RunInv, ThreadsStand, Carried
  <2> QED
    BY <2>1, <2>2
<1>5. main = "claiming" => thread'[Loop] = NoThread
  BY <1>1, <1>2, IdleThread DEF SchedulerInv, RunInv, LoopStands
<1>6. round \in RoundRecord
  BY DEF SchedulerInv, RunInv, SchedulerTypeOK, RoundRecord
<1> QED
  BY <1>1, <1>3, <1>4, <1>5, <1>6 DEF Beside, ThreadOnly

LEMMA ThreadBeside ==
    ASSUME SchedulerInv, NEW w \in Thread, ThreadStep(w)
    PROVE  Beside
<1>1. /\ w \in Reconciler /\ thread \in [Thread -> ThreadRecord] /\ thread[w] \in ThreadRecord
      /\ TypeOK /\ results \in BOOLEAN
      /\ w = Loop => \A j \in thread[w].got : jobStatus[j] # "running"
  BY SchedulerAssumption
     DEF SchedulerInv, RunInv, SchedulerTypeOK, ThreadRecord, QueueInv, ThreadsStand
<1>2. CASE ThreadRecovers(w)
  <2> DEFINE t == [thread[w] EXCEPT !.at = "claiming", !.got = Recovered]
  <2>1. /\ UnclaimedStep /\ Recovered \in SUBSET Job
        /\ \A j \in Recovered : jobStatus'[j] # "running"
        /\ \A a \in Attempt : ~ClearExternalProcess(a)
    BY <1>1, <1>2, RecoveryUnclaimed, NothingCleared DEF ThreadRecovers
  <2>2. thread' = [thread EXCEPT ![w] = t]
    BY <1>1, <1>2 DEF ThreadRecovers
  <2>3. t \in ThreadRecord /\ t.at = "claiming" /\ t.got = Recovered
    BY <1>1, <2>1 DEF ThreadRecord
  <2>4. thread[w].at # "none" /\ ThreadOnly /\ results' \in BOOLEAN
    BY <1>2 DEF ThreadRecovers
  <2> HIDE DEF t
  <2> QED
    BY <2>1, <2>2, <2>3, <2>4, ThreadMoves
<1>3. CASE ThreadClaims(w)
  <2>1. PICK t \in ThreadRecord :
           /\ thread' = [thread EXCEPT ![w] = t] /\ t.got = thread[w].got
           /\ t.at = "inspecting" => t.of \in Attempt
           /\ UnclaimedStep /\ proc' = proc /\ jobStatus' = jobStatus
    <3>1. CASE /\ UNCHANGED vars
               /\ thread' = [thread EXCEPT ![w].at = "finished", ![w].counted = results]
      <4> DEFINE t == [thread[w] EXCEPT !.at = "finished", !.counted = results]
      <4>1. t \in ThreadRecord /\ t.at = "finished" /\ t.got = thread[w].got
        BY <1>1 DEF ThreadRecord
      <4>2. thread' = [thread EXCEPT ![w] = t]
        BY <1>1, <3>1
      <4>3. UnclaimedStep /\ proc' = proc /\ jobStatus' = jobStatus
        BY <3>1 DEF UnclaimedStep, vars, processVars, jobVars
      <4> HIDE DEF t
      <4> QED
        BY <4>1, <4>2, <4>3
    <3>2. ASSUME NEW a \in Attempt, ClaimReconciliation(w, a, FALSE),
                 thread' = [thread EXCEPT ![w].at = "inspecting", ![w].of = a]
          PROVE  \E t \in ThreadRecord :
                    /\ thread' = [thread EXCEPT ![w] = t] /\ t.got = thread[w].got
                    /\ t.at = "inspecting" => t.of \in Attempt
                    /\ UnclaimedStep /\ proc' = proc /\ jobStatus' = jobStatus
      <4> DEFINE t == [thread[w] EXCEPT !.at = "inspecting", !.of = a]
      <4>1. t \in ThreadRecord /\ t.of = a /\ t.got = thread[w].got
        BY <1>1 DEF ThreadRecord
      <4>2. thread' = [thread EXCEPT ![w] = t]
        BY <1>1, <3>2
      <4>3. UnclaimedStep
        BY <1>1, <3>2 DEF UnclaimedStep, ReconcilerStep
      <4>4. proc' = proc /\ jobStatus' = jobStatus
        BY <3>2 DEF ClaimReconciliation, jobVars
      <4> HIDE DEF t
      <4> QED
        BY <4>1, <4>2, <4>3, <4>4
    <3> QED
      BY <1>3, <3>1, <3>2 DEF ThreadClaims
  <2>2. thread[w].at # "none" /\ ThreadOnly /\ results' \in BOOLEAN
    BY <1>1, <1>3 DEF ThreadClaims
  <2> QED
    BY <1>1, <2>1, <2>2, ThreadMoves, NothingCleared
<1>4. CASE ThreadReconciles(w)
  <2> DEFINE a == thread[w].of
  <2>1. a \in Attempt /\ thread[w].at # "none" /\ ThreadOnly /\ results' \in BOOLEAN
    BY <1>1, <1>4 DEF ThreadReconciles, SchedulerInv, RunInv, ThreadsStand
  <2>2. a[1] \in Job
    BY <2>1, AttemptPair
  <2>3. ASSUME NEW at \in {"claiming", "raised"},
               NEW got \in {thread[w].got, thread[w].got \cup {a[1]}},
               thread' = [thread EXCEPT ![w].at = at, ![w].got = got], UnclaimedStep,
               \A j \in got : j \in thread[w].got \/ jobStatus'[j] # "running",
               \A b \in Attempt : ~ClearExternalProcess(b)
        PROVE  Beside
    <3> DEFINE t == [thread[w] EXCEPT !.at = at, !.got = got]
    <3>1. t \in ThreadRecord /\ t.at = at /\ t.got = got
      BY <1>1, <2>2, <2>3 DEF ThreadRecord
    <3>2. thread' = [thread EXCEPT ![w] = t]
      BY <1>1, <2>3
    <3> HIDE DEF t
    <3>3. Carried /\ thread[w].got \in SUBSET Job
      BY <1>1, <2>3, UnclaimedCarries DEF SchedulerInv, ThreadRecord
    <3>4. \A j \in t.got : w = Loop => jobStatus'[j] # "running"
      BY <1>1, <2>3, <3>1, <3>3 DEF Carried
    <3> QED
      BY <2>1, <2>3, <3>1, <3>2, <3>4, ThreadMoves
  <2>4. CASE QuarantineProcess(w, a) /\ thread' = [thread EXCEPT ![w].at = "claiming"]
    <3>1. UnclaimedStep
      BY <1>1, <2>1, <2>4 DEF UnclaimedStep, ReconcilerStep
    <3>2. \A b \in Attempt : ~ClearExternalProcess(b)
      BY <1>1, <2>1, <2>4 DEF QuarantineProcess, ClearExternalProcess, TypeOK
    <3>3. thread' = [thread EXCEPT ![w].at = "claiming", ![w].got = thread[w].got]
      BY <1>1, <2>4 DEF ThreadRecord
    <3> QED
      BY <2>3, <3>1, <3>2, <3>3
  <2>5. CASE ResolveProcess(w, a) /\ thread' = [thread EXCEPT ![w].at = "claiming",
                                                              ![w].got = @ \cup {a[1]}]
    <3>1. UnclaimedStep
      BY <1>1, <2>1, <2>5 DEF UnclaimedStep, ReconcilerStep
    <3>2. \A b \in Attempt : ~ClearExternalProcess(b)
      BY <1>1, <2>1, <2>5
         DEF ResolveProcess, ReconciliationHeld, ClearExternalProcess, LiveLease, TypeOK
    <3>3. jobStatus'[a[1]] # "running"
      BY <2>2, <2>5 DEF ResolveProcess, JobsSet
    <3>4. thread' = [thread EXCEPT ![w].at = "claiming", ![w].got = thread[w].got \cup {a[1]}]
      BY <1>1, <2>5
    <3> QED
      BY <2>3, <3>1, <3>2, <3>3, <3>4
  <2>6. CASE UNCHANGED vars /\ thread' = [thread EXCEPT ![w].at = "raised"]
    <3>1. UnclaimedStep /\ proc' = proc
      BY <2>6 DEF UnclaimedStep, vars, processVars
    <3>2. thread' = [thread EXCEPT ![w].at = "raised", ![w].got = thread[w].got]
      BY <1>1, <2>6 DEF ThreadRecord
    <3> QED
      BY <1>1, <2>3, <3>1, <3>2, NothingCleared
  <2> QED
    BY <1>4, <2>4, <2>5, <2>6 DEF ThreadReconciles
<1> QED
  BY <1>2, <1>3, <1>4 DEF ThreadStep

\* Other processes, the operator and the worker touch the queue alone.
LEMMA QueueBeside ==
    ASSUME SchedulerInv, UnclaimedStep,
           UNCHANGED <<lane, thread, main, turn, cursor, results, closing, mine>>,
           round' \in RoundRecord,
           Disturb \/ UNCHANGED disturbances,
           (\A l \in Active : Done(l)) => \A a \in Attempt : ~ClearExternalProcess(a)
    PROVE  Beside
<1>1. /\ thread \in [Thread -> ThreadRecord] /\ Loop \in Thread
      /\ disturbances' \in 0..MaxDisturbances
      /\ thread[Loop].got \in SUBSET Job /\ results' \in BOOLEAN
  BY Disturbed DEF SchedulerInv, RunInv, SchedulerTypeOK, ThreadRecord, Thread
<1>2. \A j \in thread'[Loop].got : jobStatus'[j] # "running"
  BY <1>1, UnclaimedCarries DEF SchedulerInv, RunInv, ThreadsStand, Carried
<1> QED
  BY <1>1, <1>2 DEF Beside, SchedulerInv, RunInv, ThreadsStand, LoopStands

LEMMA RoundStill == SchedulerInv /\ UNCHANGED round => round' \in RoundRecord
  BY DEF SchedulerInv, RunInv, SchedulerTypeOK, RoundRecord

LEMMA ForgottenBeside ==
    ASSUME SchedulerInv, NEW l \in Lane, ThreadForgotten(l)
    PROVE  Beside
<1>1. /\ ThreadOnly /\ results' \in BOOLEAN
      /\ thread' = [thread EXCEPT ![l] = NoThread]
      /\ thread[l].at # "none" /\ l \in Thread
      /\ UnclaimedStep /\ proc' = proc
  BY DEF ThreadForgotten, ThreadEnded, ThreadOnly, loopVars, UnclaimedStep, vars, processVars,
         Thread, SchedulerInv, RunInv, SchedulerTypeOK
<1>2. NoThread \in ThreadRecord /\ NoThread.at = "none" /\ NoThread.got = {}
  BY IdleThread
<1>3. \A a \in Attempt : ~ClearExternalProcess(a)
  BY <1>1, NothingCleared DEF SchedulerInv, QueueInv
<1> HIDE DEF NoThread
<1> QED
  BY <1>1, <1>2, <1>3, ThreadMoves

LEMMA EnvironmentBeside ==
    ASSUME SchedulerInv, Environment
    PROVE  Beside
<1> USE DEF processVars
<1>1. /\ UnclaimedStep /\ proc' = proc
      /\ UNCHANGED <<lane, thread, loopVars, mine>>
      /\ Disturb \/ UNCHANGED disturbances
  <2>1. ASSUME NEW i \in Item, NEW r \in Role, NEW st \in Stage, Enqueue(i, r, st)
        PROVE  <1>1!:
    BY <2>1 DEF Enqueue, UnclaimedStep, ItemStep, CreateWorkItemWithJob, schedVars
  <2>2. ASSUME NEW i \in Item, BindingsChange(i)
        PROVE  <1>1!:
    BY <2>2 DEF BindingsChange, UnclaimedStep, ItemStep, ChangeBindings
  <2>3. ASSUME NEW j \in Job, Lapse(j)
        PROVE  <1>1!:
    BY <2>3 DEF Lapse, UnclaimedStep, LeaseLapses
  <2>4. ASSUME NEW a \in Attempt, FenceLapses(a)
        PROVE  <1>1!:
    BY <2>4 DEF FenceLapses, UnclaimedStep, ReconcilerStep, ReconciliationLapses
  <2>5. ASSUME NEW a \in Attempt, OperatorAsks(a)
        PROVE  <1>1!:
    BY <2>5 DEF OperatorAsks, UnclaimedStep, OperatorStep, RequestJobInterrupt
  <2> QED
    BY <2>1, <2>2, <2>3, <2>4, <2>5 DEF Environment
<1> QED
  BY <1>1, QueueBeside, NothingCleared, RoundStill DEF SchedulerInv, QueueInv, loopVars

\* A lane that is free or done has no task.
LEMMA RestingLane ==
    /\ Vacant \in LaneRecord /\ Vacant.at = "free" /\ Vacant.worker = "none"
    /\ ~Lost(Vacant) /\ Judged(Vacant)
    /\ \A a \in Attempt :
          /\ Finished(a) \in LaneRecord /\ Finished(a).at = "done" /\ Finished(a).job = a
          /\ Finished(a).worker = "none" /\ ~Lost(Finished(a)) /\ Judged(Finished(a))
  BY DEF Finished, Vacant, LaneRecord, LaneSteps, WorkerStates, BeatStates, Outcomes, Lost, Judged

LEMMA WorkerBeside ==
    ASSUME SchedulerInv, NEW l \in Lane, WorkerRecords(l) \/ WorkerBinds(l) \/ WorkerClears(l)
    PROVE  Beside
<1>1. lane[l].worker \in {"running", "stopping"}
  BY DEF WorkerRecords, WorkerBinds, WorkerClears
<1>2. lane[l].at \notin {"free", "done"} /\ lane[l].job \in Attempt
  BY <1>1, RestingLane DEF SchedulerInv, RunInv, LanesStand
<1>3. l \in Active /\ ~Done(l)
  BY <1>2 DEF Active, Done
<1>4. UnclaimedStep /\ UNCHANGED schedVars
  BY <1>2 DEF WorkerRecords, WorkerBinds, WorkerClears, UnclaimedStep, WorkerStep
<1> QED
  BY <1>3, <1>4, QueueBeside, RoundStill DEF schedVars, loopVars

-----------------------------------------------------------------------------
(* The steps of a lane. *)

\* What the lane's record must be for its step to be a move.
LEMMA LaneMoved ==
    ASSUME SchedulerInv, NEW l \in Lane, UnclaimedStep, lane[l].at \notin {"free", "done"},
           NEW n \in LaneRecord, lane' = [lane EXCEPT ![l] = n],
           n.job = lane[l].job, n.at \notin {"free", "done"}, Lost(n) => Lost(lane[l]), Judged(n),
           UNCHANGED <<mine, main, round, cursor, results, closing>>,
           thread' = thread \/ thread' = [thread EXCEPT ![l] = Recovering],
           turn' \in {turn, l, "none"}, Disturb \/ UNCHANGED disturbances
    PROVE  \E m : LaneMoves(l, m)
<1>1. /\ thread \in [Thread -> ThreadRecord] /\ l \in Thread /\ l # Loop /\ Loop \in Thread
      /\ disturbances' \in 0..MaxDisturbances
      /\ turn' \in Thread \cup {"none"}
  BY SchedulerAssumption, Disturbed
     DEF SchedulerInv, RunInv, SchedulerTypeOK, ThreadRecord, Thread
<1>2. Recovering \in ThreadRecord /\ Recovering.at = "recovering"
  BY IdleThread
<1>3. /\ thread' \in [Thread -> ThreadRecord] /\ thread'[Loop] = thread[Loop]
      /\ \A w \in Thread : thread'[w].at = "inspecting" => thread'[w].of \in Attempt
  BY <1>1, <1>2 DEF SchedulerInv, RunInv, ThreadsStand
<1> QED
  BY <1>1, <1>3 DEF LaneMoves

\* A lane ends: its claim has ended, or is no longer answered for, or was cancelled.
LEMMA LaneEnded ==
    ASSUME SchedulerInv, NEW l \in Lane, UnclaimedStep, lane[l].at \notin {"free", "done"},
           NEW a, a = lane[l].job, a \in mine' /\ LiveLease(a)' => Lost(lane[l]),
           lane' = [lane EXCEPT ![l] = [Vacant EXCEPT !.at = "done", !.job = lane[l].job]],
           mine' \in SUBSET mine, turn' \in {turn, "none"},
           UNCHANGED <<main, round, cursor, results, closing>>,
           thread' = thread \/ thread' = [thread EXCEPT ![l] = NoThread],
           Disturb \/ UNCHANGED disturbances
    PROVE  \E m : LaneMoves(l, m)
<1>1. /\ thread \in [Thread -> ThreadRecord] /\ l \in Thread /\ l # Loop /\ Loop \in Thread
      /\ disturbances' \in 0..MaxDisturbances
      /\ turn' \in Thread \cup {"none"}
      /\ lane[l].job \in Attempt
  BY SchedulerAssumption, Disturbed
     DEF SchedulerInv, RunInv, SchedulerTypeOK, ThreadRecord, Thread, LanesStand
<1>2. NoThread \in ThreadRecord /\ NoThread.at = "none"
  BY IdleThread
<1>3. /\ thread' \in [Thread -> ThreadRecord] /\ thread'[Loop] = thread[Loop]
      /\ \A w \in Thread : thread'[w].at = "inspecting" => thread'[w].of \in Attempt
  BY <1>1, <1>2 DEF SchedulerInv, RunInv, ThreadsStand
<1> PICK n : n = Finished(a)
  OBVIOUS
<1>4. /\ n \in LaneRecord /\ n.job = a /\ n.at = "done" /\ n = Finished(n.job)
      /\ ~Lost(n) /\ Judged(n)
  BY <1>1, RestingLane
<1>5. lane' = [lane EXCEPT ![l] = n]
  BY DEF Finished
<1> QED
  BY <1>1, <1>3, <1>4, <1>5 DEF LaneMoves

LEMMA LaneFacts ==
    ASSUME SchedulerInv, NEW l \in Lane
    PROVE  /\ lane \in [Lane -> LaneRecord] /\ lane[l] \in LaneRecord /\ Judged(lane[l])
           /\ lane[l].at # "free" => lane[l].job \in Attempt
           /\ UNCHANGED vars => UnclaimedStep
  BY DEF SchedulerInv, RunInv, SchedulerTypeOK, LaneRecord, LanesJudged, LanesStand, UnclaimedStep

\* The first of the two tasks to end, and how the lane waits for the other.
LEMMA WaitMoves ==
    ASSUME SchedulerInv, NEW l \in Lane, Wake(l) \/ StoppedForOperator(l) \/ Settles(l)
    PROVE  \E n : LaneMoves(l, n)
<1> DEFINE old == lane[l]
<1>1. /\ lane \in [Lane -> LaneRecord] /\ old \in LaneRecord /\ Judged(old)
      /\ UnclaimedStep /\ old.at \in {"running", "stopping", "gathering"}
      /\ UNCHANGED <<mine, main, round, cursor, results, closing, thread, disturbances>>
      /\ turn' \in {turn, l}
  BY LaneFacts DEF Wake, StoppedForOperator, Settles, loopVars
<1>2. ASSUME NEW at \in {"stopping", "gathering", "holding"}, NEW outcome \in Outcomes,
             NEW beat \in BeatStates, NEW worker \in WorkerStates,
             lane' = [lane EXCEPT ![l] = [old EXCEPT !.at = at, !.outcome = outcome,
                                                     !.beat = beat, !.worker = worker]],
             outcome # "cancelled" \/ outcome = old.outcome,
             outcome \in {"returned", "valid"} => beat = "on" /\ at # "stopping"
      PROVE  \E n : LaneMoves(l, n)
  <2> DEFINE n == [old EXCEPT !.at = at, !.outcome = outcome, !.beat = beat, !.worker = worker]
  <2>1. /\ n \in LaneRecord /\ n.job = old.job /\ n.cancel = old.cancel
        /\ n.at = at /\ n.outcome = outcome /\ n.beat = beat
    BY <1>1, <1>2 DEF LaneRecord, LaneSteps
  <2>2. (Lost(n) => Lost(old)) /\ Judged(n)
    BY <1>2, <2>1 DEF Lost, Judged
  <2>3. lane' = [lane EXCEPT ![l] = n]
    BY <1>2
  <2> HIDE DEF n
  <2> QED
    BY <1>1, <1>2, <2>1, <2>2, <2>3, LaneMoved
<1>3. old.worker \in WorkerStates /\ old.beat \in BeatStates /\ old.outcome \in Outcomes
  BY <1>1 DEF LaneRecord
<1>4. Stopping(old.worker) \in WorkerStates
  BY <1>3 DEF Stopping, WorkerStates
<1>5. CASE Wake(l)
  <2>1. CASE lane' = [lane EXCEPT ![l].at = "stopping", ![l].beat = "on",
                                  ![l].worker = Stopping(@)]
    <3>1. lane' = [lane EXCEPT ![l] = [old EXCEPT !.at = "stopping", !.outcome = old.outcome,
                                                  !.beat = "on", !.worker = Stopping(old.worker)]]
      BY <1>1, <2>1 DEF LaneRecord
    <3>2. old.outcome \notin {"returned", "valid"}
      BY <1>1, <1>5 DEF Wake, Judged
    <3> QED
      BY <1>2, <1>3, <1>4, <3>1, <3>2 DEF BeatStates
  <2>2. CASE /\ old.beat \in {"lost", "unavailable"}
             /\ lane' = [lane EXCEPT ![l].at = "gathering", ![l].outcome = lane[l].beat,
                                     ![l].worker = Stopping(@)]
    <3>1. lane' = [lane EXCEPT ![l] = [old EXCEPT !.at = "gathering", !.outcome = old.beat,
                                                  !.beat = old.beat, !.worker = Stopping(old.worker)]]
      BY <1>1, <2>2 DEF LaneRecord
    <3>2. old.beat \in Outcomes /\ old.beat \notin {"cancelled", "returned", "valid"}
      BY <2>2 DEF Outcomes
    <3> QED
      BY <1>2, <1>3, <1>4, <3>1, <3>2
  <2>3. CASE /\ old.beat = "on" /\ WorkerOver(l)
             /\ lane' = [lane EXCEPT ![l].at = "gathering", ![l].outcome = lane[l].worker]
    <3>1. lane' = [lane EXCEPT ![l] = [old EXCEPT !.at = "gathering", !.outcome = old.worker,
                                                  !.beat = old.beat, !.worker = old.worker]]
      BY <1>1, <2>3 DEF LaneRecord
    <3>2. old.worker \in {"none", "returned", "raised", "lost"}
      BY <1>1, <1>3, <1>5, <2>3 DEF Wake, WorkerOver, WorkerStates, Judged
    <3>3. old.worker \in Outcomes /\ old.worker # "cancelled"
      BY <3>2 DEF Outcomes
    <3> QED
      BY <1>2, <1>3, <2>3, <3>1, <3>3
  <2> QED
    BY <1>5, <2>1, <2>2, <2>3 DEF Wake
<1>6. CASE StoppedForOperator(l)
  <2>1. lane' = [lane EXCEPT ![l] = [old EXCEPT !.at = "gathering", !.outcome = "asked",
                                                !.beat = old.beat, !.worker = old.worker]]
    BY <1>1, <1>6 DEF LaneRecord, StoppedForOperator
  <2> QED
    BY <1>2, <1>3, <2>1 DEF Outcomes
<1>7. CASE Settles(l)
  <2>1. lane' = [lane EXCEPT ![l] = [old EXCEPT !.at = "holding", !.outcome = old.outcome,
                                                !.beat = old.beat, !.worker = old.worker]]
    BY <1>1, <1>7 DEF LaneRecord, Settles
  <2> QED
    BY <1>1, <1>2, <1>3, <2>1 DEF Judged
<1> QED
  BY <1>5, <1>6, <1>7

\* The worker and the heartbeat.
LEMMA TaskMoves ==
    ASSUME SchedulerInv, NEW l \in Lane, WorkerEnds(l) \/ WorkerStops(l) \/ Heartbeat(l)
    PROVE  \E n : LaneMoves(l, n)
<1> DEFINE old == lane[l]
<1>1. lane \in [Lane -> LaneRecord] /\ old \in LaneRecord /\ Judged(old)
  BY LaneFacts
<1>2. CASE WorkerEnds(l) \/ WorkerStops(l)
  <2>1. PICK how \in {"returned", "raised", "lost", "ended"} :
           /\ lane' = [lane EXCEPT ![l].worker = how]
           /\ how = "ended" => old.worker = "stopping"
    BY <1>2 DEF WorkerEnds, WorkerStops
  <2>2. /\ old.worker \in {"running", "stopping"} /\ UnclaimedStep
        /\ UNCHANGED <<mine, main, turn, round, cursor, results, closing, thread, disturbances>>
    BY <1>2, LaneFacts DEF WorkerEnds, WorkerStops, loopVars
  <2>3. old.at \notin {"free", "done"}
    BY <2>2, LaneFacts, RestingLane DEF SchedulerInv, RunInv, LanesStand
  <2> DEFINE n == [old EXCEPT !.worker = how]
  <2>4. /\ n \in LaneRecord /\ n.job = old.job /\ n.at = old.at /\ n.worker = how
        /\ n.beat = old.beat /\ n.outcome = old.outcome /\ n.cancel = old.cancel
    BY <1>1 DEF LaneRecord, WorkerStates
  <2>5. lane' = [lane EXCEPT ![l] = n]
    BY <2>1
  <2>6. (Lost(n) => Lost(old)) /\ Judged(n)
    BY <1>1, <2>1, <2>2, <2>4 DEF Lost, Judged
  <2> HIDE DEF n
  <2> QED
    BY <2>2, <2>3, <2>4, <2>5, <2>6, LaneMoved
<1>3. CASE Heartbeat(l)
  <2>1. old.at \in {"running", "stopping"} /\ old.job \in Attempt
    BY <1>3, LaneFacts DEF Heartbeat, Beating
  <2>2. PICK beat \in BeatStates : lane' = [lane EXCEPT ![l].beat = beat]
    BY <1>3 DEF Heartbeat, BeatStates
  <2>3. /\ UnclaimedStep /\ (Disturb \/ UNCHANGED disturbances)
        /\ UNCHANGED <<mine, main, turn, round, cursor, results, closing, thread>>
    BY <1>3, <2>1, LaneFacts DEF Heartbeat, loopVars, UnclaimedStep, WorkerStep
  <2> DEFINE n == [old EXCEPT !.beat = beat]
  <2>4. /\ n \in LaneRecord /\ n.job = old.job /\ n.at = old.at /\ n.worker = old.worker
        /\ n.outcome = old.outcome /\ n.cancel = old.cancel
    BY <1>1 DEF LaneRecord
  <2>5. lane' = [lane EXCEPT ![l] = n]
    BY <2>2
  <2>6. (Lost(n) => Lost(old)) /\ Judged(n)
    BY <1>1, <2>1, <2>4 DEF Lost, Judged
  <2> HIDE DEF n
  <2> QED
    BY <2>1, <2>3, <2>4, <2>5, <2>6, LaneMoved
<1> QED
  BY <1>2, <1>3

LEMMA BecomesMoves ==
    ASSUME SchedulerInv, NEW l \in Lane, lane[l].at = "holding", UnclaimedStep,
           NEW outcome \in Outcomes, outcome # "cancelled", Becomes(l, outcome),
           outcome \in {"returned", "valid"} => lane[l].outcome = "returned",
           UNCHANGED mine, LaneOnly
    PROVE  \E n : LaneMoves(l, n)
<1> DEFINE old == lane[l]
           n == [old EXCEPT !.outcome = outcome]
<1>1. lane \in [Lane -> LaneRecord] /\ old \in LaneRecord /\ Judged(old)
  BY LaneFacts
<1>2. /\ n \in LaneRecord /\ n.job = old.job /\ n.at = old.at /\ n.worker = old.worker
      /\ n.beat = old.beat /\ n.outcome = outcome /\ n.cancel = old.cancel
  BY <1>1 DEF LaneRecord
<1>3. lane' = [lane EXCEPT ![l] = n]
  BY DEF Becomes
<1>4. (Lost(n) => Lost(old)) /\ Judged(n)
  BY <1>1, <1>2 DEF Lost, Judged
<1>5. UNCHANGED <<mine, main, turn, round, cursor, results, closing, thread, disturbances>>
  BY DEF Becomes, LaneOnly
<1> HIDE DEF n
<1> QED
  BY <1>2, <1>3, <1>4, <1>5, LaneMoved

\* A lane that ends once its claim has ended, or is reported, or was cancelled.
LEMMA FinishesMoves ==
    ASSUME SchedulerInv, NEW l \in Lane, lane[l].at \notin {"free", "done"}, UnclaimedStep,
           Finishes(l), UNCHANGED <<main, round, cursor, results, closing>>,
           NEW a, a = lane[l].job,
           \/ mine' = mine /\ (LiveLease(a)' => Lost(lane[l]))
           \/ mine' = mine \ {a},
           thread' = thread \/ thread' = [thread EXCEPT ![l] = NoThread],
           Disturb \/ UNCHANGED disturbances
    PROVE  \E n : LaneMoves(l, n)
  BY LaneEnded DEF Finishes

\* The outcomes of an attempt end its claim.
LEMMA AttemptOver ==
    ASSUME NEW a \in Attempt,
           \/ \E next \in ItemStates : CommitStageResult(a, next, {})
           \/ FailJob(a, TRUE) \/ CompleteOperatorInterrupt(a) \/ InterruptJob(a)
    PROVE  UnclaimedStep /\ ~LiveLease(a)'
<1>1. a[1] \in Job
  BY AttemptPair
<1>2. UnclaimedStep
  BY DEF UnclaimedStep, WorkerStep
<1>3. ASSUME NEW next \in ItemStates, CommitStageResult(a, next, {})
      PROVE  jobStatus'[a[1]] # "running"
  BY <1>1, <1>3 DEF CommitStageResult, AddJob, JobsSet
<1>4. ASSUME FailJob(a, TRUE) \/ CompleteOperatorInterrupt(a) \/ InterruptJob(a)
      PROVE  jobStatus'[a[1]] # "running"
  <2>1. PICK next \in {"pending", "failed"} : jobStatus' = JobsSet({a[1]}, next)
    BY <1>4 DEF FailJob, CompleteOperatorInterrupt, InterruptJob, EndAttempt
  <2>2. jobStatus'[a[1]] = next
    BY <1>1, <2>1 DEF JobsSet
  <2> QED
    BY <2>2
<1>5. jobStatus'[a[1]] # "running"
  BY <1>3, <1>4
<1> QED
  BY <1>2, <1>5 DEF LiveLease

\* What a lane does with the outcome of its tasks.
LEMMA OutcomeMoves ==
    ASSUME SchedulerInv, NEW l \in Lane,
           \/ Judge(l) \/ Finalize(l) \/ Fail(l) \/ PollRefusal(l) \/ StopForOperator(l)
           \/ ReportLost(l) \/ EndCancelled(l)
    PROVE  \E n : LaneMoves(l, n)
<1>1. PICK a : a = lane[l].job
  OBVIOUS
<1>2. /\ lane[l].at = "holding" /\ a \in Attempt /\ LaneOnly
      /\ UNCHANGED vars => UnclaimedStep
  BY <1>1, LaneFacts
     DEF Judge, Finalize, Fail, PollRefusal, StopForOperator, ReportLost, EndCancelled, Holding
<1> USE DEF Holding
<1>3. ASSUME UNCHANGED <<vars, mine>>, NEW outcome \in Outcomes, outcome # "cancelled",
             outcome \in {"returned", "valid"} => lane[l].outcome = "returned",
             Becomes(l, outcome)
      PROVE  \E n : LaneMoves(l, n)
  BY <1>2, <1>3, BecomesMoves
<1>4. ASSUME UnclaimedStep, Finishes(l),
             \/ mine' = mine /\ (LiveLease(a)' => Lost(lane[l]))
             \/ mine' = mine \ {a}
      PROVE  \E n : LaneMoves(l, n)
  BY <1>1, <1>2, <1>4, FinishesMoves DEF LaneOnly
<1>5. CASE Judge(l)
  BY <1>3, <1>5 DEF Judge, Outcomes
<1>6. CASE Finalize(l)
  BY <1>1, <1>2, <1>3, <1>4, <1>6, AttemptOver DEF Finalize, Outcomes
<1>7. CASE Fail(l)
  BY <1>1, <1>2, <1>3, <1>4, <1>7, AttemptOver DEF Fail, Outcomes
<1>8. CASE PollRefusal(l)
  BY <1>3, <1>8 DEF PollRefusal, Outcomes
<1>9. CASE StopForOperator(l)
  BY <1>1, <1>2, <1>3, <1>4, <1>9, AttemptOver DEF StopForOperator, Outcomes
<1>10. CASE ReportLost(l)
  BY <1>1, <1>2, <1>4, <1>10 DEF ReportLost
<1>11. CASE EndCancelled(l)
  BY <1>2, <1>4, <1>11 DEF EndCancelled, Lost
<1> QED
  BY <1>5, <1>6, <1>7, <1>8, <1>9, <1>10, <1>11

\* A claim given back, a recovery of the lane's own, and a cancellation.
LEMMA LeavingMoves ==
    ASSUME SchedulerInv, NEW l \in Lane, HandBack(l) \/ LaneRecovered(l) \/ Cancelled(l)
    PROVE  \E n : LaneMoves(l, n)
<1> DEFINE old == lane[l]
<1>1. PICK a : a = lane[l].job
  OBVIOUS
<1>2. /\ lane \in [Lane -> LaneRecord] /\ old \in LaneRecord /\ Judged(old)
      /\ old.at \notin {"free", "done"} /\ a \in Attempt
      /\ UNCHANGED vars => UnclaimedStep
      /\ UNCHANGED <<main, round, cursor, results, closing>>
  BY <1>1, LaneFacts DEF HandBack, LaneRecovered, Cancelled, Holding, loopVars
<1>3. ASSUME UnclaimedStep, Finishes(l),
             \/ mine' = mine /\ ~LiveLease(a)'
             \/ mine' = mine \ {a},
             thread' = thread \/ thread' = [thread EXCEPT ![l] = NoThread],
             Disturb \/ UNCHANGED disturbances
      PROVE  \E n : LaneMoves(l, n)
  BY <1>1, <1>2, <1>3, FinishesMoves
<1>4. CASE HandBack(l)
  <2>1. CASE InterruptJob(a) /\ Finishes(l) /\ UNCHANGED <<thread, mine, disturbances>>
    BY <1>2, <1>3, <2>1, AttemptOver
  <2>2. CASE /\ lane' = [lane EXCEPT ![l].at = "recovering"] /\ turn' = "none"
             /\ thread' = [thread EXCEPT ![l] = Recovering]
             /\ UNCHANGED <<vars, mine, disturbances>>
    <3> DEFINE n == [old EXCEPT !.at = "recovering"]
    <3>1. /\ n \in LaneRecord /\ n.job = old.job /\ n.at = "recovering" /\ n.worker = old.worker
          /\ n.beat = old.beat /\ n.outcome = old.outcome /\ n.cancel = old.cancel
      BY <1>2 DEF LaneRecord, LaneSteps
    <3>2. lane' = [lane EXCEPT ![l] = n]
      BY <2>2
    <3>3. (Lost(n) => Lost(old)) /\ Judged(n)
      BY <1>2, <1>4, <3>1 DEF Lost, Judged, HandBack, Holding
    <3> HIDE DEF n
    <3> QED
      BY <1>2, <2>2, <3>1, <3>2, <3>3, LaneMoved
  <2>3. CASE Disturb /\ mine' = mine \ {a} /\ Finishes(l) /\ UNCHANGED <<vars, thread>>
    BY <1>2, <1>3, <2>3
  <2> QED
    BY <1>1, <1>4, <2>1, <2>2, <2>3 DEF HandBack
<1>5. CASE LaneRecovered(l)
  BY <1>1, <1>2, <1>3, <1>5 DEF LaneRecovered
<1>6. CASE Cancelled(l)
  <2>1. UNCHANGED <<vars, thread, turn, disturbances>> /\ old.cancel
    BY <1>6 DEF Cancelled, loopVars
  <2>2. CASE /\ lane' = [lane EXCEPT ![l].at = "gathering", ![l].outcome = "cancelled",
                                     ![l].worker = Stopping(@), ![l].cancel = FALSE]
             /\ UNCHANGED mine
    <3> DEFINE n == [old EXCEPT !.at = "gathering", !.outcome = "cancelled",
                                !.worker = Stopping(@), !.cancel = FALSE]
    <3>1. Stopping(old.worker) \in WorkerStates
      BY <1>2 DEF LaneRecord, Stopping, WorkerStates
    <3>2. /\ n \in LaneRecord /\ n.job = old.job /\ n.at = "gathering" /\ n.outcome = "cancelled"
      BY <1>2, <3>1 DEF LaneRecord, LaneSteps, Outcomes
    <3>3. lane' = [lane EXCEPT ![l] = n]
      BY <1>2, <2>2
    <3>4. Lost(old) /\ Judged(n)
      BY <2>1, <3>2 DEF Lost, Judged
    <3> HIDE DEF n
    <3> QED
      BY <1>2, <2>1, <2>2, <3>2, <3>3, <3>4, LaneMoved
  <2>3. CASE /\ lane' = [lane EXCEPT ![l] = [Vacant EXCEPT !.at = "done", !.job = lane[l].job]]
             /\ mine' = mine \ {lane[l].job}
    BY <1>1, <1>2, <2>1, <2>3, LaneEnded
  <2> QED
    BY <1>6, <2>2, <2>3 DEF Cancelled
<1> QED
  BY <1>4, <1>5, <1>6

-----------------------------------------------------------------------------
(* The steps of the loop. *)

LEMMA QueueStill ==
    ASSUME UNCHANGED vars
    PROVE  /\ \A a : Made(a)' <=> Made(a)
           /\ \A a \in Attempt : (LiveLease(a)' <=> LiveLease(a)) /\ (Refused(a)' <=> Refused(a))
           /\ UNCHANGED jobStatus
  BY DEF vars, jobVars, processVars, controlVars, Made, LiveLease, Refused, Unresolved

\* The lane keeps its job, its tasks and its step, though it may be cancelled.
Goes(l) ==
    /\ lane[l].at # "free"
    /\ lane'[l].at = lane[l].at /\ lane'[l].job = lane[l].job
    /\ lane'[l].outcome = lane[l].outcome
    /\ Judged(lane'[l])
    /\ lane[l].at = "done" => lane'[l] = lane[l]

\* The loop moves, and nothing else but the lanes it cancels or vacates.  During the run
\* it cancels those alone whose claim is lost and vacates those alone that are done.
LoopMoves ==
    /\ UNCHANGED vars
    /\ \A l \in Lane : lane'[l] = Vacant \/ Goes(l)
    /\ mine' \in SUBSET mine
    /\ main' \in Going =>
          \/ mine' = {} /\ \A l \in Lane : lane'[l] = Vacant
          \/ /\ main \in Going
             /\ \A l \in Lane :
                   /\ lane'[l].cancel => lane[l].cancel \/ ~LiveLease(lane[l].job)
                   /\ Goes(l) \/ lane[l].at \in {"free", "done"}

LEMMA LoopMovesKeeps ==
    ASSUME SchedulerInv, LoopMoves,
           SchedulerTypeOK', LoopStands', ThreadsStand', ToGiveBack'
    PROVE  SchedulerInv'
<1>1. QueueInv'
  BY UnclaimedQueue, QueueKeeps DEF SchedulerInv, LoopMoves, UnclaimedStep
<1>2. \A l \in Lane : lane[l].at # "free" => lane[l].job \in Attempt
  BY DEF SchedulerInv, RunInv, LanesStand
<1>3. UNCHANGED vars /\ mine' \in SUBSET mine /\ mine \in SUBSET Attempt
  BY DEF SchedulerInv, RunInv, SchedulerTypeOK, LoopMoves
<1>4. LanesStand' /\ LanesJudged'
  BY <1>3, QueueStill, RestingLane
     DEF SchedulerInv, RunInv, LanesStand, LanesJudged, LoopMoves, Goes
<1>5. MineMade'
  BY <1>3, QueueStill DEF SchedulerInv, RunInv, MineMade
<1>6. CancelledLost' /\ DoneSettled' /\ NoClaimForgotten'
  <2>1. CASE main' \notin Going
    BY <2>1 DEF CancelledLost, DoneSettled, NoClaimForgotten, Going
  <2>2. CASE mine' = {} /\ \A l \in Lane : lane'[l] = Vacant
    BY <2>2, RestingLane DEF CancelledLost, DoneSettled, NoClaimForgotten
  <2>3. CASE /\ main \in Going
             /\ \A l \in Lane :
                   /\ lane'[l].cancel => lane[l].cancel \/ ~LiveLease(lane[l].job)
                   /\ Goes(l) \/ lane[l].at \in {"free", "done"}
    <3>1. ASSUME NEW l \in Lane, Lost(lane'[l])
          PROVE  ~LiveLease(lane[l].job)'
      <4>1. Goes(l)
        BY <3>1, RestingLane DEF LoopMoves
      <4>2. ~LiveLease(lane[l].job) /\ lane[l].job \in Attempt
        BY <1>2, <2>3, <3>1, <4>1 DEF SchedulerInv, RunInv, CancelledLost, Lost, Goes
      <4> QED
        BY <1>3, <4>1, <4>2, QueueStill DEF Goes
    <3>2. ASSUME NEW l \in Lane, lane'[l].at = "done", lane'[l].job \in mine'
          PROVE  ~LiveLease(lane[l].job)'
      <4>1. Goes(l)
        BY <3>2, RestingLane DEF LoopMoves
      <4>2. ~LiveLease(lane[l].job) /\ lane[l].job \in Attempt
        BY <1>3, <2>3, <3>2, <4>1 DEF SchedulerInv, RunInv, DoneSettled, Done, Goes
      <4> QED
        BY <1>3, <4>1, <4>2, QueueStill DEF Goes
    <3>3. ASSUME NEW a \in mine', LiveLease(a)'
          PROVE  \E l \in Lane : lane'[l].job = a
      <4>1. a \in mine /\ a \in Attempt /\ LiveLease(a)
        BY <1>3, <3>3, QueueStill
      <4>2. PICK l \in Lane : lane[l].job = a
        BY <2>3, <4>1 DEF SchedulerInv, RunInv, NoClaimForgotten, Going
      <4>3. lane[l].at \notin {"free", "done"}
        BY <2>3, <4>1, <4>2, SchedulerAssumption
           DEF SchedulerInv, RunInv, DoneSettled, Done, LanesStand, Vacant
      <4> QED
        BY <2>3, <4>2, <4>3 DEF Goes
    <3> QED
      BY <3>1, <3>2, <3>3 DEF CancelledLost, DoneSettled, NoClaimForgotten, Done
  <2> QED
    BY <2>1, <2>2, <2>3 DEF LoopMoves
<1> QED
  BY <1>1, <1>4, <1>5, <1>6 DEF SchedulerInv, RunInv

\* What cancelling and reaping leave of the lanes.
LEMMA CancelledLanes ==
    ASSUME SchedulerInv, NEW L, NEW l \in Lane
    PROVE  LET new == WithCancelled(lane, L)
           IN  /\ new[l] \in LaneRecord
               /\ new[l].at = lane[l].at /\ new[l].job = lane[l].job
               /\ new[l].outcome = lane[l].outcome /\ Judged(new[l])
               /\ lane[l].at \in {"free", "done"} => new[l] = lane[l]
               /\ new[l].cancel => lane[l].cancel \/ l \in L
<1>1. lane[l] \in LaneRecord /\ Judged(lane[l])
  BY LaneFacts
<1>2. CASE l \in L /\ lane[l].at \notin {"free", "done"}
  <2> DEFINE n == [lane[l] EXCEPT !.cancel = TRUE]
  <2>1. WithCancelled(lane, L)[l] = n
    BY <1>2 DEF WithCancelled
  <2>2. /\ n \in LaneRecord /\ n.at = lane[l].at /\ n.job = lane[l].job
        /\ n.outcome = lane[l].outcome /\ n.beat = lane[l].beat /\ n.worker = lane[l].worker
    BY <1>1 DEF LaneRecord
  <2>3. Judged(n)
    BY <1>1, <2>2 DEF Judged
  <2> HIDE DEF n
  <2> QED
    BY <1>2, <2>1, <2>2, <2>3
<1>3. CASE ~(l \in L /\ lane[l].at \notin {"free", "done"})
  <2>1. WithCancelled(lane, L)[l] = lane[l]
    BY <1>3 DEF WithCancelled
  <2> QED
    BY <1>1, <1>3, <2>1
<1> QED
  BY <1>2, <1>3

\* The lanes the loop leaves: as they were, cancelled, or vacated once done.
LEMMA LanesKept ==
    ASSUME SchedulerInv, NEW L,
           \/ lane' = lane \/ lane' = WithCancelled(lane, L)
           \/ lane' = Reaped(lane) \/ lane' = Reaped(WithCancelled(lane, L))
    PROVE  /\ lane' \in [Lane -> LaneRecord]
           /\ \A l \in Lane :
                 /\ lane'[l] = Vacant \/ Goes(l)
                 /\ lane[l].at \notin {"free", "done"} => Goes(l)
                 /\ lane'[l].cancel => lane[l].cancel \/ l \in L
                 /\ lane' = lane \/ lane' = WithCancelled(lane, L) =>
                       lane'[l].at = lane[l].at /\ lane'[l].job = lane[l].job
                 /\ lane' = Reaped(lane) => lane'[l].at # "done"
<1>1. lane \in [Lane -> LaneRecord]
  BY DEF SchedulerInv, RunInv, SchedulerTypeOK, LaneRecord
<1>2. \A l \in Lane : lane[l].at = "free" => lane[l] = Vacant
  BY DEF SchedulerInv, RunInv, LanesStand
<1>3. \A l \in Lane : Judged(lane[l])
  BY DEF SchedulerInv, RunInv, LanesJudged
<1>4. PICK new : new = WithCancelled(lane, L)
  OBVIOUS
<1>5. \A l \in Lane :
         /\ new[l] \in LaneRecord
         /\ new[l].at = lane[l].at /\ new[l].job = lane[l].job
         /\ new[l].outcome = lane[l].outcome /\ Judged(new[l])
         /\ lane[l].at \in {"free", "done"} => new[l] = lane[l]
         /\ new[l].cancel => lane[l].cancel \/ l \in L
  BY <1>4, CancelledLanes
<1>6. new \in [Lane -> LaneRecord]
  BY <1>4, <1>5 DEF WithCancelled
<1>7. CASE lane' = lane
  BY <1>1, <1>2, <1>3, <1>7, RestingLane DEF Goes, Reaped
<1>8. CASE lane' = new
  BY <1>2, <1>4, <1>5, <1>6, <1>8, RestingLane DEF Goes, Reaped
<1>9. CASE lane' = Reaped(lane)
  <2>1. \A l \in Lane : lane'[l] = IF lane[l].at = "done" THEN Vacant ELSE lane[l]
    BY <1>9 DEF Reaped
  <2>2. lane' \in [Lane -> LaneRecord]
    BY <1>1, <1>9, RestingLane DEF Reaped
  <2>3. \A l \in Lane : ~Vacant.cancel
    BY DEF Vacant
  <2> QED
    BY <1>2, <1>3, <1>4, <1>5, <2>1, <2>2, <2>3, RestingLane DEF Goes
<1>10. CASE lane' = Reaped(new)
  <2>1. \A l \in Lane : lane'[l] = IF new[l].at = "done" THEN Vacant ELSE new[l]
    BY <1>10 DEF Reaped
  <2>2. lane' \in [Lane -> LaneRecord]
    BY <1>6, <1>10, RestingLane DEF Reaped
  <2>3. ~Vacant.cancel
    BY DEF Vacant
  <2> QED
    BY <1>2, <1>4, <1>5, <2>1, <2>2, <2>3, RestingLane DEF Goes
<1> QED
  BY <1>4, <1>7, <1>8, <1>9, <1>10

\* A step of the loop that claims nothing and keeps the claims it answers for.
LEMMA LoopGoes ==
    ASSUME SchedulerInv, UNCHANGED <<vars, mine>>, NEW L,
           \/ lane' = lane \/ lane' = WithCancelled(lane, L)
           \/ lane' = Reaped(lane) \/ lane' = Reaped(WithCancelled(lane, L)),
           \/ thread' = thread
           \/ thread' = [thread EXCEPT ![Loop] = NoThread]
           \/ thread' = [thread EXCEPT ![Loop] = Recovering],
           turn' \in {turn, Loop, "none"}, round' \in RoundRecord, cursor' \in 0..2,
           results' \in BOOLEAN, closing' \in SUBSET Lane, main' \in MainSteps,
           Disturb \/ UNCHANGED disturbances,
           main' \in Going => main \in Going /\ \A l \in L \cap Lane : ~LiveLease(lane[l].job),
           LoopStands', ToGiveBack'
    PROVE  SchedulerInv'
<1>1. /\ lane' \in [Lane -> LaneRecord]
      /\ \A l \in Lane : /\ lane'[l] = Vacant \/ Goes(l)
                         /\ lane[l].at \notin {"free", "done"} => Goes(l)
                         /\ lane'[l].cancel => lane[l].cancel \/ l \in L
  BY LanesKept
<1>2. /\ thread \in [Thread -> ThreadRecord] /\ Loop \in Thread
      /\ mine \in SUBSET Attempt /\ turn' \in Thread \cup {"none"}
      /\ disturbances' \in 0..MaxDisturbances
  BY Disturbed DEF SchedulerInv, RunInv, SchedulerTypeOK, ThreadRecord, Thread
<1>3. thread' \in [Thread -> ThreadRecord]
  BY <1>2, IdleThread
<1>4. SchedulerTypeOK'
  BY <1>1, <1>2, <1>3 DEF SchedulerTypeOK, LaneRecord, ThreadRecord, RoundRecord
<1>5. ThreadsStand'
  BY <1>2, IdleThread, QueueStill DEF SchedulerInv, RunInv, ThreadsStand
<1>6. LoopMoves
  BY <1>1 DEF LoopMoves
<1> QED
  BY <1>4, <1>5, <1>6, LoopMovesKeeps

\* The loop while the run goes on.
LEMMA RunKeeps ==
    ASSUME SchedulerInv, React \/ RecoveryRaises \/ EndClaims \/ WaitEnds
    PROVE  SchedulerInv'
<1>1. /\ main \in Going /\ UNCHANGED <<vars, results, closing, mine, disturbances>>
      /\ main' \in {"claiming", "raised", "waiting", "recovering", "returned"}
      /\ turn' \in {turn, Loop, "none"} /\ UNCHANGED <<vars, mine>>
  BY DEF React, RecoveryRaises, EndClaims, WaitEnds, Going
<1>2. /\ thread \in [Thread -> ThreadRecord] /\ Loop \in Thread
      /\ closing' \in SUBSET Lane /\ cursor \in 0..2
      /\ round \in RoundRecord /\ NewRound \in RoundRecord /\ results' \in BOOLEAN
      /\ main' \in MainSteps
  BY <1>1 DEF SchedulerInv, RunInv, SchedulerTypeOK, ThreadRecord, RoundRecord, Thread,
              NewRound, MainSteps
<1>3. ToGiveBack'
  BY <1>1 DEF ToGiveBack
<1>4. \A l \in {} \cap Lane : ~LiveLease(lane[l].job)
  OBVIOUS
<1>5. CASE React
  <2> PICK L : L = HeldLanes(thread[Loop].got)
    OBVIOUS
  <2>1. \A l \in L \cap Lane : ~LiveLease(lane[l].job)
    BY DEF SchedulerInv, RunInv, ThreadsStand, HeldLanes, LiveLease
  <2>2. /\ lane' = Reaped(WithCancelled(lane, L)) /\ thread'[Loop] = NoThread
        /\ thread' = [thread EXCEPT ![Loop] = NoThread]
        /\ main' = "claiming" /\ cursor' = cursor
    BY <1>2, <1>5 DEF React
  <2>3. round' \in RoundRecord
    BY <1>5 DEF React, NewRound, RoundRecord
  <2>4. LoopStands'
    BY <2>2 DEF LoopStands
  <2> QED
    BY <1>1, <1>2, <1>3, <2>1, <2>2, <2>3, <2>4, LoopGoes
<1>6. CASE RecoveryRaises
  <2>1. /\ lane' = lane /\ thread' = [thread EXCEPT ![Loop] = NoThread]
        /\ main' = "raised" /\ cursor' = cursor /\ round' = round
    BY <1>6 DEF RecoveryRaises
  <2>2. LoopStands'
    BY <2>1 DEF LoopStands
  <2> QED
    BY <1>1, <1>2, <1>3, <1>4, <2>1, <2>2, LoopGoes
<1>7. CASE EndClaims
  <2>1. /\ lane' = lane /\ round' = NewRound
        /\ thread' = thread \/ thread' = [thread EXCEPT ![Loop] = Recovering]
        /\ main' \in {"waiting", "recovering", "returned"}
        /\ main' = "returned" => Active = {}
        /\ cursor' = IF round.last = "none" THEN cursor ELSE NextCursor(round.last)
    BY <1>7 DEF EndClaims
  <2>2. ASSUME NEW r \in Role
        PROVE  NextCursor(r) \in 0..2
    <3>1. RoleRank(r) \in 0..2
      BY DEF RoleRank, Role
    <3> QED
      BY <3>1 DEF NextCursor
  <2>3. cursor' \in 0..2
    BY <1>2, <2>1, <2>2 DEF RoundRecord
  <2>4. LoopStands'
    BY <2>1 DEF LoopStands, Active
  <2> QED
    BY <1>1, <1>2, <1>3, <1>4, <2>1, <2>3, <2>4, LoopGoes
<1>8. CASE WaitEnds
  <2>1. /\ lane' = lane /\ thread' = [thread EXCEPT ![Loop] = Recovering]
        /\ main' = "recovering" /\ cursor' = cursor /\ round' = round
    BY <1>8 DEF WaitEnds
  <2>2. LoopStands'
    BY <2>1 DEF LoopStands
  <2> QED
    BY <1>1, <1>2, <1>3, <1>4, <2>1, <2>2, LoopGoes
<1> QED
  BY <1>5, <1>6, <1>7, <1>8

\* A run starts with every lane free.
LEMMA StartKeeps ==
    ASSUME SchedulerInv, Start
    PROVE  SchedulerInv'
<1>1. \A l \in Lane : lane[l].at = "free"
  BY DEF SchedulerInv, RunInv, LoopStands, Start, Active
<1>2. /\ lane' = lane /\ mine' = {} /\ main' = "recovering" /\ UNCHANGED vars
      /\ \A l \in Lane : lane'[l] = Vacant
  BY <1>1 DEF SchedulerInv, RunInv, LanesStand, Start
<1>3. /\ thread' \in [Thread -> ThreadRecord] /\ Loop \in Thread
      /\ \A w \in Thread : thread'[w].at # "inspecting" /\ thread'[w].got = {}
      /\ results' \in BOOLEAN
  BY IdleThread DEF Start, Thread
<1>4. SchedulerTypeOK'
  BY <1>2, <1>3, IdleThread
     DEF SchedulerInv, RunInv, SchedulerTypeOK, Start, ThreadRecord, RoundRecord, MainSteps
<1>5. LoopStands' /\ ThreadsStand' /\ ToGiveBack'
  BY <1>2, <1>3 DEF LoopStands, ThreadsStand, ToGiveBack
<1>6. LoopMoves
  BY <1>2 DEF LoopMoves
<1> QED
  BY <1>4, <1>5, <1>6, LoopMovesKeeps

\* A crash leaves the claims to other processes.
LEMMA CrashKeeps ==
    ASSUME SchedulerInv, Crash
    PROVE  SchedulerInv'
<1>1. /\ main' = "off" /\ mine' = mine /\ UNCHANGED vars
      /\ \A l \in Lane : lane'[l] = Vacant
      /\ lane' \in [Lane -> LaneRecord] /\ closing' = {}
  BY RestingLane DEF Crash
<1>2. /\ thread' \in [Thread -> ThreadRecord] /\ Loop \in Thread
      /\ \A w \in Thread : thread'[w].at # "inspecting" /\ thread'[w].got = {}
  BY IdleThread DEF Crash, Thread
<1>3. disturbances' \in 0..MaxDisturbances
  BY Disturbed DEF SchedulerInv, RunInv, SchedulerTypeOK, Crash
<1>4. SchedulerTypeOK'
  BY <1>1, <1>2, <1>3, IdleThread
     DEF SchedulerInv, RunInv, SchedulerTypeOK, Crash, ThreadRecord, LaneRecord, RoundRecord,
         MainSteps
<1>5. LoopStands' /\ ThreadsStand' /\ ToGiveBack'
  BY <1>1, <1>2, RestingLane DEF LoopStands, ThreadsStand, ToGiveBack, Active
<1>6. LoopMoves
  BY <1>1 DEF LoopMoves, Going
<1> QED
  BY <1>4, <1>5, <1>6, LoopMovesKeeps

\* The loop when the run ends.
LEMMA EndKeeps ==
    ASSUME SchedulerInv,
           BeginShutdown \/ Gathered \/ LastRecovery \/ EndShutdown \/ Abandon \/ Exit
    PROVE  SchedulerInv'
<1>1. /\ main' \in {"stopping", "givingback", "lastrecovery", "stopped", "abandoning", "off"}
      /\ UNCHANGED <<vars, round, cursor, results, mine>> /\ (Disturb \/ UNCHANGED disturbances)
      /\ turn' \in {turn, Loop, "none"} /\ UNCHANGED <<vars, mine>>
      /\ \/ thread' = thread
         \/ thread' = [thread EXCEPT ![Loop] = NoThread]
         \/ thread' = [thread EXCEPT ![Loop] = Recovering]
  BY DEF BeginShutdown, Gathered, LastRecovery, EndShutdown, Abandon, Exit
<1>2. /\ round' \in RoundRecord /\ cursor' \in 0..2 /\ main' \in MainSteps /\ main' \notin Going
      /\ results' \in BOOLEAN
      /\ mine \in SUBSET Attempt /\ Active \in SUBSET Lane /\ closing \in SUBSET Lane
  BY <1>1 DEF SchedulerInv, RunInv, SchedulerTypeOK, RoundRecord, MainSteps, Going, Active
<1>3. ASSUME NEW a \in mine
      PROVE  a \in Attempt /\ (LiveLease(a)' <=> LiveLease(a)) /\ (Refused(a)' <=> Refused(a))
  BY <1>1, <1>2, QueueStill
<1>4. ASSUME lane' = lane \/ lane' = WithCancelled(lane, Active)
             \/ lane' = Reaped(lane) \/ lane' = Reaped(WithCancelled(lane, Active)),
             closing' \in SUBSET Lane, LoopStands', ToGiveBack'
      PROVE  SchedulerInv'
  BY <1>1, <1>2, <1>4, LoopGoes
<1>5. ASSUME lane' = lane \/ lane' = WithCancelled(lane, Active)
             \/ lane' = Reaped(lane) \/ lane' = Reaped(WithCancelled(lane, Active))
      PROVE  \A l \in Lane :
                /\ lane'[l] = Vacant \/ Goes(l)
                /\ lane' = lane \/ lane' = WithCancelled(lane, Active) =>
                      lane'[l].at = lane[l].at /\ lane'[l].job = lane[l].job
                /\ lane' = Reaped(lane) => lane'[l].at # "done"
  BY <1>5, LanesKept
<1>6. CASE BeginShutdown
  <2>1. /\ lane' = WithCancelled(lane, Active) /\ closing' = Active /\ main' = "stopping"
        /\ main \in Going
    BY <1>6 DEF BeginShutdown, Going
  <2>2. Active' = Active
    BY <1>5, <2>1 DEF Active
  <2>3. ASSUME NEW a \in mine, LiveLease(a)
        PROVE  \E l \in Active : lane'[l].job = a
    <3>1. PICK l \in Lane : lane[l].job = a
      BY <2>1, <2>3 DEF SchedulerInv, RunInv, NoClaimForgotten, BeginShutdown, Going
    <3>2. lane[l].at # "free"
      BY <1>3, <3>1, SchedulerAssumption DEF SchedulerInv, RunInv, LanesStand, Vacant
    <3> QED
      BY <1>5, <2>1, <3>1, <3>2 DEF Active
  <2>4. LoopStands'
    BY <2>1, <2>2 DEF LoopStands
  <2>5. ToGiveBack'
    BY <1>1, <1>3, <2>1, <2>3 DEF ToGiveBack
  <2> QED
    BY <1>2, <1>4, <2>1, <2>4, <2>5
<1>7. CASE Gathered
  <2>1. /\ lane' = lane /\ closing' = closing /\ main' = "givingback" /\ main = "stopping"
        /\ closing = Active /\ \A l \in closing : Done(l)
    BY <1>7 DEF Gathered, SchedulerInv, RunInv, LoopStands
  <2>2. LoopStands'
    BY <2>1 DEF LoopStands, Active, Done
  <2>3. ToGiveBack'
    BY <1>1, <1>3, <2>1 DEF SchedulerInv, RunInv, ToGiveBack
  <2> QED
    BY <1>2, <1>4, <2>1, <2>2, <2>3
<1>8. CASE LastRecovery
  <2>1. /\ lane' = lane /\ closing' = closing /\ main' = "lastrecovery" /\ main = "givingback"
        /\ closing = {}
    BY <1>8 DEF LastRecovery
  <2>2. LoopStands'
    BY <2>1 DEF SchedulerInv, RunInv, LoopStands, Active, Done
  <2>3. ToGiveBack'
    BY <1>1, <1>3, <2>1 DEF SchedulerInv, RunInv, ToGiveBack
  <2> QED
    BY <1>2, <1>4, <2>1, <2>2, <2>3
<1>9. CASE EndShutdown
  <2>1. /\ lane' = Reaped(lane) /\ closing' = closing /\ main' = "stopped"
        /\ main = "lastrecovery" /\ closing = {}
    BY <1>9 DEF EndShutdown, SchedulerInv, RunInv, LoopStands
  <2>2. \A l \in Lane : lane[l].at \in {"free", "done"}
    BY <2>1 DEF SchedulerInv, RunInv, LoopStands, Active, Done
  <2>3. \A l \in Lane : lane'[l].at = "free"
    BY <1>5, <2>1, <2>2, RestingLane DEF Goes
  <2>4. LoopStands'
    BY <2>1, <2>3 DEF LoopStands, Active
  <2>5. ToGiveBack'
    BY <1>1, <1>3, <2>1 DEF SchedulerInv, RunInv, ToGiveBack
  <2> QED
    BY <1>2, <1>4, <2>1, <2>4, <2>5
<1>10. CASE Abandon
  <2>1. lane' = WithCancelled(lane, Active) /\ closing' = closing /\ main' = "abandoning"
    BY <1>10 DEF Abandon
  <2> QED
    BY <1>2, <1>4, <2>1 DEF LoopStands, ToGiveBack
<1>11. CASE Exit
  <2>1. /\ lane' = Reaped(lane) /\ closing' = closing /\ main' = "off"
        /\ \A l \in Active : Done(l)
    BY <1>11 DEF Exit, SchedulerInv, RunInv, LoopStands
  <2>2. \A l \in Lane : lane[l].at \in {"free", "done"}
    BY <2>1 DEF Active, Done
  <2>3. \A l \in Lane : lane'[l].at = "free"
    BY <1>5, <2>1, <2>2, RestingLane DEF Goes
  <2>4. LoopStands' /\ ToGiveBack'
    BY <2>1, <2>3, <1>11 DEF LoopStands, Active, ToGiveBack
  <2> QED
    BY <1>2, <1>4, <2>1, <2>4
<1> QED
  BY <1>6, <1>7, <1>8, <1>9, <1>10, <1>11

\* A claim given back is over; what the store refuses it goes on refusing.
LEMMA GiveBackKeeps ==
    ASSUME SchedulerInv, NEW l \in Lane, GiveBack(l)
    PROVE  SchedulerInv'
<1>1. PICK a : a = lane[l].job
  OBVIOUS
<1>2. /\ main = "givingback" /\ l \in closing /\ closing' = closing \ {l}
      /\ UNCHANGED <<lane, thread, main, turn, round, cursor, results>>
      /\ Disturb \/ UNCHANGED disturbances
  BY DEF GiveBack
<1>3. /\ a \in Attempt /\ closing \in SUBSET Lane /\ mine \in SUBSET Attempt
      /\ closing \subseteq Active
  BY <1>1, <1>2
     DEF SchedulerInv, RunInv, SchedulerTypeOK, LoopStands, LanesStand, Active
<1>4. UnclaimedStep /\ mine' \in SUBSET mine
  BY <1>1, <1>3, AttemptOver DEF GiveBack, UnclaimedStep
<1>5. Carried
  BY <1>4, UnclaimedCarries DEF SchedulerInv
<1>6. \A b : Made(b)' <=> Made(b)
  BY <1>5 DEF Carried, Made
<1>7. QueueInv'
  BY <1>4, UnclaimedQueue, QueueKeeps DEF SchedulerInv
<1>8. SchedulerTypeOK'
  BY <1>2, <1>3, <1>4, Disturbed DEF SchedulerInv, RunInv, SchedulerTypeOK
<1>9. LanesStand' /\ LanesJudged' /\ MineMade'
  BY <1>2, <1>4, <1>6 DEF SchedulerInv, RunInv, LanesStand, LanesJudged, MineMade
<1>10. LoopStands'
  BY <1>2 DEF SchedulerInv, RunInv, LoopStands, Active, Done
<1>11. ThreadsStand'
  <2>1. thread[Loop].got \in SUBSET Job
    BY DEF SchedulerInv, RunInv, SchedulerTypeOK, Thread
  <2> QED
    BY <1>2, <1>5, <2>1 DEF SchedulerInv, RunInv, ThreadsStand, Carried
<1>12. CancelledLost' /\ DoneSettled' /\ NoClaimForgotten'
  BY <1>2 DEF CancelledLost, DoneSettled, NoClaimForgotten, Going
<1>13. ToGiveBack'
  <2> SUFFICES ASSUME NEW b \in mine', LiveLease(b)'
               PROVE  Refused(b)' \/ \E m \in closing' : lane[m].job = b
    BY <1>2 DEF ToGiveBack
  <2>1. b \in mine /\ b \in Attempt /\ LiveLease(b)
    BY <1>3, <1>4, <1>5 DEF Carried
  <2>2. Refused(b) \/ \E m \in closing : lane[m].job = b
    BY <1>2, <2>1 DEF SchedulerInv, RunInv, ToGiveBack
  <2>3. CASE InterruptJob(a)
    <3>1. ~LiveLease(a)' /\ proc' = proc
      BY <1>3, <2>3, AttemptOver DEF InterruptJob, EndAttempt, processVars
    <3>2. ~ClearExternalProcess(b)
      BY <2>1, <3>1, NothingCleared DEF SchedulerInv, QueueInv
    <3>3. b # a
      BY <3>1
    <3> QED
      BY <1>1, <1>2, <1>4, <2>1, <2>2, <3>2, <3>3, RefusalStays DEF SchedulerInv
  <2>4. CASE ~MayEnd(a) /\ UNCHANGED vars
    <3>1. InStage(b[1])
      BY <2>1, AttemptPair DEF SchedulerInv, QueueInv, StageInv, Agree, InStage, ItemOf, LiveLease
    <3>2. b = a => Refused(b)
      BY <2>1, <2>4, <3>1 DEF MayEnd, Refused, NoPendingInterrupt
    <3> QED
      BY <1>1, <1>2, <2>1, <2>2, <2>4, <3>2, QueueStill
  <2>5. CASE mine' = mine \ {a} /\ UNCHANGED vars
    BY <1>1, <1>2, <2>1, <2>2, <2>5, QueueStill
  <2> QED
    BY <1>1, <2>3, <2>4, <2>5 DEF GiveBack
<1> QED
  BY <1>7, <1>8, <1>9, <1>10, <1>11, <1>12, <1>13 DEF SchedulerInv, RunInv

-----------------------------------------------------------------------------
(* Claims. *)

\* While lanes are left to try, the next of them is one that has not been tried.
LEMMA NextLaneStands ==
    ASSUME SchedulerInv, round.tried # Lane
    PROVE  NextLane \in Lane \ round.tried
<1> DEFINE key(l) == 3 * LaneNo[l] + Turned(l)
           left == Lane \ round.tried
           T == {key(l) : l \in left}
<1>1. ASSUME NEW r \in Role
      PROVE  RoleRank(r) \in 0..2
  BY <1>1 DEF RoleRank, Role
<1>2. ASSUME NEW r \in Role, NEW s \in Role, RoleRank(r) = RoleRank(s)
      PROVE  r = s
  BY <1>2 DEF RoleRank, Role
<1>3. cursor \in 0..2 /\ round.tried \in SUBSET Lane
  BY DEF SchedulerInv, RunInv, SchedulerTypeOK
<1>4. \A l \in Lane : LaneNo[l] \in Nat /\ LaneRole[l] \in Role
  BY SchedulerAssumption
<1>5. \A l \in Lane : Turned(l) \in 0..2
  BY <1>1, <1>3, <1>4 DEF Turned
<1>6. ASSUME NEW l \in Lane, NEW m \in Lane, LaneNo[l] = LaneNo[m], Turned(l) = Turned(m)
      PROVE  l = m
  <2>1. /\ RoleRank(LaneRole[l]) \in 0..2 /\ RoleRank(LaneRole[m]) \in 0..2
    BY <1>1, <1>4
  <2>2. RoleRank(LaneRole[l]) = RoleRank(LaneRole[m])
    BY <1>3, <1>6, <2>1 DEF Turned
  <2> QED
    BY <1>2, <1>4, <1>6, <2>2, SchedulerAssumption
<1>7. T \in SUBSET Nat /\ T # {}
  <2>1. \A l \in left : key(l) \in Nat
    BY <1>4, <1>5
  <2>2. left # {}
    BY <1>3
  <2> HIDE DEF key, left
  <2> QED
    BY <2>1, <2>2
<1>8. PICK n \in T : \A m \in T : ~ (<<m, n>> \in OpToRel(<, Nat))
  BY <1>7, NatLessThanWellFounded, WFMin, Zenon
<1>9. n \in Nat /\ \A m \in T : ~ (m < n)
  BY <1>7, <1>8 DEF OpToRel
<1>10. PICK l \in left : key(l) = n
  OBVIOUS
<1>11. ASSUME NEW m \in left, m # l
       PROVE  Before(l, m)
  <2>1. /\ ~ (key(m) < key(l)) /\ LaneNo[l] \in Nat /\ LaneNo[m] \in Nat
        /\ Turned(l) \in 0..2 /\ Turned(m) \in 0..2
    BY <1>4, <1>5, <1>9, <1>10
  <2>2. ~ (LaneNo[l] = LaneNo[m] /\ Turned(l) = Turned(m))
    BY <1>6, <1>11
  <2> QED
    BY <2>1, <2>2 DEF Before
<1>12. \E k \in left : \A m \in left : m = k \/ Before(k, m)
  BY <1>10, <1>11
<1> QED
  BY <1>12 DEF NextLane

\* The lane that takes a claim was free, and the claim is a new one.
LEMMA ClaimKeeps ==
    ASSUME SchedulerInv, NEW l \in Lane, NEW j \in Job, ClaimJob(j), main = "claiming",
           lane[l].at = "free", NEW a, a = <<j, attemptCount[j] + 1>>,
           NEW n, lane' = [lane EXCEPT ![l] = n],
           n = [at |-> "running", job |-> a, worker |-> "running", beat |-> "on",
                outcome |-> "none", cancel |-> FALSE],
           mine' = mine \cup {a}, round' \in RoundRecord,
           UNCHANGED <<thread, main, turn, cursor, results, closing, disturbances>>
    PROVE  SchedulerInv'
<1>1. /\ a \in Attempt /\ Made(a)'
      /\ \A b \in Attempt : Made(b) => Made(b)' /\ (LiveLease(b)' => LiveLease(b))
  BY ClaimCarries DEF SchedulerInv
<1>2. ~Made(a)
  BY <1>1, AttemptPair DEF Made, SchedulerInv, QueueInv, TypeOK, AttemptNo
<1>3. /\ n \in LaneRecord /\ n.at = "running" /\ n.job = a /\ n.cancel = FALSE
      /\ n.outcome = "none" /\ Judged(n) /\ ~Lost(n)
  BY <1>1 DEF LaneRecord, LaneSteps, WorkerStates, BeatStates, Outcomes, Judged, Lost
<1>4. /\ lane \in [Lane -> LaneRecord] /\ lane' \in [Lane -> LaneRecord]
      /\ lane'[l] = n /\ \A m \in Lane \ {l} : lane'[m] = lane[m]
  BY <1>3 DEF SchedulerInv, RunInv, SchedulerTypeOK, LaneRecord
<1>5. mine \in SUBSET Attempt /\ \A b \in mine : Made(b)
  BY DEF SchedulerInv, RunInv, SchedulerTypeOK, MineMade
<1>6. \A m \in Lane : lane[m].at # "free" => lane[m].job \in Attempt /\ Made(lane[m].job)
  BY DEF SchedulerInv, RunInv, LanesStand
<1>7. \A m \in Lane : Lost(lane[m]) \/ Done(m) => lane[m].at # "free"
  BY DEF SchedulerInv, RunInv, LanesStand, Lost, Done, Vacant
<1>8. QueueInv'
  BY QueueKeeps DEF SchedulerInv, Next, QueueStep
<1>9. SchedulerTypeOK'
  BY <1>1, <1>4 DEF SchedulerInv, RunInv, SchedulerTypeOK, LaneRecord, RoundRecord
<1>10. LanesStand' /\ LanesJudged' /\ MineMade'
  BY <1>1, <1>3, <1>4, <1>5, <1>6 DEF SchedulerInv, RunInv, LanesStand, LanesJudged, MineMade
<1>11. LoopStands'
  BY DEF SchedulerInv, RunInv, LoopStands
<1>12. ThreadsStand'
  BY DEF SchedulerInv, RunInv, ThreadsStand, LoopStands, NoThread
<1>13. CancelledLost'
  BY <1>1, <1>3, <1>4, <1>6, <1>7 DEF SchedulerInv, RunInv, CancelledLost
<1>14. DoneSettled'
  <2> SUFFICES ASSUME NEW m \in Lane, lane'[m].at = "done", NEW b \in mine', lane'[m].job = b
               PROVE  ~LiveLease(b)'
    BY DEF DoneSettled, Done
  <2>1. m # l /\ lane'[m] = lane[m] /\ Done(m)
    BY <1>3, <1>4 DEF Done
  <2>2. b \in Attempt /\ b \in mine /\ Made(b)
    BY <1>2, <1>6, <1>7, <2>1
  <2>3. ~LiveLease(b)
    BY <2>1, <2>2 DEF SchedulerInv, RunInv, DoneSettled, Going
  <2> QED
    BY <1>1, <2>2, <2>3
<1>15. NoClaimForgotten'
  <2> SUFFICES ASSUME NEW b \in mine', LiveLease(b)'
               PROVE  \E m \in Lane : lane'[m].job = b
    BY DEF NoClaimForgotten
  <2>1. CASE b = a
    BY <1>3, <1>4, <2>1
  <2>2. CASE b # a
    <3>1. b \in mine /\ b \in Attempt /\ LiveLease(b)
      BY <1>1, <1>5, <2>2
    <3>2. PICK m \in Lane : lane[m].job = b
      BY <3>1 DEF SchedulerInv, RunInv, NoClaimForgotten
    <3>3. m # l
      BY <3>1, <3>2, SchedulerAssumption DEF SchedulerInv, RunInv, LanesStand, Vacant
    <3> QED
      BY <1>4, <3>2, <3>3
  <2> QED
    BY <2>1, <2>2
<1>16. ToGiveBack'
  BY DEF ToGiveBack
<1> QED
  BY <1>8, <1>9, <1>10, <1>11, <1>12, <1>13, <1>14, <1>15, <1>16 DEF SchedulerInv, RunInv

LEMMA TryClaimKeeps ==
    ASSUME SchedulerInv, TryClaim
    PROVE  SchedulerInv'
<1>1. PICK l : l = NextLane
  OBVIOUS
<1>2. /\ l \in Lane /\ main = "claiming"
      /\ UNCHANGED <<thread, main, turn, cursor, results, closing, disturbances>>
  BY <1>1, NextLaneStands DEF TryClaim, MoreClaims
<1>3. round \in RoundRecord /\ LaneRole[l] \in Role
  BY <1>2, SchedulerAssumption DEF SchedulerInv, RunInv, SchedulerTypeOK, RoundRecord
<1>4. ASSUME round' = [round EXCEPT !.tried = @ \cup {l}], UNCHANGED <<lane, mine>>,
             UnclaimedStep, proc' = proc
      PROVE  SchedulerInv'
  <2>1. round' \in RoundRecord
    BY <1>2, <1>3, <1>4 DEF RoundRecord
  <2>2. \A a \in Attempt : ~ClearExternalProcess(a)
    BY <1>4, NothingCleared DEF SchedulerInv, QueueInv
  <2> QED
    BY <1>2, <1>4, <2>1, <2>2, QueueBeside, BesideKeeps
<1>5. CASE round' = [round EXCEPT !.tried = @ \cup {l}] /\ UNCHANGED <<vars, lane, mine>>
  BY <1>4, <1>5 DEF UnclaimedStep, vars, processVars
<1>6. CASE round' = [round EXCEPT !.tried = @ \cup {l}] /\ RecoverOrNothing
           /\ UNCHANGED <<lane, mine>>
  BY <1>4, <1>6, RecoveryUnclaimed DEF SchedulerInv, QueueInv
<1>7. ASSUME NEW j \in Job, lane[l].at = "free", ClaimJob(j),
             lane' = [lane EXCEPT ![l] = [at |-> "running", job |-> <<j, attemptCount[j] + 1>>,
                                          worker |-> "running", beat |-> "on",
                                          outcome |-> "none", cancel |-> FALSE]],
             round' = [round EXCEPT !.tried = @ \cup {l}, !.last = LaneRole[l]],
             mine' = mine \cup {<<j, attemptCount[j] + 1>>}
      PROVE  SchedulerInv'
  <2>1. round' \in RoundRecord
    BY <1>2, <1>3, <1>7 DEF RoundRecord
  <2> QED
    BY <1>2, <1>7, <2>1, ClaimKeeps
<1> QED
  BY <1>1, <1>5, <1>6, <1>7 DEF TryClaim

-----------------------------------------------------------------------------
(* The theorems. *)

LEMMA SchedulerStarts == SchedulerInit => SchedulerInv
<1> SUFFICES ASSUME SchedulerInit
             PROVE  SchedulerInv
  OBVIOUS
<1>1. QueueInv
  BY TypeInit, StageInit, ControlInit DEF SchedulerInit, QueueInv
<1>2. /\ lane = [l \in Lane |-> Vacant] /\ thread = [w \in Thread |-> NoThread]
      /\ main = "off" /\ turn = "none" /\ round = NewRound /\ cursor = 0
      /\ results = FALSE /\ closing = {} /\ mine = {} /\ disturbances = 0
  BY DEF SchedulerInit
<1>3. /\ lane \in [Lane -> LaneRecord] /\ \A l \in Lane : lane[l] = Vacant
      /\ thread \in [Thread -> ThreadRecord] /\ Loop \in Thread
      /\ \A w \in Thread : thread[w].at = "none" /\ thread[w].got = {}
      /\ results \in BOOLEAN
  BY <1>2, RestingLane, IdleThread DEF Thread
<1>4. SchedulerTypeOK
  BY <1>2, <1>3, IdleThread, SchedulerAssumption
     DEF SchedulerTypeOK, LaneRecord, ThreadRecord, RoundRecord, MainSteps
<1>5. LanesStand /\ LanesJudged /\ CancelledLost /\ DoneSettled
  BY <1>2, <1>3, RestingLane DEF LanesStand, LanesJudged, CancelledLost, DoneSettled, Going
<1>6. LoopStands /\ ThreadsStand
  BY <1>2, <1>3, RestingLane DEF LoopStands, ThreadsStand, Active
<1>7. MineMade /\ NoClaimForgotten /\ ToGiveBack
  BY <1>2 DEF MineMade, NoClaimForgotten, ToGiveBack
<1> QED
  BY <1>1, <1>4, <1>5, <1>6, <1>7 DEF SchedulerInv, RunInv

LEMMA SchedulerStep == SchedulerInv /\ [SchedulerNext]_allVars => SchedulerInv'
<1> SUFFICES ASSUME SchedulerInv, [SchedulerNext]_allVars
             PROVE  SchedulerInv'
  OBVIOUS
<1>1. ASSUME NEW l \in Lane, LaneStep(l) \/ WorkerOf(l) \/ Heartbeat(l)
      PROVE  SchedulerInv'
  BY <1>1, LaneMovesKeeps, BesideKeeps, WaitMoves, TaskMoves, OutcomeMoves, LeavingMoves,
     ForgottenBeside, WorkerBeside
     DEF LaneStep, WorkerOf
<1>2. ASSUME NEW w \in Thread, ThreadStep(w)
      PROVE  SchedulerInv'
  BY <1>2, ThreadBeside, BesideKeeps
<1>3. CASE Environment
  BY <1>3, EnvironmentBeside, BesideKeeps
<1>4. CASE LoopStep
  BY <1>4, RunKeeps, EndKeeps, GiveBackKeeps, TryClaimKeeps DEF LoopStep
<1>5. CASE Start \/ BeginShutdown \/ Abandon \/ Crash
  BY <1>5, StartKeeps, EndKeeps, CrashKeeps
<1>6. CASE UNCHANGED allVars
  <2>1. /\ UnclaimedStep /\ proc' = proc
        /\ UNCHANGED <<lane, thread, loopVars, mine, disturbances>>
    BY <1>6 DEF allVars, schedVars, UnclaimedStep, vars, processVars
  <2>2. \A a \in Attempt : ~ClearExternalProcess(a)
    BY <2>1, NothingCleared DEF SchedulerInv, QueueInv
  <2> QED
    BY <2>1, <2>2, RoundStill, QueueBeside, BesideKeeps DEF loopVars
<1> QED
  BY <1>1, <1>2, <1>3, <1>4, <1>5, <1>6 DEF SchedulerNext

\* Every call the scheduler makes of the store is one the store offers: what
\* is proved of the queue on its own holds of the queue under a scheduler.
LEMMA StoreStep == SchedulerInv /\ [SchedulerNext]_allVars => [Next]_vars
<1> SUFFICES ASSUME SchedulerInv, [SchedulerNext]_allVars
             PROVE  UnclaimedStep \/ \E j \in Job : ClaimJob(j)
  BY UnclaimedQueue DEF Next, QueueStep
<1>1. ASSUME NEW l \in Lane, LaneStep(l) \/ WorkerOf(l) \/ Heartbeat(l)
      PROVE  UnclaimedStep
  BY <1>1, WaitMoves, TaskMoves, OutcomeMoves, LeavingMoves, ForgottenBeside, WorkerBeside
     DEF LaneStep, WorkerOf, LaneMoves, Beside
<1>2. ASSUME NEW w \in Thread, ThreadStep(w)
      PROVE  UnclaimedStep
  BY <1>2, ThreadBeside DEF Beside
<1>3. CASE Environment
  BY <1>3, EnvironmentBeside DEF Beside
<1>4. CASE TryClaim
  BY <1>4, RecoveryUnclaimed DEF TryClaim, SchedulerInv, QueueInv, UnclaimedStep
<1>5. ASSUME NEW l \in Lane, GiveBack(l)
      PROVE  UnclaimedStep
  <2>1. lane[l].job \in Attempt
    BY <1>5 DEF GiveBack, SchedulerInv, RunInv, LoopStands, LanesStand, Active
  <2> QED
    BY <1>5, <2>1, AttemptOver DEF GiveBack, UnclaimedStep
<1>6. CASE \/ React \/ RecoveryRaises \/ EndClaims \/ WaitEnds \/ Gathered \/ LastRecovery
           \/ EndShutdown \/ Exit \/ Start \/ BeginShutdown \/ Abandon \/ Crash
           \/ UNCHANGED allVars
  <2>1. UNCHANGED vars
    BY <1>6
       DEF React, RecoveryRaises, EndClaims, WaitEnds, Gathered, LastRecovery, EndShutdown,
           Exit, Start, BeginShutdown, Abandon, Crash, allVars
  <2> QED
    BY <2>1 DEF UnclaimedStep
<1> QED
  BY <1>1, <1>2, <1>3, <1>4, <1>5, <1>6 DEF SchedulerNext, LoopStep

\* The scheduler's state is always one that its invariant describes.
THEOREM SchedulerInvariant == SchedulerSpec => []SchedulerInv
  BY SchedulerStarts, SchedulerStep, PTL DEF SchedulerSpec

\* The queue under a scheduler behaves as the queue's specification says: every
\* call of the adapter (sqlite_scheduler.py) is an operation of the store, taken
\* when the store allows it, and all that is proved of Spec carries over.
THEOREM SchedulerRunsQueue == SchedulerSpec => Spec
<1>1. SchedulerInit => Init
  BY DEF SchedulerInit
<1> QED
  BY <1>1, StoreStep, SchedulerInvariant, PTL DEF SchedulerSpec, Spec

\* Outside the end of a run no worker is cancelled whose claim is live, though
\* recovery names jobs and not tokens (scheduler.py:478).
THEOREM CancelOnlyLostAlways == SchedulerSpec => []CancelOnlyLost
<1>1. SchedulerInv => CancelOnlyLost
  BY DEF SchedulerInv, RunInv, CancelledLost, CancelOnlyLost, Lost, Going
<1> QED
  BY <1>1, SchedulerInvariant, PTL

\* While a run goes on, each of its live claims is held by a lane or has been
\* reported (scheduler.py:548).
THEOREM NoClaimForgottenAlways == SchedulerSpec => []NoClaimForgotten
<1>1. SchedulerInv => NoClaimForgotten
  BY DEF SchedulerInv, RunInv
<1> QED
  BY <1>1, SchedulerInvariant, PTL

\* After a shutdown no claim of the run is live but those the store refuses to
\* give back (scheduler.py:440, storage.py:9322).
THEOREM ShutdownGivesBackAlways == SchedulerSpec => []ShutdownGivesBack
<1>1. SchedulerInv => ShutdownGivesBack
  BY DEF SchedulerInv, RunInv, ToGiveBack, LoopStands, ShutdownGivesBack, Refused
<1> QED
  BY <1>1, SchedulerInvariant, PTL

\* A worker's result is judged only under a heartbeat that has not ended
\* (scheduler.py:1000).
THEOREM HeartbeatPrecedesAlways == SchedulerSpec => []HeartbeatPrecedes
<1>1. SchedulerInv => HeartbeatPrecedes
  BY DEF SchedulerInv, RunInv, LanesJudged, Judged, HeartbeatPrecedes
<1> QED
  BY <1>1, SchedulerInvariant, PTL
=============================================================================
