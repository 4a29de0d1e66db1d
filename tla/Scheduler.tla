----------------------------- MODULE Scheduler -----------------------------
(***************************************************************************)
(* One scheduler process over the durable queue: Scheduler of scheduler.py *)
(* through the adapter of sqlite_scheduler.py, composed with JobStore.     *)
(*                                                                         *)
(* Every store call of the scheduler is the JobStore action of that name   *)
(* taken together with the step of its caller.  The event loop runs one    *)
(* coroutine at a time: "turn" names the one between two of its awaits.    *)
(* Worker threads, other processes and time do not wait for it.            *)
(*                                                                         *)
(* A lane is a _WorkerSlot.  While its task runs, the worker and the       *)
(* heartbeat are tasks of their own; the lane waits for the first of them. *)
(* An accepted heartbeat and the poll that follows are one step: a request *)
(* that falls between them is seen by the next poll.                       *)
(***************************************************************************)
EXTENDS JobStore

CONSTANTS Lane,            \* the worker slots
          LaneRole,        \* the role of each
          LaneNo,          \* its place in the pool of that role
          GlobalSlots,     \* the scheduler's own global_concurrency_limit
          NoClaim,         \* marks a lane without a job
          MaxDisturbances  \* bound: crashes, shutdowns, requests, storage errors,
                           \* lost heartbeats and changed bindings

Loop == "loop"   \* the coroutine of run_until_quiescent or shutdown
Thread == Lane \cup {Loop}

ASSUME SchedulerAssumption ==
    /\ LaneRole \in [Lane -> Role]
    /\ LaneNo \in [Lane -> Nat]
    /\ \A l, m \in Lane : LaneRole[l] = LaneRole[m] /\ LaneNo[l] = LaneNo[m] => l = m
    /\ GlobalSlots \in Nat \ {0}
    /\ NoClaim \notin Attempt
    /\ Loop \notin Lane
    /\ Thread \subseteq Reconciler
    /\ MaxDisturbances \in Nat

LaneSteps == {"free", "running", "stopping", "gathering", "holding", "recovering", "done"}
WorkerStates == {"none", "running", "stopping", "returned", "raised", "lost", "ended"}
BeatStates == {"none", "on", "asked", "lost", "unavailable"}
Outcomes == {"none", "returned", "valid", "raised", "refused", "asked", "lost",
             "unavailable", "cancelled"}
MainSteps == {"off", "recovering", "claiming", "waiting", "raised", "returned", "stopping",
              "givingback", "lastrecovery", "stopped", "abandoning"}

VARIABLES lane,         \* each slot, with the task that runs its job
          thread,       \* recover_expired_leases in a worker thread, by its caller
          main,         \* the loop, or the shutdown
          turn,         \* whose synchronous section the event loop is in
          round,        \* this run_once: lanes tried, role claimed last, recovery progress
          cursor,       \* _role_cursor
          results,      \* last_reconciliation_results, shared by the threads, has an entry
          closing,      \* slots a shutdown has still to give back
          mine,         \* claims this run answers for: not yet reported lost or in error
          disturbances  \* disturbances so far

loopVars == <<main, turn, round, cursor, results, closing>>
schedVars == <<lane, thread, loopVars, mine, disturbances>>
allVars == <<vars, schedVars>>

Vacant == [at |-> "free", job |-> NoClaim, worker |-> "none", beat |-> "none",
           outcome |-> "none", cancel |-> FALSE]
NoThread == [at |-> "none", of |-> NoClaim, got |-> {}, counted |-> FALSE]
Recovering == [NoThread EXCEPT !.at = "recovering"]
NewRound == [tried |-> {}, last |-> "none", progressed |-> FALSE]

SchedulerTypeOK ==
    /\ lane \in [Lane -> [at : LaneSteps, job : Attempt \cup {NoClaim}, worker : WorkerStates,
                          beat : BeatStates, outcome : Outcomes, cancel : BOOLEAN]]
    /\ thread \in [Thread ->
                     [at : {"none", "recovering", "claiming", "inspecting", "finished", "raised"},
                      of : Attempt \cup {NoClaim}, got : SUBSET Job, counted : BOOLEAN]]
    /\ main \in MainSteps
    /\ turn \in Thread \cup {"none"}
    /\ round \in [tried : SUBSET Lane, last : Role \cup {"none"}, progressed : BOOLEAN]
    /\ cursor \in 0..2
    /\ results \in BOOLEAN
    /\ closing \subseteq Lane
    /\ mine \subseteq Attempt
    /\ disturbances \in 0..MaxDisturbances

SchedulerInit ==
    /\ Init
    /\ lane = [l \in Lane |-> Vacant]
    /\ thread = [w \in Thread |-> NoThread]
    /\ main = "off" /\ turn = "none" /\ round = NewRound /\ cursor = 0
    /\ results = FALSE /\ closing = {} /\ mine = {}
    /\ disturbances = 0

Disturb == disturbances < MaxDisturbances /\ disturbances' = disturbances + 1

-----------------------------------------------------------------------------
(* recover_expired_leases of the adapter, in a thread: one transaction of the *)
(* store, then at most one expired process.  How many it has inspected, each  *)
(* thread reads off the list that all of them reset and append to.            *)

RecoverOrNothing ==
    IF Recovered # {} \/ slotLapsed # {} THEN RecoverExpiredLeases ELSE UNCHANGED vars

ThreadOnly == UNCHANGED <<lane, main, turn, round, cursor, closing, mine, disturbances>>

ThreadRecovers(w) ==
    /\ thread[w].at = "recovering"
    /\ RecoverOrNothing
    /\ thread' = [thread EXCEPT ![w].at = "claiming", ![w].got = Recovered]
    /\ results' = FALSE
    /\ ThreadOnly

MayReconcile(a) ==
    /\ proc[a] = "active" /\ jobStatus[a[1]] = "running"
    /\ a = Current(a[1]) /\ a[1] \in lapsed /\ Reconcilable(a)

\* The adapter forgets the expired processes (a faulty variant).
ThreadClaims_Never(w) ==
    /\ thread[w].at = "claiming"
    /\ thread' = [thread EXCEPT ![w].at = "finished", ![w].counted = results]
    /\ UNCHANGED <<vars, results>> /\ ThreadOnly

\* The test of the adapter's loop: a process is claimed only while the list is empty,
\* whoever has filled or reset it; the count returned is that of the list, too.
ThreadClaims(w) ==
    /\ thread[w].at = "claiming"
    /\ \/ \E a \in Attempt :
             /\ ~results
             /\ ClaimReconciliation(w, a, FALSE)
             /\ thread' = [thread EXCEPT ![w].at = "inspecting", ![w].of = a]
       \/ /\ results \/ \A a \in Attempt : ~MayReconcile(a)
          /\ thread' = [thread EXCEPT ![w].at = "finished", ![w].counted = results]
          /\ UNCHANGED vars
    /\ UNCHANGED results /\ ThreadOnly

\* The reconciler's verdict is committed and appended, or raises under a stale fence.
ThreadReconciles(w) ==
    LET a == thread[w].of
    IN
    /\ thread[w].at = "inspecting"
    /\ \/ /\ QuarantineProcess(w, a)
          /\ thread' = [thread EXCEPT ![w].at = "claiming"]
          /\ results' = TRUE
       \/ /\ ResolveProcess(w, a)
          /\ thread' = [thread EXCEPT ![w].at = "claiming", ![w].got = @ \cup {a[1]}]
          /\ results' = TRUE
       \/ /\ ~ReconciliationHeld(w, a)
          /\ thread' = [thread EXCEPT ![w].at = "raised"]
          /\ UNCHANGED <<vars, results>>
    /\ ThreadOnly

ThreadEnded(w) == thread[w].at \in {"finished", "raised"}

-----------------------------------------------------------------------------
(* The loop. *)

Active == {l \in Lane : lane[l].at # "free"}
Done(l) == lane[l].at = "done"

\* task.cancel() on every lane of L whose task is not done.
WithCancelled(lanes, L) ==
    [l \in Lane |-> IF l \in L /\ lanes[l].at \notin {"free", "done"}
                    THEN [lanes[l] EXCEPT !.cancel = TRUE] ELSE lanes[l]]

\* The lanes of every job ever recovered (a faulty variant).
HeldLanes_EverRecovered(got) ==
    {l \in Active : \E a \in Attempt : a[1] = lane[l].job[1] /\ attemptStatus[a] = "expired"}

\* _cancel_recovered_jobs: the lanes of the jobs just recovered.
HeldLanes(got) == {l \in Active : lane[l].job[1] \in got}

\* _reap_finished_slots
Reaped(lanes) == [l \in Lane |-> IF lanes[l].at = "done" THEN Vacant ELSE lanes[l]]

Start ==
    /\ main = "off"
    /\ main' = "recovering"
    /\ thread' = [w \in Thread |-> IF w = Loop THEN Recovering ELSE NoThread]
    /\ round' = NewRound /\ cursor' = 0 /\ results' = FALSE /\ mine' = {}
    /\ UNCHANGED <<vars, lane, turn, closing, disturbances>>

\* The recovery is back: lanes of recovered jobs are cancelled, finished ones
\* reaped, and claiming begins without a pause.
React ==
    LET got == thread[Loop].got
    IN
    /\ main = "recovering" /\ turn = "none"
    /\ thread[Loop].at = "finished"
    /\ lane' = Reaped(WithCancelled(lane, HeldLanes(got)))
    /\ round' = [NewRound EXCEPT !.progressed = got # {} \/ thread[Loop].counted]
    /\ thread' = [thread EXCEPT ![Loop] = NoThread]
    /\ main' = "claiming" /\ turn' = Loop
    /\ UNCHANGED <<vars, cursor, results, closing, mine, disturbances>>

\* The recovery has raised, and with it run_once and its caller.
RecoveryRaises ==
    /\ main = "recovering" /\ turn = "none"
    /\ thread[Loop].at = "raised"
    /\ thread' = [thread EXCEPT ![Loop] = NoThread]
    /\ main' = "raised"
    /\ UNCHANGED <<vars, lane, turn, round, cursor, results, closing, mine, disturbances>>

RoleRank(r) == CASE r = "investigator" -> 0 [] r = "fixer" -> 1 [] r = "tester" -> 2
NextCursor(r) == (RoleRank(r) + 1) % 3

Turned(l) == (RoleRank(LaneRole[l]) + 3 - cursor) % 3

\* _claim_order: by place in the pool, and within it by role from the cursor on.
Before(l, m) == LaneNo[l] < LaneNo[m] \/ (LaneNo[l] = LaneNo[m] /\ Turned(l) < Turned(m))
NextLane ==
    CHOOSE l \in Lane \ round.tried : \A m \in Lane \ round.tried : m = l \/ Before(l, m)

\* The first miss ends the round (a faulty variant).
MoreClaims_UntilMiss ==
    /\ round.tried # Lane /\ Cardinality(Active) < GlobalSlots
    /\ \A l \in round.tried : lane[l].at # "free"
MoreClaims == round.tried # Lane /\ Cardinality(Active) < GlobalSlots

\* claim_job for the next free lane: one of the jobs of its role, or a miss.
TryClaim ==
    LET l == NextLane
    IN
    /\ main = "claiming" /\ turn = Loop
    /\ MoreClaims
    /\ \/ /\ lane[l].at # "free"
          /\ round' = [round EXCEPT !.tried = @ \cup {l}]
          /\ UNCHANGED <<vars, lane, mine>>
       \/ \E j \in Job :
             LET a == <<j, attemptCount[j] + 1>>
             IN
             /\ lane[l].at = "free"
             /\ role[j] = LaneRole[l]
             /\ ClaimJob(j)
             /\ lane' = [lane EXCEPT ![l] = [at |-> "running", job |-> a, worker |-> "running",
                                             beat |-> "on", outcome |-> "none", cancel |-> FALSE]]
             /\ round' = [round EXCEPT !.tried = @ \cup {l}, !.last = LaneRole[l]]
             /\ mine' = mine \cup {a}
       \/ /\ lane[l].at = "free"
          /\ \A j \in Job : role[j] = LaneRole[l] => ~Claimable(j)
          /\ RecoverOrNothing
          /\ round' = [round EXCEPT !.tried = @ \cup {l}]
          /\ UNCHANGED <<lane, mine>>
    /\ UNCHANGED <<thread, main, turn, cursor, results, closing, disturbances>>

\* The loop goes on whenever nothing is active (a faulty variant).
EndClaims_Spins ==
    /\ main = "claiming" /\ turn = Loop
    /\ ~MoreClaims
    /\ turn' = "none"
    /\ cursor' = IF round.last = "none" THEN cursor ELSE NextCursor(round.last)
    /\ IF Active # {}
       THEN main' = "waiting" /\ UNCHANGED thread
       ELSE main' = "recovering" /\ thread' = [thread EXCEPT ![Loop] = Recovering]
    /\ round' = NewRound
    /\ UNCHANGED <<vars, lane, results, closing, mine, disturbances>>

\* With active tasks the loop waits; without any it goes on only after a claim or
\* a recovery that changed something.
EndClaims ==
    /\ main = "claiming" /\ turn = Loop
    /\ ~MoreClaims
    /\ turn' = "none"
    /\ cursor' = IF round.last = "none" THEN cursor ELSE NextCursor(round.last)
    /\ \/ /\ Active # {}
          /\ main' = "waiting"
          /\ UNCHANGED thread
       \/ /\ Active = {} /\ round.progressed
          /\ main' = "recovering"
          /\ thread' = [thread EXCEPT ![Loop] = Recovering]
       \/ /\ Active = {} /\ ~round.progressed
          /\ main' = "returned"
          /\ UNCHANGED thread
    /\ round' = NewRound
    /\ UNCHANGED <<vars, lane, results, closing, mine, disturbances>>

\* asyncio.wait: the first task to be done starts the next run_once.
WaitEnds ==
    /\ main = "waiting" /\ turn = "none"
    /\ \E l \in Lane : Done(l)
    /\ main' = "recovering"
    /\ thread' = [thread EXCEPT ![Loop] = Recovering]
    /\ UNCHANGED <<vars, lane, turn, round, cursor, results, closing, mine, disturbances>>

-----------------------------------------------------------------------------
(* The end of a run. *)

\* shutdown, called once the loop has been cancelled or has raised.
BeginShutdown ==
    /\ turn = "none"
    /\ \/ main = "waiting" /\ Disturb
       \/ main = "raised" /\ UNCHANGED disturbances
    /\ closing' = Active
    /\ lane' = WithCancelled(lane, Active)
    /\ main' = "stopping"
    /\ UNCHANGED <<vars, thread, turn, round, cursor, results, mine>>

\* Shutdown without waiting for the cancelled tasks (a faulty variant).
Gathered_AtOnce ==
    /\ main = "stopping" /\ turn = "none"
    /\ main' = "givingback" /\ turn' = Loop
    /\ UNCHANGED <<vars, lane, thread, round, cursor, results, closing, mine, disturbances>>

\* Every cancelled task has ended.
Gathered ==
    /\ main = "stopping" /\ turn = "none"
    /\ \A l \in closing : Done(l)
    /\ main' = "givingback" /\ turn' = Loop
    /\ UNCHANGED <<vars, lane, thread, round, cursor, results, closing, mine, disturbances>>

\* interrupt_job for every slot that still has a job, whatever became of it.
GiveBack(l) ==
    LET a == lane[l].job
    IN
    /\ main = "givingback" /\ turn = Loop
    /\ l \in closing
    /\ closing' = closing \ {l}
    /\ \/ InterruptJob(a) /\ UNCHANGED <<mine, disturbances>>
       \/ ~MayEnd(a) /\ UNCHANGED <<vars, mine, disturbances>>
       \/ Disturb /\ mine' = mine \ {a} /\ UNCHANGED vars
    /\ UNCHANGED <<lane, thread, main, turn, round, cursor, results>>

LastRecovery ==
    /\ main = "givingback" /\ turn = Loop
    /\ closing = {}
    /\ main' = "lastrecovery" /\ turn' = "none"
    /\ thread' = [thread EXCEPT ![Loop] = Recovering]
    /\ UNCHANGED <<vars, lane, round, cursor, results, closing, mine, disturbances>>

EndShutdown ==
    /\ main = "lastrecovery" /\ turn = "none"
    /\ ThreadEnded(Loop)
    /\ thread' = [thread EXCEPT ![Loop] = NoThread]
    /\ lane' = Reaped(lane)
    /\ main' = "stopped"
    /\ UNCHANGED <<vars, turn, round, cursor, results, closing, mine, disturbances>>

\* asyncio.run after an interrupt or an exception, without shutdown: the tasks are
\* cancelled and nothing is given back.
Abandon ==
    /\ turn = "none"
    /\ \/ main = "waiting" /\ Disturb
       \/ main = "raised" /\ UNCHANGED disturbances
    /\ lane' = WithCancelled(lane, Active)
    /\ main' = "abandoning"
    /\ UNCHANGED <<vars, thread, turn, round, cursor, results, closing, mine>>

Exit ==
    /\ \/ main \in {"returned", "stopped"}
       \/ main = "abandoning" /\ \A l \in Active : Done(l)
    /\ turn = "none"
    /\ main' = "off"
    /\ lane' = Reaped(lane)
    /\ UNCHANGED <<vars, thread, turn, round, cursor, results, closing, mine, disturbances>>

Crash ==
    /\ main # "off"
    /\ Disturb
    /\ main' = "off" /\ turn' = "none"
    /\ lane' = [l \in Lane |-> Vacant]
    /\ thread' = [w \in Thread |-> NoThread]
    /\ closing' = {} /\ round' = NewRound
    /\ UNCHANGED <<vars, cursor, results, mine>>

-----------------------------------------------------------------------------
(* The worker of a lane. *)

Asked(a) == LiveLease(a) /\ InterruptExact(a)

WorkerRecords(l) ==
    /\ turn = "none"
    /\ lane[l].at = "running" /\ lane[l].worker = "running"
    /\ RecordExternalProcess(lane[l].job)
    /\ UNCHANGED schedVars

\* The worker binds the provider session it has started.
WorkerBinds(l) ==
    /\ turn = "none"
    /\ lane[l].at = "running" /\ lane[l].worker = "running"
    /\ \E s \in Session : RecordExternalSession(lane[l].job, s)
    /\ UNCHANGED schedVars

\* The worker has reaped its process, cancelled or not.
WorkerClears(l) ==
    /\ turn = "none"
    /\ lane[l].worker \in {"running", "stopping"}
    /\ ClearExternalProcess(lane[l].job)
    /\ UNCHANGED schedVars

\* The worker's task ends: with its output once its process is cleared, with an
\* error, or with LeaseLost after a call of its context that the store refused, under
\* a live lease too.
WorkerEnds(l) ==
    LET a == lane[l].job
    IN
    /\ turn = "none"
    /\ lane[l].worker = "running"
    /\ \E how \in {"returned", "raised", "lost"} :
          /\ how = "returned" => ~Unresolved(a)
          /\ lane' = [lane EXCEPT ![l].worker = how]
    /\ UNCHANGED <<vars, thread, loopVars, mine, disturbances>>

\* A cancelled worker ends, whether it could clear its process or not.
WorkerStops(l) ==
    /\ turn = "none"
    /\ lane[l].worker = "stopping"
    /\ lane' = [lane EXCEPT ![l].worker = "ended"]
    /\ UNCHANGED <<vars, thread, loopVars, mine, disturbances>>

-----------------------------------------------------------------------------
(* The heartbeat of a lane and the wait for the first of the two tasks. *)

Beating(l) == lane[l].at \in {"running", "stopping"} /\ lane[l].beat = "on"

\* A heartbeat that never polls (a faulty variant).
Heartbeat_Deaf(l) ==
    /\ turn = "none"
    /\ Beating(l)
    /\ \/ HeartbeatJob(lane[l].job) /\ UNCHANGED lane
       \/ /\ ~(LiveLease(lane[l].job) /\ FenceExact(lane[l].job[1]))
          /\ lane' = [lane EXCEPT ![l].beat = "lost"]
          /\ UNCHANGED vars
    /\ UNCHANGED <<thread, loopVars, mine, disturbances>>

\* Accepted, and polled unless the operator has asked already; rejected; or the
\* storage is out of reach for every retry.
Heartbeat(l) ==
    LET a == lane[l].job
    IN
    /\ turn = "none"
    /\ Beating(l)
    /\ \/ /\ HeartbeatJob(a)
          /\ lane' = [lane EXCEPT ![l].beat =
                         IF lane[l].at = "running" /\ Asked(a) THEN "asked" ELSE "on"]
          /\ UNCHANGED disturbances
       \/ /\ ~(LiveLease(a) /\ FenceExact(a[1]))
          /\ lane' = [lane EXCEPT ![l].beat = "lost"]
          /\ UNCHANGED <<vars, disturbances>>
       \/ /\ Disturb
          /\ lane' = [lane EXCEPT ![l].beat = "unavailable"]
          /\ UNCHANGED vars
    /\ UNCHANGED <<thread, loopVars, mine>>

WorkerOver(l) == lane[l].worker \notin {"running", "stopping"}
Stopping(w) == IF w = "running" THEN "stopping" ELSE w

\* The worker's result first (a faulty variant).
Wake_WorkerFirst(l) ==
    /\ turn = "none" /\ ~lane[l].cancel
    /\ lane[l].at = "running"
    /\ \/ /\ WorkerOver(l)
          /\ lane' = [lane EXCEPT ![l].at = "gathering", ![l].outcome = lane[l].worker]
       \/ /\ ~WorkerOver(l)
          /\ lane[l].beat \in {"lost", "unavailable"}
          /\ lane' = [lane EXCEPT ![l].at = "gathering", ![l].outcome = lane[l].beat,
                                  ![l].worker = Stopping(@)]
       \/ /\ ~WorkerOver(l)
          /\ lane[l].beat = "asked"
          /\ lane' = [lane EXCEPT ![l].at = "stopping", ![l].beat = "on",
                                  ![l].worker = Stopping(@)]
    /\ UNCHANGED <<vars, thread, loopVars, mine, disturbances>>

\* A heartbeat that has ended comes before the worker's result: a request stops
\* the worker under a new heartbeat, anything else ends the lane's wait.
Wake(l) ==
    /\ turn = "none" /\ ~lane[l].cancel
    /\ lane[l].at = "running"
    /\ \/ /\ lane[l].beat = "asked"
          /\ lane' = [lane EXCEPT ![l].at = "stopping", ![l].beat = "on",
                                  ![l].worker = Stopping(@)]
       \/ /\ lane[l].beat \in {"lost", "unavailable"}
          /\ lane' = [lane EXCEPT ![l].at = "gathering", ![l].outcome = lane[l].beat,
                                  ![l].worker = Stopping(@)]
       \/ /\ lane[l].beat = "on" /\ WorkerOver(l)
          /\ lane' = [lane EXCEPT ![l].at = "gathering", ![l].outcome = lane[l].worker]
    /\ UNCHANGED <<vars, thread, loopVars, mine, disturbances>>

\* The worker has stopped for the operator.
StoppedForOperator(l) ==
    /\ turn = "none" /\ ~lane[l].cancel
    /\ lane[l].at = "stopping" /\ WorkerOver(l)
    /\ lane' = [lane EXCEPT ![l].at = "gathering", ![l].outcome = "asked"]
    /\ UNCHANGED <<vars, thread, loopVars, mine, disturbances>>

\* A cancellation reaches the lane at one of its awaits.
Cancelled(l) ==
    /\ turn = "none" /\ lane[l].cancel
    /\ \/ /\ lane[l].at \in {"running", "stopping", "gathering"}
          /\ lane' = [lane EXCEPT ![l].at = "gathering", ![l].outcome = "cancelled",
                                  ![l].worker = Stopping(@), ![l].cancel = FALSE]
          /\ UNCHANGED mine
       \/ /\ lane[l].at = "recovering"
          /\ lane' = [lane EXCEPT ![l] = [Vacant EXCEPT !.at = "done", !.job = lane[l].job]]
          /\ mine' = mine \ {lane[l].job}
    /\ UNCHANGED <<vars, thread, loopVars, disturbances>>

\* Both tasks are over: the lane goes on without a pause.
Settles(l) ==
    /\ turn = "none" /\ ~lane[l].cancel
    /\ lane[l].at = "gathering" /\ WorkerOver(l)
    /\ lane' = [lane EXCEPT ![l].at = "holding"]
    /\ turn' = l
    /\ UNCHANGED <<vars, thread, main, round, cursor, results, closing, mine, disturbances>>

-----------------------------------------------------------------------------
(* What the lane does with the outcome. *)

Holding(l, outcome) == turn = l /\ lane[l].at = "holding" /\ lane[l].outcome = outcome

Becomes(l, outcome) ==
    /\ lane' = [lane EXCEPT ![l].outcome = outcome]
    /\ UNCHANGED turn

Finishes(l) ==
    /\ lane' = [lane EXCEPT ![l] = [Vacant EXCEPT !.at = "done", !.job = lane[l].job]]
    /\ turn' = "none"

LaneOnly == UNCHANGED <<thread, main, round, cursor, results, closing, disturbances>>

\* The worker's output: the operator is asked once more, then it is validated.
Judge(l) ==
    /\ Holding(l, "returned")
    /\ IF Asked(lane[l].job)
       THEN Becomes(l, "asked")
       ELSE \E verdict \in {"valid", "raised"} : Becomes(l, verdict)
    /\ UNCHANGED <<vars, mine>> /\ LaneOnly

\* _finalize_handoff
Finalize(l) ==
    LET a == lane[l].job
    IN
    /\ Holding(l, "valid")
    /\ \/ (\E next \in ItemStates : CommitStageResult(a, next, {})) /\ Finishes(l)
       \/ ~MayCommit(a) /\ Becomes(l, "refused") /\ UNCHANGED vars
    /\ UNCHANGED mine /\ LaneOnly

Fail(l) ==
    LET a == lane[l].job
    IN
    /\ Holding(l, "raised")
    /\ \/ FailJob(a, TRUE) /\ Finishes(l)
       \/ ~MayEnd(a) /\ Becomes(l, "refused") /\ UNCHANGED vars
    /\ UNCHANGED mine /\ LaneOnly

\* A refusal may be the operator's request; anything else means the lease is lost.
PollRefusal(l) ==
    /\ Holding(l, "refused")
    /\ Becomes(l, IF Asked(lane[l].job) THEN "asked" ELSE "lost")
    /\ UNCHANGED <<vars, mine>> /\ LaneOnly

StopForOperator(l) ==
    LET a == lane[l].job
    IN
    /\ Holding(l, "asked")
    /\ \/ CompleteOperatorInterrupt(a) /\ Finishes(l)
       \/ ~MayComplete(a) /\ Becomes(l, "lost") /\ UNCHANGED vars
    /\ UNCHANGED mine /\ LaneOnly

\* The lost claim is not reported (a faulty variant).
ReportLost_Silent(l) ==
    /\ Holding(l, "lost")
    /\ Finishes(l)
    /\ UNCHANGED <<vars, mine>> /\ LaneOnly

\* The claim is reported in stale_job_ids and nothing more is done about it.
ReportLost(l) ==
    /\ Holding(l, "lost")
    /\ mine' = mine \ {lane[l].job}
    /\ Finishes(l)
    /\ UNCHANGED vars /\ LaneOnly

\* After a storage failure of the heartbeat the claim is given back; refused, the
\* lane recovers expired leases itself; the storage may still be out of reach.
HandBack(l) ==
    LET a == lane[l].job
    IN
    /\ Holding(l, "unavailable")
    /\ \/ InterruptJob(a) /\ Finishes(l) /\ UNCHANGED <<thread, mine, disturbances>>
       \/ /\ ~MayEnd(a) /\ thread[l].at = "none"
          /\ lane' = [lane EXCEPT ![l].at = "recovering"] /\ turn' = "none"
          /\ thread' = [thread EXCEPT ![l] = Recovering]
          /\ UNCHANGED <<vars, mine, disturbances>>
       \/ /\ Disturb
          /\ mine' = mine \ {a}
          /\ Finishes(l)
          /\ UNCHANGED <<vars, thread>>
    /\ UNCHANGED <<main, round, cursor, results, closing>>

LaneRecovered(l) ==
    /\ turn = "none" /\ ~lane[l].cancel
    /\ lane[l].at = "recovering" /\ ThreadEnded(l)
    /\ thread' = [thread EXCEPT ![l] = NoThread]
    /\ mine' = mine \ {lane[l].job}
    /\ Finishes(l)
    /\ UNCHANGED <<vars, main, round, cursor, results, closing, disturbances>>

\* The thread of a lane that was cancelled meanwhile ends unheard.
ThreadForgotten(l) ==
    /\ lane[l].at # "recovering" /\ ThreadEnded(l)
    /\ thread' = [thread EXCEPT ![l] = NoThread]
    /\ UNCHANGED <<vars, lane, loopVars, mine, disturbances>>

\* CancelledError leaves the claim to whoever cancelled.
EndCancelled(l) ==
    /\ Holding(l, "cancelled")
    /\ Finishes(l)
    /\ UNCHANGED <<vars, mine>> /\ LaneOnly

-----------------------------------------------------------------------------
(* Time, the operator and other processes. *)

Enqueue(i, r, st) ==
    /\ CreateWorkItemWithJob(i, r, st, {})
    /\ UNCHANGED schedVars

HeldBy(j) == {l \in Lane : Beating(l) /\ lane[l].job[1] = j /\ LiveLease(lane[l].job)}

\* A lease under a heartbeat runs out only when the loop is held up.
Lapse(j) ==
    /\ LeaseLapses(j)
    /\ IF HeldBy(j) = {} THEN UNCHANGED disturbances ELSE Disturb
    /\ UNCHANGED <<lane, thread, loopVars, mine>>

FenceLapses(a) ==
    /\ ReconciliationLapses(a)
    /\ IF \E w \in Thread : thread[w].at = "inspecting" /\ thread[w].of = a
       THEN Disturb ELSE UNCHANGED disturbances
    /\ UNCHANGED <<lane, thread, loopVars, mine>>

OperatorAsks(a) ==
    /\ RequestJobInterrupt(a)
    /\ Disturb
    /\ UNCHANGED <<lane, thread, loopVars, mine>>

BindingsChange(i) ==
    /\ ChangeBindings(i)
    /\ Disturb
    /\ UNCHANGED <<lane, thread, loopVars, mine>>

-----------------------------------------------------------------------------
LoopStep ==
    \/ React \/ RecoveryRaises \/ TryClaim \/ EndClaims \/ WaitEnds
    \/ Gathered \/ (\E l \in Lane : GiveBack(l)) \/ LastRecovery \/ EndShutdown \/ Exit

ThreadStep(w) ==
    ThreadRecovers(w) \/ ThreadClaims(w) \/ ThreadReconciles(w)

LaneStep(l) ==
    \/ Wake(l) \/ StoppedForOperator(l) \/ Cancelled(l) \/ Settles(l)
    \/ Judge(l) \/ Finalize(l) \/ Fail(l) \/ PollRefusal(l) \/ StopForOperator(l)
    \/ ReportLost(l) \/ HandBack(l) \/ LaneRecovered(l) \/ ThreadForgotten(l) \/ EndCancelled(l)

WorkerOf(l) ==
    WorkerRecords(l) \/ WorkerBinds(l) \/ WorkerClears(l) \/ WorkerEnds(l) \/ WorkerStops(l)

Environment ==
    \/ \E i \in Item, r \in Role, st \in Stage : Enqueue(i, r, st)
    \/ \E i \in Item : BindingsChange(i)
    \/ \E j \in Job : Lapse(j)
    \/ \E a \in Attempt : FenceLapses(a) \/ OperatorAsks(a)

SchedulerNext ==
    \/ Start \/ LoopStep \/ BeginShutdown \/ Abandon \/ Crash
    \/ \E w \in Thread : ThreadStep(w)
    \/ \E l \in Lane : LaneStep(l) \/ WorkerOf(l) \/ Heartbeat(l)
    \/ Environment

SchedulerSpec == SchedulerInit /\ [][SchedulerNext]_allVars
=============================================================================
