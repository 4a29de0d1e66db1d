------------------------ MODULE SchedulerProperties ------------------------
(***************************************************************************)
(* What one scheduler promises about the claims it has made.               *)
(***************************************************************************)
EXTENDS Scheduler

\* Outside the end of a run only a worker whose claim is no longer live is
\* cancelled: recovery names jobs, not tokens, and a job recovered in the thread
\* must not be claimed again before its old lane has been told (scheduler.py:478).
CancelOnlyLost ==
    \A l \in Lane :
        lane[l].cancel /\ main \in {"recovering", "claiming", "waiting"} =>
            ~LiveLease(lane[l].job)

\* No live claim is forgotten: while a run goes on, each of its claims is held by
\* a lane, or has been reported as lost or in error (scheduler.py:548).
NoClaimForgotten ==
    main \in {"recovering", "claiming", "waiting", "raised"} =>
        \A a \in mine : LiveLease(a) => \E l \in Lane : lane[l].job = a

\* A shutdown leaves no live claim behind, but for an attempt whose process is not
\* proven stopped and one the operator has asked to interrupt: those the store refuses
\* to give back (scheduler.py:440, storage.py:9322).
ShutdownGivesBack ==
    main = "stopped" =>
        \A a \in mine : LiveLease(a) => Unresolved(a) \/ interruptAt[a[1]] # 0

\* A worker's result is judged only under a heartbeat that has not ended: rejected,
\* failed or with a request it comes first, even if both end in the same turn
\* (scheduler.py:1000).
HeartbeatPrecedes ==
    \A l \in Lane : lane[l].outcome \in {"returned", "valid"} => lane[l].beat = "on"

-----------------------------------------------------------------------------
(* Liveness *)

Inspected(a) == \E w \in Thread : thread[w].at = "inspecting" /\ thread[w].of = a

\* The event loop runs every coroutine and thread that can go on, a cancelled worker
\* ends, a heartbeat that is due is sent, leases nobody extends run out, and the
\* scheduler is started again.  The operator, other processes and a worker that has
\* not been cancelled owe nothing.
SchedulerFairness ==
    /\ WF_allVars(Start) /\ WF_allVars(LoopStep)
    /\ WF_allVars(main = "raised" /\ (BeginShutdown \/ Abandon))
    /\ \A w \in Thread : WF_allVars(ThreadStep(w))
    /\ \A l \in Lane :
          WF_allVars(LaneStep(l)) /\ WF_allVars(WorkerStops(l)) /\ WF_allVars(Heartbeat(l))
    /\ \A j \in Job : WF_allVars(HeldBy(j) = {} /\ Lapse(j))
    /\ \A a \in Attempt : WF_allVars(~Inspected(a) /\ FenceLapses(a))

\* Workers that may run for ever unless they are cancelled.
StubbornSpec == SchedulerSpec /\ SchedulerFairness

\* Workers that end by themselves, as their own timeouts make them.
WorkersEnd == \A l \in Lane : WF_allVars(WorkerEnds(l))

FairSpec == StubbornSpec /\ WorkersEnd

\* If workers end by themselves, every claim ends: committed, failed, interrupted or
\* recovered, unless its process is quarantined for the operator
\* (sqlite_scheduler.py:168).
ClaimsEnd ==
    WorkersEnd =>
        \A j \in Job :
            jobStatus[j] = "running" ~>
                jobStatus[j] # "running" \/ proc[Current(j)] = "quarantined"

\* The loop does not spin on a queue it cannot claim from: a run ends
\* (scheduler.py:421).
RunsEnd == main # "off" ~> main = "off"

Served(j) == Claimable(j) /\ \E l \in Lane : LaneRole[l] = role[j]

\* A job that can be claimed is claimed: a miss for one role keeps no other role from
\* claiming, and a run does not end on work it could take (scheduler.py:373).
ClaimableIsClaimed == \A j \in Job : Served(j) ~> ~Served(j)

\* The operator's request no longer matches the attempt it was made for: its worker has
\* bound a session since, and the poll reports no request (storage.py:6191).
Deaf(a) == LiveLease(a) /\ interruptAt[a[1]] # 0 /\ ~InterruptExact(a)

\* A worker whose claim is no longer live, or whom the operator has asked to stop, does
\* not run on for ever, however long it would: the next heartbeat is rejected, or its
\* poll finds the request, and the worker is cancelled.  It may, while it is deaf to the
\* request, until its lease is gone, which README.md:367-369 denies: the run interrupt_lost
\* shows the refusal behind it (scheduler.py:1053, 1057).
UnwantedWorkersStop ==
    \A l \in Lane :
        /\ lane[l].worker = "running"
        /\ ~LiveLease(lane[l].job) \/ interruptAt[lane[l].job[1]] # 0
        ~> lane[l].worker # "running" \/ Deaf(lane[l].job)
=============================================================================
