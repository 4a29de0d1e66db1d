------------------------- MODULE JobStoreProperties -------------------------
(***************************************************************************)
(* What the durable queue promises the schedulers, workers, operators and  *)
(* reconcilers that share it.                                              *)
(***************************************************************************)
EXTENDS JobStore

-----------------------------------------------------------------------------
(* Invariants *)

\* An item is in an active state exactly while one job of the matching role
\* runs for it, and never while two run: claim, commit, fail, interrupt and
\* expiry each move the item and the job together (storage.py:5797, 9042, 9231,
\* 9341, 9488).
ItemFollowsJob ==
    /\ \A j \in Job : jobStatus[j] = "running" => InStage(j)
    /\ \A i \in Item, r \in Role :
          itemState[i] = ActiveState[r] =>
              \E j \in Job : ItemOf(j) = i /\ jobStatus[j] = "running"
    /\ \A j, k \in Job :
          /\ jobStatus[j] = "running"
          /\ jobStatus[k] = "running"
          /\ ItemOf(j) = ItemOf(k)
          => j = k

\* The attempts of a job are numbered without gaps, only the newest can run and
\* it runs exactly while the job does; a job is completed exactly when its
\* newest attempt succeeded, and no older attempt ever did.
AttemptsFollowJob ==
    \A a \in Attempt :
        /\ attemptStatus[a] = "none" <=> a[2] > attemptCount[a[1]]
        /\ attemptStatus[a] = "running" <=>
              jobStatus[a[1]] = "running" /\ a = Current(a[1])
        /\ attemptStatus[a] = "succeeded" <=>
              jobStatus[a[1]] = "completed" /\ a = Current(a[1])

\* The three tables that every outcome of an attempt writes row by row tell one story,
\* whichever of six operations, in whatever order, wrote them last (storage.py:9043,
\* 9238, 9341, 9488).
TablesAgree == ItemFollowsJob /\ AttemptsFollowJob

\* A running job holds one slot of each resource it requires under the token of
\* its current attempt, lapsed or not, and nothing else of a job is ever held:
\* no lease outlives the attempt that took it, none is lost before it ends.
ResourcesFollowJob ==
    /\ \A j \in Job : jobStatus[j] = "running" => FenceExact(j)
    /\ \A s \in Slot, a \in Attempt :
          holder[s] = a => jobStatus[a[1]] = "running" /\ a = Current(a[1])
    /\ \A s \in slotLapsed : holder[s] \in Owner

\* A process that may still be alive belongs to the current attempt of a job
\* that is still running, so its item, resources and session stay taken; it is
\* quarantined or under reconciliation only after the lease has lapsed.
ProcessKeepsJob ==
    \A a \in Attempt :
        /\ proc[a] \in {"active", "quarantined"} =>
              jobStatus[a[1]] = "running" /\ a = Current(a[1])
        /\ proc[a] = "quarantined" \/ recon[a] # Nobody =>
              proc[a] \in {"active", "quarantined"} /\ a[1] \in lapsed

\* recover_expired_leases never meets a job it must refuse: one such job would
\* make it raise, and every claim_job after it, since claims recover first.
RecoveryNeverBlocked == RecoveryPossible

\* A pending resume still names the latest, cleanly interrupted attempt of a
\* pending job, so the claim that consumes it never raises.
ResumeStaysExact ==
    \A j \in Job : resumeFrom[j] # 0 => jobStatus[j] = "pending" /\ ResumeExact(j)

\* Two attempts share a provider session only if they belong to one job and the
\* later one resumed its immediate predecessor, which had the session too.
SessionLineage ==
    \A a, b \in Attempt :
        session[a] = session[b] /\ session[b] # NoSession /\ a # b =>
            /\ a[1] = b[1]
            /\ a[2] < b[2] =>
                  /\ resumedFrom[b] = b[2] - 1
                  /\ session[<<b[1], b[2] - 1>>] = session[b]

\* A job that may run again has failed fewer than max_attempts times: expiry and
\* interruption give an attempt back for free, failure never does.
FailureBudget ==
    \A j \in Job :
        OpenJob(j) =>
            Cardinality({n \in AttemptNo : attemptStatus[<<j, n>>] = "failed"})
                < MaxAttempts

\* The running jobs of the campaign respect its global limit and its role
\* limits, recovery inside the claim included.
ConcurrencyLimits ==
    LET running == {j \in Job : jobStatus[j] = "running"}
    IN  /\ Cardinality(running) <= GlobalLimit
        /\ \A r \in Role : Cardinality({j \in running : role[j] = r}) <= RoleLimit[r]

\* What the operator's documentation has an interrupt do (README.md:367-369): the
\* scheduler cancels its worker, and the store applies the request once the
\* process is reaped.  The store refuses a request whose recorded session is not
\* the attempt's, and record_external_session does not mind a pending request, so
\* a request made before the session is known can never be applied.
InterruptStaysApplicable ==
    \A a \in Attempt :
        interruptAt[a[1]] = a[2] /\ LiveLease(a) /\ ~Unresolved(a) => InterruptExact(a)

-----------------------------------------------------------------------------
(* Action properties *)

\* Once its lease has lapsed an attempt can only expire: no heartbeat revives
\* it, and no result, failure or interruption of its worker is accepted.
LapsedOnlyExpires ==
    [][\A j \in lapsed :
          \/ j \in lapsed' /\ attemptCount'[j] = attemptCount[j]
          \/ attemptStatus'[Current(j)] = "expired"]_vars

\* An ended attempt is frozen: its outcome, session, process record and resume
\* lineage never change, whatever a stale token holder presents later.
EndedAttemptFrozen ==
    [][\A a \in Attempt :
          attemptStatus[a] \notin {"none", "running"} =>
              /\ attemptStatus'[a] = attemptStatus[a]
              /\ session'[a] = session[a]
              /\ proc'[a] = proc[a]
              /\ resumedFrom'[a] = resumedFrom[a]]_vars

\* A pending interrupt beats the worker's result: the attempt it targets ends as
\* interrupted or expired, and the request is pending until then.
InterruptBeatsResult ==
    [][\A j \in Job :
          interruptAt[j] # 0 =>
              LET a == <<j, interruptAt[j]>>
              IN  \/ interruptAt'[j] = interruptAt[j] /\ attemptStatus'[a] = "running"
                  \/ interruptAt'[j] = 0 /\ attemptStatus'[a] \in {"interrupted", "expired"}]_vars
=============================================================================
