----------------------------- MODULE CodexWorker -----------------------------
(***************************************************************************)
(* The attempts that Codex workers make on one workspace: codex_worker.py  *)
(* from the preflight of the workspace to the handoff it returns, with     *)
(* what the scheduler and the store answer it.                             *)
(*                                                                         *)
(* A worker prepares its invocation and judges the workspace afterwards in *)
(* a thread of its own.  Cancelling the worker does not stop that thread:  *)
(* it goes on while the attempt is handed back, and its verdict may arrive *)
(* when another attempt is at work on the same tree.                       *)
(*                                                                         *)
(* The launcher, its pipes and the steps of a termination are those of     *)
(* Guardian: here a command and whatever it leaves running are one group,  *)
(* which runs while it is recorded and is gone after a termination that    *)
(* did not break.  Only commands change the tree; its binding, the         *)
(* branch, HEAD or the source checkout, may be broken by anyone.           *)
(***************************************************************************)
EXTENDS Naturals

CONSTANTS MaxAttempts, \* bound: attempts on the workspace
          Session,     \* thread ids that Codex may report
          NoSession,   \* marks the absence of one
          Version      \* contents the working tree may have

ASSUME WorkerAssumption ==
    /\ MaxAttempts \in Nat
    /\ NoSession \notin Session

Attempt == 1..MaxAttempts
Role == {"investigator", "fixer", "tester"}
Steps == {"none", "preparing", "condemning", "prepared", "running", "reporting", "stopping",
          "reaped", "postflight", "judged", "answered", "committed", "failed"}

\* What the captures have of the command's reply: something may still be missing of the
\* agent message, the end of its turn and the final response file; all of it is there; or
\* it came with a terminal error or was cut at a limit, which nothing undoes.
Replies == {"partial", "whole", "spoilt"}

VARIABLES managed,  \* the workspace is a managed worktree, not a source checkout
          ready,    \* managed_worktrees.state is ready, not quarantined
          intact,   \* verify_binding finds nothing wrong
          tree,     \* contents of the working tree
          current,  \* the newest attempt
          lease,    \* its lease: live, lapsed, or ended with the attempt
          role,     \* role of each attempt
          wanted,   \* the session it resumes
          session,  \* attempts.external_session_id
          record,   \* external_processes.state of its process
          group,    \* the process group of its command
          run       \* CodexCliWorker.run for this attempt

workspaceVars == <<managed, ready, intact, tree>>
attemptVars == <<current, lease, role, wanted, session, record>>
vars == <<workspaceVars, attemptVars, group, run>>

Fresh == [step |-> "none", cancelled |-> FALSE, baseline |-> {}, exit |-> "none",
          thread |-> NoSession, reply |-> "partial"]

TypeOK ==
    /\ managed \in BOOLEAN /\ ready \in BOOLEAN /\ intact \in BOOLEAN
    /\ tree \in Version
    /\ current \in 0..MaxAttempts
    /\ lease \in {"live", "lapsed", "ended"}
    /\ role \in [Attempt -> Role]
    /\ wanted \in [Attempt -> Session \cup {NoSession}]
    /\ session \in [Attempt -> Session \cup {NoSession}]
    /\ record \in [Attempt -> {"none", "active", "stopped"}]
    /\ group \in [Attempt -> {"none", "alive", "gone"}]
    /\ run \in [Attempt -> [step : Steps, cancelled : BOOLEAN, baseline : SUBSET Version,
                            exit : {"none", "ok", "bad"}, thread : Session \cup {NoSession},
                            reply : Replies]]

Init ==
    /\ managed \in BOOLEAN
    /\ ready = TRUE /\ intact = TRUE
    /\ tree \in Version
    /\ current = 0 /\ lease = "ended"
    /\ role = [a \in Attempt |-> "tester"]
    /\ wanted = [a \in Attempt |-> NoSession]
    /\ session = [a \in Attempt |-> NoSession]
    /\ record = [a \in Attempt |-> "none"]
    /\ group = [a \in Attempt |-> "none"]
    /\ run = [a \in Attempt |-> Fresh]

-----------------------------------------------------------------------------
(* The attempt, as store and scheduler see it. *)

\* _assert_live_lease
Live(a) == a = current /\ lease = "live"

ReadOnly(a) == role[a] # "fixer"

To(a, step) == run' = [run EXCEPT ![a].step = step]
Ends(a, step) == run' = [run EXCEPT ![a] = [Fresh EXCEPT !.step = step]]
Over(a) == Ends(a, "failed")

\* Attempts of one job follow each other until one is committed; only such an attempt
\* can be asked to resume the session of the one before it.
ClaimFor(r, s) ==
    LET a == current + 1
        retried == current > 0 /\ run[current].step # "committed"
    IN
    /\ current < MaxAttempts
    /\ lease = "ended"
    /\ managed => ready
    /\ r \in IF managed THEN {"fixer", "tester"} ELSE {"investigator", "tester"}
    /\ IF retried
       THEN r = role[current] /\ s \in {NoSession, session[current]}
       ELSE s = NoSession
    /\ current' = a /\ lease' = "live"
    /\ role' = [role EXCEPT ![a] = r]
    /\ wanted' = [wanted EXCEPT ![a] = s]
    /\ To(a, "preparing")
    /\ UNCHANGED <<workspaceVars, session, record, group>>

Lapse ==
    /\ lease = "live" /\ lease' = "lapsed"
    /\ UNCHANGED <<workspaceVars, current, role, wanted, session, record, group, run>>

\* A lapsed attempt expires at once, or, with a process on record, when a reconciler
\* has seen its group gone.
Expire ==
    /\ lease = "lapsed" /\ lease' = "ended"
    /\ IF record[current] = "active"
       THEN /\ group' = [group EXCEPT ![current] = "gone"]
            /\ record' = [record EXCEPT ![current] = "stopped"]
       ELSE UNCHANGED <<group, record>>
    /\ UNCHANGED <<workspaceVars, current, role, wanted, session, run>>

\* The worker has returned, raised, or been cancelled: its result is committed, or the
\* attempt fails or is handed back, which the store refuses while a process is on record.
EndAttempt(a) ==
    /\ Live(a)
    /\ record[a] # "active"
    /\ run[a].step \in {"answered", "failed"} \/ run[a].cancelled
    /\ lease' = "ended"
    /\ \/ run[a].step = "answered" /\ Ends(a, "committed")
       \/ run[a].step = "answered" /\ Over(a)
       \/ run[a].step # "answered" /\ UNCHANGED run
    /\ UNCHANGED <<workspaceVars, current, role, wanted, session, record, group>>

\* record_external_session
MayBind(a, s) ==
    /\ Live(a)
    /\ session[a] \in {NoSession, s}
    /\ wanted[a] \in {NoSession, s}
    /\ (\E b \in Attempt \ {a} : session[b] = s) => wanted[a] = s

-----------------------------------------------------------------------------
(* Before the command. *)

\* require_managed_worktree: the binding is asked for under the lease.
Authority(a) == managed => Live(a) /\ ready

\* prepare_invocation, in a thread: a workspace whose binding does not hold is condemned,
\* a read-only role takes the baseline of the tree.
Prepare(a) ==
    /\ run[a].step = "preparing"
    /\ \/ Over(a)
       \/ managed /\ Authority(a) /\ ~intact /\ To(a, "condemning")
       \/ /\ Authority(a) /\ intact /\ ~run[a].cancelled
          /\ run' = [run EXCEPT ![a].step = "prepared",
                                ![a].baseline = IF ReadOnly(a) THEN {tree} ELSE {}]
    /\ UNCHANGED <<workspaceVars, attemptVars, group>>

\* quarantine_claimed_managed_worktree without its fence (a faulty variant).
Condemn_Unfenced(a) ==
    /\ run[a].step = "condemning"
    /\ ready' = FALSE
    /\ Over(a)
    /\ UNCHANGED <<managed, intact, tree, attemptVars, group>>

\* quarantine_claimed_managed_worktree, refused to a stale lease; the worker fails anyway.
Condemn(a) ==
    /\ run[a].step = "condemning"
    /\ ready' = (ready /\ ~Live(a))
    /\ Over(a)
    /\ UNCHANGED <<managed, intact, tree, attemptVars, group>>

\* The launcher is recorded and released in one turn of the event loop, or the blocked
\* launcher is aborted.
Launch(a) ==
    /\ run[a].step = "prepared"
    /\ \/ /\ Live(a)
          /\ record' = [record EXCEPT ![a] = "active"]
          /\ group' = [group EXCEPT ![a] = "alive"]
          /\ To(a, "running")
       \/ Over(a) /\ UNCHANGED <<record, group>>
    /\ UNCHANGED <<workspaceVars, current, lease, role, wanted, session>>

-----------------------------------------------------------------------------
(* The command and what it leaves in its group. *)

Edit(a, v) ==
    /\ group[a] = "alive"
    /\ tree # v /\ tree' = v
    /\ UNCHANGED <<managed, ready, intact, attemptVars, group, run>>

BreakBinding ==
    /\ intact /\ intact' = FALSE
    /\ UNCHANGED <<managed, ready, tree, attemptVars, group, run>>

\* thread.started: bound in the store the first time, compared afterwards; anything that
\* does not fit raises out of the capture.
HearThread(a, s) ==
    /\ run[a].step = "running" /\ group[a] = "alive"
    /\ \/ /\ run[a].thread = NoSession /\ wanted[a] \in {NoSession, s} /\ MayBind(a, s)
          /\ session' = [session EXCEPT ![a] = s]
          /\ run' = [run EXCEPT ![a].thread = s]
       \/ /\ run[a].thread # s
          /\ ~(run[a].thread = NoSession /\ wanted[a] \in {NoSession, s} /\ MayBind(a, s))
          /\ To(a, "stopping")
          /\ UNCHANGED session
    /\ UNCHANGED <<workspaceVars, current, lease, role, wanted, record, group>>

\* The other events; what follows a terminal error or a cut does not mend it.
Hear(a, reply) ==
    /\ run[a].step = "running" /\ group[a] = "alive" /\ run[a].exit = "none"
    /\ <<run[a].reply, reply>> \in {<<"partial", "whole">>, <<"partial", "spoilt">>,
                                     <<"whole", "spoilt">>}
    /\ run' = [run EXCEPT ![a].reply = reply]
    /\ UNCHANGED <<workspaceVars, attemptVars, group>>

CommandExits(a, code) ==
    /\ run[a].step = "running" /\ group[a] = "alive" /\ run[a].exit = "none"
    /\ run' = [run EXCEPT ![a].exit = code]
    /\ UNCHANGED <<workspaceVars, attemptVars, group>>

-----------------------------------------------------------------------------
(* After the command. *)

\* Both captures have ended and the guardian has reported the status.
Collect(a) ==
    /\ run[a].step = "running" /\ run[a].exit # "none"
    /\ To(a, "reporting")
    /\ UNCHANGED <<workspaceVars, attemptVars, group>>

\* A timeout, a cancellation, a malformed line, a guardian that vanished.
BreakOff(a) ==
    /\ run[a].step = "running"
    /\ To(a, "stopping")
    /\ UNCHANGED <<workspaceVars, attemptVars, group>>

\* A finished command's guardian is let go without a look at its group (a faulty variant).
Emptied_GuardianOnly(a) ==
    group' = IF run[a].step = "reporting" THEN group ELSE [group EXCEPT ![a] = "gone"]

\* Whatever the command has left is killed with it.
Emptied(a) == group' = [group EXCEPT ![a] = "gone"]

\* _terminate ends the whole group, or breaks: once more without the report, then for good
\* with the record left to a reconciler.  After a break-off the record is cleared, if the
\* lease still allows it, and the error raised.
Terminate(a) ==
    /\ run[a].step \in {"reporting", "stopping"}
    /\ \/ /\ Emptied(a)
          /\ IF run[a].step = "reporting"
             THEN To(a, "reaped") /\ UNCHANGED record
             ELSE /\ Over(a)
                  /\ record' = IF Live(a) THEN [record EXCEPT ![a] = "stopped"] ELSE record
       \/ /\ IF run[a].step = "reporting" THEN To(a, "stopping") ELSE Over(a)
          /\ UNCHANGED <<group, record>>
    /\ UNCHANGED <<workspaceVars, current, lease, role, wanted, session>>

\* _validate_execution
Valid(a) ==
    /\ run[a].exit = "ok"
    /\ run[a].reply = "whole"
    /\ run[a].thread # NoSession

\* The artifacts are recorded, which may fail, the record is cleared in any case, which a
\* stale lease refuses, and the execution validated.
Settle(a) ==
    /\ run[a].step = "reaped"
    /\ record' = IF Live(a) THEN [record EXCEPT ![a] = "stopped"] ELSE record
    /\ \/ Over(a)
       \/ Live(a) /\ Valid(a) /\ To(a, "postflight")
    /\ UNCHANGED <<workspaceVars, current, lease, role, wanted, session, group>>

\* _postflight_workspace, in a thread: the workspace is resolved as before the command,
\* and a read-only role's tree must be its baseline.
Postflight(a) ==
    /\ run[a].step = "postflight"
    /\ LET same == ReadOnly(a) => tree \in run[a].baseline
       IN  \/ Over(a)
           \/ managed /\ Authority(a) /\ ~(intact /\ same) /\ To(a, "condemning")
           \/ Authority(a) /\ intact /\ same /\ ~run[a].cancelled /\ To(a, "judged")
    /\ UNCHANGED <<workspaceVars, attemptVars, group>>

\* _load_handoff
Answer(a) ==
    /\ run[a].step = "judged"
    /\ To(a, "answered") \/ Over(a)
    /\ UNCHANGED <<workspaceVars, attemptVars, group>>

\* A cancellation while a thread is at work: run() is over, the thread is not.
CancelInThread(a) ==
    /\ run[a].step \in {"preparing", "condemning", "postflight"}
    /\ ~run[a].cancelled
    /\ run' = [run EXCEPT ![a].cancelled = TRUE]
    /\ UNCHANGED <<workspaceVars, attemptVars, group>>

\* The scheduler's process dies, its threads with it; the command may go on.
Crash(a) ==
    /\ run[a].step \notin {"none", "committed", "failed"}
    /\ Over(a)
    /\ UNCHANGED <<workspaceVars, attemptVars, group>>

-----------------------------------------------------------------------------
WorkerStep(a) ==
    \/ Prepare(a) \/ Condemn(a) \/ Launch(a) \/ Collect(a) \/ BreakOff(a) \/ Terminate(a)
    \/ Settle(a) \/ Postflight(a) \/ Answer(a) \/ CancelInThread(a) \/ Crash(a)

CommandStep(a) ==
    \/ \E v \in Version : Edit(a, v)
    \/ \E s \in Session : HearThread(a, s)
    \/ \E reply \in Replies : Hear(a, reply)
    \/ \E code \in {"ok", "bad"} : CommandExits(a, code)

Next ==
    \/ \E r \in Role, s \in Session \cup {NoSession} : ClaimFor(r, s)
    \/ Lapse \/ Expire \/ BreakBinding
    \/ \E a \in Attempt : EndAttempt(a) \/ WorkerStep(a) \/ CommandStep(a)

Spec == Init /\ [][Next]_vars
=============================================================================
