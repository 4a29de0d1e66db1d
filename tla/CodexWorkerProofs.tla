-------------------------- MODULE CodexWorkerProofs --------------------------
(***************************************************************************)
(* Theorems about the attempts of Codex workers on one workspace, for any  *)
(* number of attempts, sessions and contents of the tree.                  *)
(*                                                                         *)
(* The argument: a group that is alive is on record, a record that is      *)
(* active is the current attempt's, and the current attempt has no live    *)
(* group while a thread of its worker judges the workspace or its answer   *)
(* waits.  So the tree stands still from the judgement to the transaction  *)
(* that acts on it, unless the lease, and with it the right to act, is     *)
(* gone.                                                                   *)
(***************************************************************************)
EXTENDS CodexWorkerProperties, TLAPS

-----------------------------------------------------------------------------
(* The inductive invariant. *)

\* An attempt that has not been claimed has left no trace.
Unborn ==
    \A a \in Attempt :
        a > current =>
            /\ run[a] = Fresh
            /\ record[a] = "none" /\ group[a] = "none"
            /\ session[a] = NoSession /\ wanted[a] = NoSession

\* A live group is on record, and only the current attempt's record is active.
OnRecord ==
    \A a \in Attempt :
        /\ group[a] = "alive" => record[a] = "active"
        /\ record[a] = "active" => a = current /\ lease # "ended"

Still == {"preparing", "condemning", "prepared", "reaped", "postflight", "judged", "answered"}

\* What is true of each attempt's worker.
Sound(a) ==
    \* Outside the time between launch and reap its command does not run.
    /\ run[a].step \in Still => group[a] # "alive"
    \* Its verdict on the workspace, if its attempt is current, is still true.
    /\ run[a].step = "condemning" /\ a = current =>
          ~intact \/ (ReadOnly(a) /\ run[a].baseline # {tree})
    \* Past the validation, what was validated still holds.
    /\ run[a].step \in {"postflight", "judged", "answered"} => Valid(a)
    \* The thread it has heard of is the session on record, and the one asked for.
    /\ run[a].thread # NoSession =>
          session[a] = run[a].thread /\ wanted[a] \in {NoSession, session[a]}
    \* Its baseline is of one tree, of the one that is there once it is judged.
    /\ \A v, w \in run[a].baseline : v = w
    /\ run[a].step \in {"judged", "answered"} /\ a = current /\ ReadOnly(a) =>
          run[a].baseline = {tree}

\* A session that is asked for is that of the attempt before, which was not accepted.
WantedOfLast ==
    \A a \in Attempt :
        wanted[a] # NoSession =>
            /\ a - 1 \in Attempt
            /\ a <= current
            /\ wanted[a] = session[a - 1]
            /\ ~Committed(a - 1)

\* An accepted attempt has a session, which no later attempt shares.
AcceptedSession ==
    /\ \A a \in Attempt : Committed(a) => session[a] # NoSession
    /\ \A a, b \in Attempt :
          a < b /\ session[b] # NoSession /\ session[a] = session[b] => ~Committed(a)

WorkerInv ==
    /\ TypeOK
    /\ Unborn
    /\ OnRecord
    /\ \A a \in Attempt : Sound(a)
    /\ WantedOfLast
    /\ AcceptedSession

-----------------------------------------------------------------------------
(* What a step may do to the worker of one attempt. *)

RunRecord == [step : Steps, cancelled : BOOLEAN, baseline : SUBSET Version,
              exit : {"none", "ok", "bad"}, thread : Session \cup {NoSession},
              reply : Replies]

Apart(a) ==
    /\ run' \in [Attempt -> RunRecord]
    /\ \A b \in Attempt \ {a} : run'[b] = run[b]

\* The worker goes on to another step.
LEMMA ToFrame ==
    ASSUME NEW a \in Attempt, NEW s \in Steps, run \in [Attempt -> RunRecord],
           To(a, s)
    PROVE  /\ Apart(a)
           /\ run'[a].step = s
           /\ run'[a].cancelled = run[a].cancelled
           /\ run'[a].baseline = run[a].baseline
           /\ run'[a].exit = run[a].exit
           /\ run'[a].thread = run[a].thread
           /\ run'[a].reply = run[a].reply
<1> DEFINE q == [run[a] EXCEPT !.step = s]
<1>1. run[a] \in RunRecord
  OBVIOUS
<1>2. q = [step |-> s, cancelled |-> run[a].cancelled, baseline |-> run[a].baseline,
           exit |-> run[a].exit, thread |-> run[a].thread, reply |-> run[a].reply]
  BY <1>1 DEF RunRecord
<1>3. q \in RunRecord
  BY <1>1, <1>2 DEF RunRecord
<1>4. run' = [run EXCEPT ![a] = q]
  BY DEF To
<1>. HIDE DEF q
<1>5. run'[a] = q /\ \A b \in Attempt \ {a} : run'[b] = run[b]
  BY <1>4
<1>6. run' \in [Attempt -> RunRecord]
  BY <1>3, <1>4
<1>7. QED
  BY <1>2, <1>5, <1>6 DEF Apart

\* The worker is over, and what it had is gone.
LEMMA EndsFrame ==
    ASSUME NEW a \in Attempt, NEW s \in Steps, run \in [Attempt -> RunRecord],
           Ends(a, s)
    PROVE  /\ Apart(a)
           /\ run'[a].step = s
           /\ run'[a].cancelled = FALSE
           /\ run'[a].baseline = {}
           /\ run'[a].exit = "none"
           /\ run'[a].thread = NoSession
           /\ run'[a].reply = "partial"
<1> DEFINE q == [Fresh EXCEPT !.step = s]
<1>1. run[a] \in RunRecord
  OBVIOUS
<1>2. Fresh \in RunRecord
  BY WorkerAssumption DEF Fresh, RunRecord, Steps, Replies
<1>3. /\ Fresh.cancelled = FALSE /\ Fresh.baseline = {} /\ Fresh.exit = "none"
      /\ Fresh.thread = NoSession /\ Fresh.reply = "partial"
  BY DEF Fresh
<1>4. q = [step |-> s, cancelled |-> Fresh.cancelled, baseline |-> Fresh.baseline,
           exit |-> Fresh.exit, thread |-> Fresh.thread, reply |-> Fresh.reply]
  BY <1>2 DEF RunRecord
<1>5. q \in RunRecord
  BY <1>2, <1>4 DEF RunRecord
<1>6. run' = [run EXCEPT ![a] = q]
  BY DEF Ends
<1>. HIDE DEF q
<1>7. run'[a] = q /\ \A b \in Attempt \ {a} : run'[b] = run[b]
  BY <1>6
<1>8. run' \in [Attempt -> RunRecord]
  BY <1>5, <1>6
<1>9. QED
  BY <1>3, <1>4, <1>7, <1>8 DEF Apart

\* The invocation is ready.
LEMMA PreparedFrame ==
    ASSUME NEW a \in Attempt, NEW B \in SUBSET Version, run \in [Attempt -> RunRecord],
           run' = [run EXCEPT ![a].step = "prepared", ![a].baseline = B]
    PROVE  /\ Apart(a)
           /\ run'[a].step = "prepared"
           /\ run'[a].cancelled = run[a].cancelled
           /\ run'[a].baseline = B
           /\ run'[a].exit = run[a].exit
           /\ run'[a].thread = run[a].thread
           /\ run'[a].reply = run[a].reply
<1> DEFINE q == [run[a] EXCEPT !.step = "prepared", !.baseline = B]
<1>1. run[a] \in RunRecord
  OBVIOUS
<1> DEFINE p == [run[a] EXCEPT !.step = "prepared"]
<1>2. p = [step |-> "prepared", cancelled |-> run[a].cancelled,
           baseline |-> run[a].baseline, exit |-> run[a].exit, thread |-> run[a].thread,
           reply |-> run[a].reply]
  BY <1>1 DEF RunRecord
<1>3. q = [p EXCEPT !.baseline = B]
  OBVIOUS
<1>. HIDE DEF p
<1>4. p \in RunRecord
  BY <1>1, <1>2 DEF RunRecord, Steps
<1>5. q = [step |-> p.step, cancelled |-> p.cancelled, baseline |-> B,
           exit |-> p.exit, thread |-> p.thread, reply |-> p.reply]
  BY <1>3, <1>4 DEF RunRecord
<1>. HIDE DEF q
<1>6. q \in RunRecord
  BY <1>4, <1>5 DEF RunRecord
<1>7. run' = [run EXCEPT ![a] = q]
  BY DEF q
<1>8. run'[a] = q /\ \A b \in Attempt \ {a} : run'[b] = run[b]
  BY <1>7
<1>9. run' \in [Attempt -> RunRecord]
  BY <1>6, <1>7
<1>10. QED
  BY <1>2, <1>5, <1>8, <1>9 DEF Apart

\* The worker hears of its thread.
LEMMA ThreadFrame ==
    ASSUME NEW a \in Attempt, NEW s \in Session, run \in [Attempt -> RunRecord],
           run' = [run EXCEPT ![a].thread = s]
    PROVE  /\ Apart(a)
           /\ run'[a].step = run[a].step
           /\ run'[a].cancelled = run[a].cancelled
           /\ run'[a].baseline = run[a].baseline
           /\ run'[a].exit = run[a].exit
           /\ run'[a].thread = s
           /\ run'[a].reply = run[a].reply
<1> DEFINE q == [run[a] EXCEPT !.thread = s]
<1>1. run[a] \in RunRecord
  OBVIOUS
<1>2. q = [step |-> run[a].step, cancelled |-> run[a].cancelled, baseline |-> run[a].baseline,
           exit |-> run[a].exit, thread |-> s, reply |-> run[a].reply]
  BY <1>1 DEF RunRecord
<1>3. q \in RunRecord
  BY <1>1, <1>2 DEF RunRecord, Steps
<1>4. run' = [run EXCEPT ![a] = q]
  OBVIOUS
<1>. HIDE DEF q
<1>5. run'[a] = q /\ \A b \in Attempt \ {a} : run'[b] = run[b]
  BY <1>4
<1>6. run' \in [Attempt -> RunRecord]
  BY <1>3, <1>4
<1>7. QED
  BY <1>2, <1>5, <1>6 DEF Apart

\* The worker hears more of the reply.
LEMMA ReplyFrame ==
    ASSUME NEW a \in Attempt, NEW r \in Replies, run \in [Attempt -> RunRecord],
           run' = [run EXCEPT ![a].reply = r]
    PROVE  /\ Apart(a)
           /\ run'[a].step = run[a].step
           /\ run'[a].cancelled = run[a].cancelled
           /\ run'[a].baseline = run[a].baseline
           /\ run'[a].exit = run[a].exit
           /\ run'[a].thread = run[a].thread
           /\ run'[a].reply = r
<1> DEFINE q == [run[a] EXCEPT !.reply = r]
<1>1. run[a] \in RunRecord
  OBVIOUS
<1>2. q = [step |-> run[a].step, cancelled |-> run[a].cancelled, baseline |-> run[a].baseline,
           exit |-> run[a].exit, thread |-> run[a].thread, reply |-> r]
  BY <1>1 DEF RunRecord
<1>3. q \in RunRecord
  BY <1>1, <1>2 DEF RunRecord
<1>4. run' = [run EXCEPT ![a] = q]
  OBVIOUS
<1>. HIDE DEF q
<1>5. run'[a] = q /\ \A b \in Attempt \ {a} : run'[b] = run[b]
  BY <1>4
<1>6. run' \in [Attempt -> RunRecord]
  BY <1>3, <1>4
<1>7. QED
  BY <1>2, <1>5, <1>6 DEF Apart

\* The worker learns how the command ended.
LEMMA ExitFrame ==
    ASSUME NEW a \in Attempt, NEW c \in {"ok", "bad"}, run \in [Attempt -> RunRecord],
           run' = [run EXCEPT ![a].exit = c]
    PROVE  /\ Apart(a)
           /\ run'[a].step = run[a].step
           /\ run'[a].cancelled = run[a].cancelled
           /\ run'[a].baseline = run[a].baseline
           /\ run'[a].exit = c
           /\ run'[a].thread = run[a].thread
           /\ run'[a].reply = run[a].reply
<1> DEFINE q == [run[a] EXCEPT !.exit = c]
<1>1. run[a] \in RunRecord
  OBVIOUS
<1>2. q = [step |-> run[a].step, cancelled |-> run[a].cancelled, baseline |-> run[a].baseline,
           exit |-> c, thread |-> run[a].thread, reply |-> run[a].reply]
  BY <1>1 DEF RunRecord
<1>3. q \in RunRecord
  BY <1>1, <1>2 DEF RunRecord
<1>4. run' = [run EXCEPT ![a] = q]
  OBVIOUS
<1>. HIDE DEF q
<1>5. run'[a] = q /\ \A b \in Attempt \ {a} : run'[b] = run[b]
  BY <1>4
<1>6. run' \in [Attempt -> RunRecord]
  BY <1>3, <1>4
<1>7. QED
  BY <1>2, <1>5, <1>6 DEF Apart

\* The worker is cancelled, its thread is not.
LEMMA CancelFrame ==
    ASSUME NEW a \in Attempt, NEW c \in BOOLEAN, run \in [Attempt -> RunRecord],
           run' = [run EXCEPT ![a].cancelled = c]
    PROVE  /\ Apart(a)
           /\ run'[a].step = run[a].step
           /\ run'[a].cancelled = c
           /\ run'[a].baseline = run[a].baseline
           /\ run'[a].exit = run[a].exit
           /\ run'[a].thread = run[a].thread
           /\ run'[a].reply = run[a].reply
<1> DEFINE q == [run[a] EXCEPT !.cancelled = c]
<1>1. run[a] \in RunRecord
  OBVIOUS
<1>2. q = [step |-> run[a].step, cancelled |-> c, baseline |-> run[a].baseline,
           exit |-> run[a].exit, thread |-> run[a].thread, reply |-> run[a].reply]
  BY <1>1 DEF RunRecord
<1>3. q \in RunRecord
  BY <1>1, <1>2 DEF RunRecord
<1>4. run' = [run EXCEPT ![a] = q]
  OBVIOUS
<1>. HIDE DEF q
<1>5. run'[a] = q /\ \A b \in Attempt \ {a} : run'[b] = run[b]
  BY <1>4
<1>6. run' \in [Attempt -> RunRecord]
  BY <1>3, <1>4
<1>7. QED
  BY <1>2, <1>5, <1>6 DEF Apart
\* No attempt's result is accepted in this step.
NoneAccepted == \A b \in Attempt : Committed(b)' => Committed(b)

\* A step of one attempt's worker keeps the invariant if it keeps what is true of that
\* worker: no other attempt, and nothing that others rely on, is touched.
LEMMA OwnStep ==
    ASSUME WorkerInv, TypeOK', OnRecord',
           NEW a \in Attempt, run[a].step # "none",
           Apart(a), Sound(a)',
           \A b \in Attempt \ {a} : record'[b] = record[b] /\ group'[b] = group[b],
           UNCHANGED <<tree, intact, current, role, wanted, session>>,
           Committed(a)' => a = current /\ session[a] # NoSession
    PROVE  WorkerInv' /\ (~Committed(a)' => NoneAccepted)
<1>1. a <= current
  BY DEF WorkerInv, Unborn, Fresh, TypeOK, Attempt
<1>2. ASSUME NEW b \in Attempt, b # a PROVE Sound(b)'
  BY <1>2 DEF WorkerInv, Apart, Sound, ReadOnly, Valid
<1>3. \A b \in Attempt : Sound(b)'
  BY <1>2
<1>4. Unborn'
  BY <1>1 DEF WorkerInv, TypeOK, Apart, Unborn, Attempt
<1>5. WantedOfLast'
  <2> SUFFICES ASSUME NEW b \in Attempt, wanted[b] # NoSession, Committed(b - 1)'
               PROVE  FALSE
    BY DEF WorkerInv, WantedOfLast
  <2>1. b <= current /\ b - 1 \in Attempt /\ ~Committed(b - 1)
    BY DEF WorkerInv, WantedOfLast
  <2>2. b - 1 = a
    BY <2>1 DEF Apart, Committed
  <2> QED
    BY <2>1, <2>2 DEF WorkerInv, TypeOK, Attempt
<1>6. AcceptedSession'
  <2>1. \A b \in Attempt \ {a} : Committed(b)' <=> Committed(b)
    BY DEF Apart, Committed
  <2>2. ASSUME NEW b \in Attempt, Committed(b)' PROVE session[b] # NoSession
    BY <2>1, <2>2 DEF WorkerInv, AcceptedSession
  <2>3. ASSUME NEW b \in Attempt, NEW c \in Attempt, b < c,
               session[c] # NoSession, session[b] = session[c], Committed(b)'
        PROVE  FALSE
    <3>1. CASE b = a
      <4>1. c > current
        BY <2>3, <3>1
      <4> QED
        BY <4>1, <2>3 DEF WorkerInv, Unborn
    <3>2. CASE b # a
      BY <3>2, <2>1, <2>3 DEF WorkerInv, AcceptedSession
    <3> QED
      BY <3>1, <3>2
  <2> QED
    BY <2>2, <2>3 DEF AcceptedSession
<1>7. ~Committed(a)' => NoneAccepted
  BY DEF Apart, Committed, NoneAccepted
<1> QED
  BY <1>3, <1>4, <1>5, <1>6, <1>7 DEF WorkerInv

\* A worker that is over has nothing left to be wrong about.
LEMMA OverFacts ==
    ASSUME TypeOK, NEW a \in Attempt, NEW s \in {"failed", "committed"}, Ends(a, s)
    PROVE  Apart(a) /\ Sound(a)' /\ (Committed(a)' => s = "committed")
<1>1. run \in [Attempt -> RunRecord] /\ s \in Steps
  BY DEF TypeOK, RunRecord, Steps
<1>2. /\ Apart(a)
      /\ run'[a].step = s /\ run'[a].baseline = {} /\ run'[a].thread = NoSession
  BY <1>1, EndsFrame
<1> QED
  BY <1>2 DEF Sound, Still, Committed

\* A worker that only goes on to another step.
LEMMA GoesOn ==
    ASSUME TypeOK, NEW a \in Attempt, NEW s \in Steps \ {"committed"}, To(a, s),
           UNCHANGED <<tree, intact, current, role, wanted, session>>, Sound(a),
           s \in Still => group'[a] # "alive",
           s = "condemning" /\ a = current =>
               ~intact \/ (ReadOnly(a) /\ run[a].baseline # {tree}),
           s \in {"postflight", "judged", "answered"} => Valid(a),
           s \in {"judged", "answered"} /\ a = current /\ ReadOnly(a) =>
               run[a].baseline = {tree}
    PROVE  Apart(a) /\ Sound(a)' /\ ~Committed(a)'
<1>1. run \in [Attempt -> RunRecord]
  BY DEF TypeOK, RunRecord
<1>2. /\ Apart(a) /\ run'[a].step = s
      /\ run'[a].baseline = run[a].baseline /\ run'[a].exit = run[a].exit
      /\ run'[a].thread = run[a].thread /\ run'[a].reply = run[a].reply
  BY <1>1, ToFrame
<1>3. Valid(a)' <=> Valid(a)
  BY <1>2 DEF Valid
<1>4. ReadOnly(a)' <=> ReadOnly(a)
  BY DEF ReadOnly
<1> QED
  BY <1>2, <1>3, <1>4 DEF Sound, Committed

\* A step of one attempt's worker that touches nothing but the worker and the quarantine.
LEMMA RunStep ==
    ASSUME WorkerInv, NEW a \in Attempt, run[a].step # "none",
           Apart(a), Sound(a)', ~Committed(a)',
           ready' \in BOOLEAN, UNCHANGED <<managed, intact, tree, attemptVars, group>>
    PROVE  WorkerInv' /\ NoneAccepted
<1>1. TypeOK'
  BY DEF WorkerInv, TypeOK, Apart, RunRecord, attemptVars
<1>2. OnRecord'
  BY DEF WorkerInv, OnRecord, attemptVars
<1> QED
  BY <1>1, <1>2, OwnStep DEF attemptVars

\* The steps of a worker keep the invariant.
LEMMA WorkerSteps ==
    ASSUME WorkerInv, NEW a \in Attempt, WorkerStep(a)
    PROVE  WorkerInv' /\ NoneAccepted
<1> USE DEF WorkerInv
<1>1. CASE Prepare(a)
  <2>1. run[a].step = "preparing" /\ UNCHANGED <<workspaceVars, attemptVars, group>>
    BY <1>1 DEF Prepare
  <2>2. CASE Over(a)
    BY <2>1, <2>2, OverFacts, RunStep DEF Over, workspaceVars, attemptVars, TypeOK
  <2>3. CASE ~intact /\ To(a, "condemning")
    <3>1. Apart(a) /\ Sound(a)' /\ ~Committed(a)'
      BY <2>1, <2>3, GoesOn DEF Steps, workspaceVars, attemptVars, Sound, Still
    <3> QED
      BY <2>1, <3>1, RunStep DEF workspaceVars, TypeOK
  <2>4. CASE /\ run' = [run EXCEPT ![a].step = "prepared",
                                  ![a].baseline = IF ReadOnly(a) THEN {tree} ELSE {}]
    <3> DEFINE B == IF ReadOnly(a) THEN {tree} ELSE {}
    <3>1. B \in SUBSET Version /\ run \in [Attempt -> RunRecord]
      BY DEF TypeOK, RunRecord
    <3>2. \A v, w \in B : v = w
      OBVIOUS
    <3>3. run' = [run EXCEPT ![a].step = "prepared", ![a].baseline = B]
      BY <2>4
    <3> HIDE DEF B
    <3>4. /\ Apart(a) /\ run'[a].step = "prepared" /\ run'[a].baseline = B
          /\ run'[a].thread = run[a].thread
      BY <3>1, <3>3, PreparedFrame
    <3>5. Sound(a)' /\ ~Committed(a)'
      BY <2>1, <3>2, <3>4 DEF Sound, Still, Committed, workspaceVars, attemptVars
    <3> QED
      BY <2>1, <3>4, <3>5, RunStep DEF workspaceVars, TypeOK
  <2> QED
    BY <1>1, <2>2, <2>3, <2>4 DEF Prepare
<1>2. CASE Condemn(a)
  <2>1. Apart(a) /\ Sound(a)' /\ ~Committed(a)'
    BY <1>2, OverFacts DEF Condemn, Over
  <2> QED
    BY <1>2, <2>1, RunStep DEF Condemn, TypeOK
<1>3. CASE Launch(a)
  <2>1. /\ run[a].step = "prepared"
        /\ UNCHANGED <<workspaceVars, current, lease, role, wanted, session>>
    BY <1>3 DEF Launch
  <2>2. CASE Over(a) /\ UNCHANGED <<record, group>>
    BY <2>1, <2>2, OverFacts, RunStep DEF Over, workspaceVars, attemptVars, TypeOK
  <2>3. CASE /\ Live(a)
             /\ record' = [record EXCEPT ![a] = "active"]
             /\ group' = [group EXCEPT ![a] = "alive"]
             /\ To(a, "running")
    <3>1. Apart(a) /\ Sound(a)' /\ ~Committed(a)'
      BY <2>1, <2>3, GoesOn DEF Steps, workspaceVars, Still
    <3>2. TypeOK'
      BY <2>1, <2>3, <3>1 DEF TypeOK, Apart, RunRecord, workspaceVars
    <3>3. OnRecord'
      BY <2>1, <2>3 DEF OnRecord, Live, TypeOK
    <3> QED
      BY <2>1, <2>3, <3>1, <3>2, <3>3, OwnStep DEF workspaceVars, TypeOK
  <2> QED
    BY <1>3, <2>2, <2>3 DEF Launch
<1>4. CASE Collect(a) \/ BreakOff(a)
  <2>1. /\ run[a].step = "running"
        /\ \E s \in {"reporting", "stopping"} : To(a, s)
        /\ UNCHANGED <<workspaceVars, attemptVars, group>>
    BY <1>4 DEF Collect, BreakOff
  <2>2. Apart(a) /\ Sound(a)' /\ ~Committed(a)'
    BY <2>1, GoesOn DEF Steps, workspaceVars, attemptVars, Still
  <2> QED
    BY <2>1, <2>2, RunStep DEF workspaceVars, TypeOK
<1>5. CASE Terminate(a)
  <2>1. /\ run[a].step \in {"reporting", "stopping"}
        /\ UNCHANGED <<workspaceVars, current, lease, role, wanted, session>>
    BY <1>5 DEF Terminate
  <2>2. CASE UNCHANGED <<record, group>>
    <3>1. Apart(a) /\ Sound(a)' /\ ~Committed(a)'
      <4>1. CASE Over(a)
        BY <4>1, OverFacts DEF Over
      <4>2. CASE To(a, "stopping")
        BY <2>1, <2>2, <4>2, GoesOn DEF Steps, workspaceVars, Still
      <4>3. CASE To(a, "reaped") /\ Emptied(a)
        BY <2>1, <2>2, <4>3, GoesOn DEF Steps, workspaceVars, Still, Emptied, TypeOK
      <4> QED
        BY <1>5, <4>1, <4>2, <4>3 DEF Terminate
    <3> QED
      BY <2>1, <2>2, <3>1, RunStep DEF workspaceVars, attemptVars, TypeOK
  <2>3. CASE Emptied(a)
    <3>1. Apart(a) /\ Sound(a)' /\ ~Committed(a)'
      <4>1. CASE Over(a)
        BY <4>1, OverFacts DEF Over
      <4>2. CASE To(a, "stopping")
        BY <2>1, <4>2, GoesOn DEF Steps, workspaceVars, Still
      <4>3. CASE To(a, "reaped")
        BY <2>1, <2>3, <4>3, GoesOn DEF Steps, workspaceVars, Still, Emptied, TypeOK
      <4> QED
        BY <1>5, <4>1, <4>2, <4>3 DEF Terminate
    <3>2. record' = record \/ record' = [record EXCEPT ![a] = "stopped"]
      BY <1>5 DEF Terminate
    <3>3. TypeOK'
      BY <2>1, <2>3, <3>1, <3>2 DEF TypeOK, Apart, RunRecord, workspaceVars, Emptied
    <3>4. OnRecord'
      BY <2>1, <2>3, <3>2 DEF OnRecord, Emptied, TypeOK
    <3> QED
      BY <2>1, <2>3, <3>1, <3>2, <3>3, <3>4, OwnStep DEF workspaceVars, Emptied, TypeOK
  <2> QED
    BY <1>5, <2>2, <2>3 DEF Terminate
<1>6. CASE Settle(a)
  <2>1. /\ run[a].step = "reaped" /\ group[a] # "alive"
        /\ record' = record \/ record' = [record EXCEPT ![a] = "stopped"]
        /\ UNCHANGED <<workspaceVars, current, lease, role, wanted, session, group>>
    BY <1>6 DEF Settle, Sound, Still
  <2>2. Apart(a) /\ Sound(a)' /\ ~Committed(a)'
    <3>1. CASE Over(a)
      BY <3>1, OverFacts DEF Over
    <3>2. CASE Valid(a) /\ To(a, "postflight")
      BY <2>1, <3>2, GoesOn DEF Steps, workspaceVars, Still
    <3> QED
      BY <1>6, <3>1, <3>2 DEF Settle
  <2>3. TypeOK'
    BY <2>1, <2>2 DEF TypeOK, Apart, RunRecord, workspaceVars
  <2>4. OnRecord'
    BY <2>1 DEF OnRecord, TypeOK
  <2> QED
    BY <2>1, <2>2, <2>3, <2>4, OwnStep DEF workspaceVars, TypeOK
<1>7. CASE Postflight(a)
  <2>1. /\ run[a].step = "postflight" /\ group[a] # "alive" /\ Valid(a)
        /\ UNCHANGED <<workspaceVars, attemptVars, group>>
    BY <1>7 DEF Postflight, Sound, Still
  <2>2. Apart(a) /\ Sound(a)' /\ ~Committed(a)'
    <3>1. CASE Over(a)
      BY <3>1, OverFacts DEF Over
    <3>2. CASE /\ To(a, "condemning")
               /\ ~(intact /\ (ReadOnly(a) => tree \in run[a].baseline))
      BY <2>1, <3>2, GoesOn DEF Steps, workspaceVars, attemptVars, Still
    <3>3. CASE To(a, "judged") /\ (ReadOnly(a) => tree \in run[a].baseline)
      <4>1. ReadOnly(a) => run[a].baseline = {tree}
        BY <3>3 DEF Sound
      <4> QED
        BY <2>1, <3>3, <4>1, GoesOn DEF Steps, workspaceVars, attemptVars, Still
    <3> QED
      BY <1>7, <3>1, <3>2, <3>3 DEF Postflight
  <2> QED
    BY <2>1, <2>2, RunStep DEF workspaceVars, TypeOK
<1>8. CASE Answer(a)
  <2>1. /\ run[a].step = "judged" /\ group[a] # "alive" /\ Valid(a)
        /\ a = current /\ ReadOnly(a) => run[a].baseline = {tree}
        /\ UNCHANGED <<workspaceVars, attemptVars, group>>
    BY <1>8 DEF Answer, Sound, Still
  <2>2. Apart(a) /\ Sound(a)' /\ ~Committed(a)'
    <3>1. CASE Over(a)
      BY <3>1, OverFacts DEF Over
    <3>2. CASE To(a, "answered")
      BY <2>1, <3>2, GoesOn DEF Steps, workspaceVars, attemptVars, Still
    <3> QED
      BY <1>8, <3>1, <3>2 DEF Answer
  <2> QED
    BY <2>1, <2>2, RunStep DEF workspaceVars, TypeOK
<1>9. CASE CancelInThread(a)
  <2>1. /\ run[a].step \in {"preparing", "condemning", "postflight"}
        /\ run' = [run EXCEPT ![a].cancelled = TRUE]
        /\ UNCHANGED <<workspaceVars, attemptVars, group>>
    BY <1>9 DEF CancelInThread
  <2>2. /\ Apart(a) /\ run'[a].step = run[a].step
        /\ run'[a].baseline = run[a].baseline /\ run'[a].exit = run[a].exit
        /\ run'[a].thread = run[a].thread /\ run'[a].reply = run[a].reply
    <3>1. run \in [Attempt -> RunRecord] /\ TRUE \in BOOLEAN
      BY DEF TypeOK, RunRecord
    <3> QED
      BY <2>1, <3>1, CancelFrame
  <2>3. Sound(a)' /\ ~Committed(a)'
    BY <2>1, <2>2 DEF Sound, Valid, ReadOnly, Committed, workspaceVars, attemptVars
  <2> QED
    BY <2>1, <2>2, <2>3, RunStep DEF workspaceVars, TypeOK
<1>10. CASE Crash(a)
  <2>1. Apart(a) /\ Sound(a)' /\ ~Committed(a)'
    BY <1>10, OverFacts DEF Crash, Over
  <2> QED
    BY <1>10, <2>1, RunStep DEF Crash, workspaceVars, TypeOK
<1> QED
  BY <1>1, <1>2, <1>3, <1>4, <1>5, <1>6, <1>7, <1>8, <1>9, <1>10 DEF WorkerStep

\* So do the steps of the command, and of what it leaves running.
LEMMA CommandSteps ==
    ASSUME WorkerInv, NEW a \in Attempt, CommandStep(a)
    PROVE  WorkerInv' /\ NoneAccepted
<1> USE DEF WorkerInv
<1>0. run \in [Attempt -> RunRecord]
  BY DEF TypeOK, RunRecord
<1>1. ASSUME NEW v \in Version, Edit(a, v) PROVE WorkerInv' /\ NoneAccepted
  <2>1. /\ group[a] = "alive" /\ tree' = v
        /\ UNCHANGED <<managed, ready, intact, attemptVars, group, run>>
    BY <1>1 DEF Edit
  \* It is the current attempt whose command runs: nobody's verdict depends on the tree.
  <2>2. a = current /\ run[a].step \notin Still
    BY <2>1 DEF OnRecord, Sound
  <2>3. TypeOK' /\ Unborn' /\ OnRecord' /\ WantedOfLast' /\ AcceptedSession'
    BY <2>1 DEF TypeOK, Unborn, OnRecord, WantedOfLast, AcceptedSession, Committed, attemptVars
  <2>4. ASSUME NEW b \in Attempt PROVE Sound(b)'
    BY <2>1, <2>2 DEF Sound, Still, Valid, ReadOnly, attemptVars
  <2> QED
    BY <2>1, <2>3, <2>4 DEF NoneAccepted, Committed
<1>2. ASSUME NEW s \in Session, HearThread(a, s) PROVE WorkerInv' /\ NoneAccepted
  <2>1. /\ run[a].step = "running" /\ group[a] = "alive"
        /\ UNCHANGED <<workspaceVars, current, lease, role, wanted, record, group>>
    BY <1>2 DEF HearThread
  <2>2. CASE To(a, "stopping") /\ UNCHANGED session
    <3>1. Apart(a) /\ Sound(a)' /\ ~Committed(a)'
      BY <2>1, <2>2, GoesOn DEF Steps, workspaceVars, Still
    <3> QED
      BY <2>1, <2>2, <3>1, RunStep DEF workspaceVars, attemptVars, TypeOK
  <2>3. CASE /\ run[a].thread = NoSession /\ wanted[a] \in {NoSession, s} /\ MayBind(a, s)
             /\ session' = [session EXCEPT ![a] = s]
             /\ run' = [run EXCEPT ![a].thread = s]
    <3>1. /\ Apart(a) /\ run'[a].step = "running" /\ run'[a].thread = s
          /\ run'[a].baseline = run[a].baseline
      BY <1>0, <2>1, <2>3, ThreadFrame
    <3>2. a = current /\ s # NoSession
      BY <2>3, WorkerAssumption DEF MayBind, Live
    <3>3. /\ session' \in [Attempt -> Session \cup {NoSession}]
          /\ session'[a] = s
          /\ \A b \in Attempt \ {a} : session'[b] = session[b]
      BY <2>3 DEF TypeOK
    <3>4. TypeOK' /\ Unborn' /\ OnRecord'
      BY <2>1, <3>1, <3>2, <3>3
      DEF TypeOK, Unborn, OnRecord, Apart, RunRecord, workspaceVars, Attempt
    <3>5. ASSUME NEW b \in Attempt PROVE Sound(b)'
      <4>1. CASE b = a
        BY <2>1, <2>3, <3>1, <3>3, <4>1 DEF Sound, Still, workspaceVars
      <4>2. CASE b # a
        BY <2>1, <3>1, <3>3, <4>2 DEF Sound, Still, Apart, Valid, ReadOnly, workspaceVars
      <4> QED
        BY <4>1, <4>2
    <3>6. \A b \in Attempt : Committed(b)' <=> Committed(b)
      BY <2>1, <3>1 DEF Apart, Committed
    <3>7. WantedOfLast'
      <4> SUFFICES ASSUME NEW b \in Attempt, wanted[b] # NoSession
                   PROVE  /\ b - 1 \in Attempt /\ b <= current
                          /\ wanted[b] = session'[b - 1] /\ ~Committed(b - 1)'
        BY <2>1 DEF WantedOfLast
      <4>1. /\ b - 1 \in Attempt /\ b <= current
            /\ wanted[b] = session[b - 1] /\ ~Committed(b - 1)
        BY DEF WantedOfLast
      <4>2. b - 1 # a
        BY <3>2, <4>1 DEF TypeOK, Attempt
      <4> QED
        BY <3>3, <3>6, <4>1, <4>2
    <3>8. AcceptedSession'
      <4>1. ASSUME NEW b \in Attempt, Committed(b)' PROVE session'[b] # NoSession
        BY <3>2, <3>3, <3>6, <4>1 DEF AcceptedSession
      <4>2. ASSUME NEW b \in Attempt, NEW c \in Attempt, b < c,
                   session'[c] # NoSession, session'[b] = session'[c], Committed(b)
            PROVE  FALSE
        <5>1. CASE c # a
          <6>1. b # a
            BY <3>2, <3>3, <4>2, <5>1 DEF Unborn, TypeOK, Attempt
          <6> QED
            BY <3>3, <4>2, <5>1, <6>1 DEF AcceptedSession
        <5>2. CASE c = a
          <6>1. b # a /\ session[b] = s
            BY <3>3, <4>2, <5>2 DEF Attempt
          \* The session was asked for: then it is the one before's, which was not accepted.
          <6>2. wanted[a] = s \/ session[a] = s
            BY <2>3, <6>1 DEF MayBind
          <6>3. session[a] # s
            BY <3>2, <4>2, <5>2, <6>1 DEF AcceptedSession
          <6>4. a - 1 \in Attempt /\ session[a - 1] = s /\ ~Committed(a - 1)
            BY <3>2, <6>2, <6>3 DEF WantedOfLast
          <6>5. b < a - 1
            BY <4>2, <5>2, <6>4 DEF Attempt
          <6> QED
            BY <3>2, <4>2, <6>1, <6>4, <6>5 DEF AcceptedSession
        <5> QED
          BY <5>1, <5>2
      <4> QED
        BY <3>6, <4>1, <4>2 DEF AcceptedSession
    <3> QED
      BY <3>4, <3>5, <3>6, <3>7, <3>8 DEF NoneAccepted
  <2> QED
    BY <1>2, <2>2, <2>3 DEF HearThread
<1>3. ASSUME NEW reply \in Replies, Hear(a, reply) PROVE WorkerInv' /\ NoneAccepted
  <2>1. /\ run[a].step = "running"
        /\ run' = [run EXCEPT ![a].reply = reply]
        /\ UNCHANGED <<workspaceVars, attemptVars, group>>
    BY <1>3 DEF Hear
  <2>2. /\ Apart(a) /\ run'[a].step = "running"
        /\ run'[a].baseline = run[a].baseline /\ run'[a].thread = run[a].thread
    BY <1>0, <2>1, ReplyFrame
  <2>3. Sound(a)' /\ ~Committed(a)'
    BY <2>1, <2>2 DEF Sound, Still, Committed, workspaceVars, attemptVars
  <2> QED
    BY <2>1, <2>2, <2>3, RunStep DEF workspaceVars, TypeOK
<1>4. ASSUME NEW code \in {"ok", "bad"}, CommandExits(a, code) PROVE WorkerInv' /\ NoneAccepted
  <2>1. /\ run[a].step = "running"
        /\ run' = [run EXCEPT ![a].exit = code]
        /\ UNCHANGED <<workspaceVars, attemptVars, group>>
    BY <1>4 DEF CommandExits
  <2>2. /\ Apart(a) /\ run'[a].step = "running"
        /\ run'[a].baseline = run[a].baseline /\ run'[a].thread = run[a].thread
    BY <1>0, <2>1, ExitFrame
  <2>3. Sound(a)' /\ ~Committed(a)'
    BY <2>1, <2>2 DEF Sound, Still, Committed, workspaceVars, attemptVars
  <2> QED
    BY <2>1, <2>2, <2>3, RunStep DEF workspaceVars, TypeOK
<1> QED
  BY <1>1, <1>2, <1>3, <1>4 DEF CommandStep

\* What AcceptedOnProof asks of the attempt whose result is accepted.
Proven(a) ==
    /\ Valid(a)
    /\ session[a] = run[a].thread
    /\ wanted[a] \in {NoSession, session[a]}
    /\ ReadOnly(a) => run[a].baseline = {tree}

\* And the scheduler's and the store's, time and outsiders; a result is accepted only of
\* the current attempt, whose worker has proved it.
LEMMA InvStep ==
    WorkerInv /\ [Next]_vars =>
        WorkerInv' /\ \A a \in Attempt : ~Committed(a) /\ Committed(a)' => Proven(a)
<1> SUFFICES ASSUME WorkerInv, [Next]_vars
             PROVE  WorkerInv' /\ \A a \in Attempt : ~Committed(a) /\ Committed(a)' => Proven(a)
  OBVIOUS
<1> USE DEF WorkerInv
<1>0. run \in [Attempt -> RunRecord]
  BY DEF TypeOK, RunRecord
<1>1. ASSUME NEW r \in Role, NEW s \in Session \cup {NoSession}, ClaimFor(r, s)
      PROVE  WorkerInv' /\ NoneAccepted
  <2> DEFINE a == current + 1
  <2>1. /\ current < MaxAttempts /\ lease = "ended"
        /\ current' = a /\ lease' = "live"
        /\ role' = [role EXCEPT ![a] = r]
        /\ wanted' = [wanted EXCEPT ![a] = s]
        /\ To(a, "preparing")
        /\ UNCHANGED <<workspaceVars, session, record, group>>
    BY <1>1 DEF ClaimFor
  <2>2. /\ a \in Attempt /\ a > current /\ current \in Nat /\ a - 1 = current
        /\ current > 0 => current \in Attempt
        /\ \A b \in Attempt : b > a => b > current
    BY <2>1, WorkerAssumption DEF TypeOK, Attempt
  <2>3. /\ run[a] = Fresh /\ record[a] = "none" /\ group[a] = "none"
        /\ session[a] = NoSession
    BY <2>2 DEF Unborn
  <2> HIDE DEF a
  <2>4. /\ Apart(a) /\ run'[a].step = "preparing"
        /\ run'[a].baseline = run[a].baseline /\ run'[a].thread = run[a].thread
    BY <1>0, <2>1, <2>2, ToFrame DEF Steps
  <2>5. run[a].baseline = {} /\ run[a].thread = NoSession /\ run[a].step = "none"
    BY <2>3 DEF Fresh
  <2>6. /\ wanted'[a] = s /\ role'[a] = r
        /\ \A b \in Attempt \ {a} : wanted'[b] = wanted[b] /\ role'[b] = role[b]
    BY <2>1, <2>2 DEF TypeOK
  <2>7. TypeOK'
    BY <2>1, <2>2, <2>4 DEF TypeOK, Apart, RunRecord, workspaceVars, Attempt
  <2>8. Unborn'
    BY <2>1, <2>2, <2>4, <2>6 DEF Unborn, Apart, Attempt
  <2>9. \A b \in Attempt : record[b] # "active"
    BY <2>1 DEF OnRecord
  <2>10. OnRecord'
    BY <2>1, <2>9 DEF OnRecord
  <2>11. ASSUME NEW b \in Attempt PROVE Sound(b)'
    <3>1. CASE b = a
      BY <2>1, <2>3, <2>4, <2>5, <3>1 DEF Sound, Still
    <3>2. CASE b # a
      BY <2>1, <2>4, <2>6, <3>2 DEF Sound, Still, Apart, Valid, ReadOnly, workspaceVars
    <3> QED
      BY <3>1, <3>2
  <2>12. \A b \in Attempt : Committed(b)' <=> Committed(b)
    BY <2>4, <2>5 DEF Apart, Committed
  <2>13. WantedOfLast'
    <3> SUFFICES ASSUME NEW b \in Attempt, wanted'[b] # NoSession
                 PROVE  /\ b - 1 \in Attempt /\ b <= current'
                        /\ wanted'[b] = session[b - 1] /\ ~Committed(b - 1)'
      BY <2>1 DEF WantedOfLast
    <3>1. CASE b # a
      <4>1. b - 1 \in Attempt /\ b <= current /\ wanted[b] = session[b - 1] /\ ~Committed(b - 1)
        BY <2>6, <3>1 DEF WantedOfLast
      <4> QED
        BY <2>1, <2>2, <2>6, <2>12, <3>1, <4>1 DEF Attempt
    <3>2. CASE b = a
      <4>1. current > 0 /\ run[current].step # "committed" /\ s = session[current]
        BY <1>1, <2>6, <3>2 DEF ClaimFor
      <4>2. b - 1 = current /\ current \in Attempt /\ b <= current'
        BY <2>1, <2>2, <3>2, <4>1 DEF Attempt
      <4> QED
        BY <2>6, <2>12, <3>2, <4>1, <4>2 DEF Committed
    <3> QED
      BY <3>1, <3>2
  <2>14. AcceptedSession'
    BY <2>1, <2>12 DEF AcceptedSession
  <2> QED
    BY <2>7, <2>8, <2>10, <2>11, <2>12, <2>13, <2>14 DEF NoneAccepted
<1>2. ASSUME Lapse \/ BreakBinding PROVE WorkerInv' /\ NoneAccepted
  <2>1. TypeOK'
    BY <1>2 DEF Lapse, BreakBinding, TypeOK, workspaceVars, attemptVars
  <2>2. Unborn' /\ OnRecord' /\ WantedOfLast' /\ AcceptedSession'
    BY <1>2 DEF Lapse, BreakBinding, Unborn, OnRecord, WantedOfLast, AcceptedSession,
                Committed, workspaceVars, attemptVars
  <2>3. ASSUME NEW b \in Attempt PROVE Sound(b)'
    BY <1>2 DEF Lapse, BreakBinding, Sound, Valid, ReadOnly, workspaceVars, attemptVars
  <2>4. NoneAccepted
    BY <1>2 DEF Lapse, BreakBinding, NoneAccepted, Committed
  <2> QED
    BY <2>1, <2>2, <2>3, <2>4
<1>3. ASSUME Expire PROVE WorkerInv' /\ NoneAccepted
  <2>1. /\ lease' = "ended"
        /\ UNCHANGED <<workspaceVars, current, role, wanted, session, run>>
        /\ \A b \in Attempt :
              \/ group'[b] = group[b] /\ record'[b] = record[b]
              \/ group'[b] = "gone" /\ record'[b] = "stopped"
        /\ record[current] = "active" =>
              group' = [group EXCEPT ![current] = "gone"]
              /\ record' = [record EXCEPT ![current] = "stopped"]
    BY <1>3 DEF Expire, TypeOK
  <2>2. TypeOK'
    BY <1>3 DEF Expire, TypeOK, workspaceVars
  <2>3. Unborn' /\ WantedOfLast' /\ AcceptedSession'
    <3>1. \A b \in Attempt : b > current => group'[b] = "none" /\ record'[b] = "none"
      BY <1>3 DEF Expire, Unborn, TypeOK, Attempt
    <3> QED
      BY <2>1, <3>1 DEF Unborn, WantedOfLast, AcceptedSession, Committed
  <2>4. \A b \in Attempt : record'[b] # "active" /\ group'[b] # "alive"
    BY <1>3 DEF Expire, OnRecord, TypeOK
  <2>5. OnRecord'
    BY <2>4 DEF OnRecord
  <2>6. ASSUME NEW b \in Attempt PROVE Sound(b)'
    BY <2>1, <2>4 DEF Sound, Valid, ReadOnly, workspaceVars
  <2> QED
    BY <2>1, <2>2, <2>3, <2>5, <2>6 DEF NoneAccepted, Committed
<1>4. ASSUME NEW a \in Attempt, EndAttempt(a)
      PROVE  /\ WorkerInv'
             /\ \A b \in Attempt : ~Committed(b) /\ Committed(b)' => Proven(b)
  <2>1. /\ a = current /\ record[a] # "active" /\ lease' = "ended"
        /\ UNCHANGED <<workspaceVars, current, role, wanted, session, record, group>>
    BY <1>4 DEF EndAttempt, Live
  <2>2. OnRecord'
    BY <2>1 DEF OnRecord
  <2>3. CASE UNCHANGED run
    <3>1. TypeOK' /\ Unborn' /\ WantedOfLast' /\ AcceptedSession'
      BY <2>1, <2>3 DEF TypeOK, Unborn, WantedOfLast, AcceptedSession, Committed, workspaceVars
    <3>2. ASSUME NEW b \in Attempt PROVE Sound(b)'
      BY <2>1, <2>3 DEF Sound, Valid, ReadOnly, workspaceVars
    <3> QED
      BY <2>2, <2>3, <3>1, <3>2 DEF Committed
  <2>4. CASE run[a].step = "answered" /\ (Ends(a, "committed") \/ Over(a))
    <3>1. Apart(a) /\ Sound(a)'
      BY <2>4, OverFacts DEF Over
    <3>2. TypeOK'
      BY <2>1, <3>1 DEF TypeOK, Apart, RunRecord, workspaceVars
    <3>3. session[a] # NoSession
      BY <2>4 DEF Sound, Valid
    <3>4. WorkerInv'
      BY <2>1, <2>2, <2>4, <3>1, <3>2, <3>3, OwnStep DEF workspaceVars
    <3>5. \A b \in Attempt \ {a} : Committed(b)' => Committed(b)
      BY <3>1 DEF Apart, Committed
    <3>6. Proven(a)
      BY <2>1, <2>4 DEF Proven, Sound, Valid
    <3> QED
      BY <3>4, <3>5, <3>6
  <2> QED
    BY <1>4, <2>3, <2>4 DEF EndAttempt
<1>5. ASSUME UNCHANGED vars PROVE WorkerInv' /\ NoneAccepted
  <2>1. TypeOK' /\ Unborn' /\ OnRecord' /\ WantedOfLast' /\ AcceptedSession'
    BY <1>5 DEF TypeOK, Unborn, OnRecord, WantedOfLast, AcceptedSession, Committed,
                vars, workspaceVars, attemptVars
  <2>2. ASSUME NEW b \in Attempt PROVE Sound(b)'
    BY <1>5 DEF Sound, Valid, ReadOnly, vars, workspaceVars, attemptVars
  <2> QED
    BY <1>5, <2>1, <2>2 DEF NoneAccepted, Committed, vars
<1> HIDE DEF WorkerInv
<1>6. CASE WorkerInv' /\ NoneAccepted
  BY <1>6 DEF NoneAccepted
<1> QED
  BY <1>1, <1>2, <1>3, <1>4, <1>5, <1>6, WorkerSteps, CommandSteps DEF Next

-----------------------------------------------------------------------------
(* Theorems. *)

\* At the start nothing has been claimed.
LEMMA InvInit == Init => WorkerInv
<1> SUFFICES ASSUME Init PROVE WorkerInv
  OBVIOUS
<1> USE WorkerAssumption
<1>1. /\ Fresh \in RunRecord /\ Fresh.step = "none"
      /\ Fresh.baseline = {} /\ Fresh.thread = NoSession
  BY DEF Fresh, RunRecord, Steps, Replies
<1>2. run = [a \in Attempt |-> Fresh]
  BY DEF Init
<1> HIDE DEF Fresh
<1>3. TypeOK
  BY <1>1, <1>2 DEF Init, TypeOK, RunRecord, Role
<1>4. Unborn /\ OnRecord /\ WantedOfLast /\ AcceptedSession
  BY <1>1, <1>2 DEF Init, Unborn, OnRecord, WantedOfLast, AcceptedSession, Committed
<1>5. \A a \in Attempt : Sound(a)
  BY <1>1, <1>2 DEF Init, Sound, Still
<1> QED
  BY <1>3, <1>4, <1>5 DEF WorkerInv

\* The invariant holds in every state: types, and who owns live groups, active records,
\* verdicts, baselines and sessions.
THEOREM WorkerInvariant == Spec => []WorkerInv
<1>1. WorkerInv /\ [Next]_vars => WorkerInv'
  BY InvStep
<1> QED
  BY <1>1, InvInit, PTL DEF Spec

\* Only a verdict condemns, and it is acted on only while its attempt has the lease.
LEMMA CondemnedStep ==
    ASSUME WorkerInv, [Next]_vars, ready, ~ready'
    PROVE  ~intact \/ (ReadOnly(current) /\ run[current].baseline # {tree})
<1>1. \E a \in Attempt : Condemn(a)
  BY DEF Next, WorkerStep, CommandStep, vars, workspaceVars, ClaimFor, Lapse, Expire,
         BreakBinding, EndAttempt, Prepare, Launch, Collect, BreakOff, Terminate, Settle,
         Postflight, Answer, CancelInThread, Crash, Edit, HearThread, Hear, CommandExits
<1>2. PICK a \in Attempt : Condemn(a)
  BY <1>1
<1>3. run[a].step = "condemning" /\ a = current
  BY <1>2 DEF Condemn, Live
<1> QED
  BY <1>3 DEF WorkerInv, Sound

\* A worktree is condemned only for what is true of it at that moment, for any number of
\* attempts, whatever threads of earlier ones are still about.
THEOREM CondemnedWithCauseAlways == Spec => CondemnedWithCause
<1>1. WorkerInv /\ [Next]_vars =>
        [ready /\ ~ready' =>
            ~intact \/ (ReadOnly(current) /\ run[current].baseline # {tree})]_vars
  BY CondemnedStep
<1> QED
  BY <1>1, WorkerInvariant, PTL DEF Spec, CondemnedWithCause

\* A result is accepted only on proof, and no session gives two of them, for any number
\* of attempts, sessions and contents of the tree.
THEOREM AcceptedOnProofAlways == Spec => AcceptedOnProof
<1> DEFINE Accepting ==
      \A a \in Attempt :
          ~Committed(a) /\ Committed(a)' =>
              /\ Valid(a)
              /\ session[a] = run[a].thread
              /\ wanted[a] \in {NoSession, session[a]}
              /\ ReadOnly(a) => run[a].baseline = {tree}
<1> DEFINE OneResult ==
      \A a, b \in Attempt :
          Committed(a) /\ Committed(b) /\ session[a] = session[b] => a = b
<1>1. WorkerInv /\ [Next]_vars => [Accepting]_vars
  BY InvStep DEF Proven
<1>2. WorkerInv => OneResult
  BY DEF WorkerInv, AcceptedSession, Attempt
<1>3. AcceptedOnProof <=> [][Accepting]_vars /\ []OneResult
  BY DEF AcceptedOnProof
<1> HIDE DEF Accepting, OneResult
<1> QED
  BY <1>1, <1>2, <1>3, WorkerInvariant, PTL DEF Spec
=============================================================================
