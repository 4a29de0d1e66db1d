------------------------------ MODULE Handoffs ------------------------------
(***************************************************************************)
(* What a worker's answer must be before its item may advance: the         *)
(* handoff schemas and the gate evaluation of models.py, the scheduler     *)
(* that judges an answer, and the store that judges it again inside the    *)
(* transaction that commits it.                                            *)
(*                                                                         *)
(* One item is followed through its stages.  Its worker is not trusted: an *)
(* answer is any handoff at all.  Between the two judgements the files an  *)
(* answer points to may appear or vanish, and the two do not read the same *)
(* flag: the scheduler asks its own run whether simulated evidence is      *)
(* allowed, the store asks the campaign.  Leases, processes and admissions *)
(* are those of JobStore and Admission; here a claim may simply lapse, and *)
(* no managed worktree is quarantined.                                     *)
(***************************************************************************)
EXTENDS Naturals, FiniteSets, Sequences, Functions

CONSTANTS Gate,         \* gates an item may require and a proof may be about
          Evidence,     \* evidence references: [kind, at], `at` a file or Simulated
          Simulated,    \* marks evidence of a simulation
          GateChoices,  \* the sets of gates items are created with
          MaxProofs,    \* bound: gate proofs in one handoff
          MaxEvidence,  \* bound: evidence references in one proof, blocker or handoff
          MaxAttempts   \* fail_job's max_attempts

Role == {"investigator", "fixer", "tester"}
QueuedState == [r \in Role |->
    CASE r = "investigator" -> "backlog" [] r = "fixer" -> "ready_for_fix"
      [] r = "tester" -> "ready_for_test"]
ActiveState == [r \in Role |->
    CASE r = "investigator" -> "investigating" [] r = "fixer" -> "fixing"
      [] r = "tester" -> "testing"]
TerminalStates == {"verified_green", "blocked"}

AllKinds == {"browser", "screenshot", "database", "test", "gl", "api", "log",
             "export", "document", "other"}
\* _GATE_EVIDENCE_KINDS
KindsOf(g) ==
    CASE g = "focused_tests" -> {"test", "log"}
      [] g = "browser"       -> {"browser", "screenshot"}
      [] g = "database"      -> {"database"}
      [] g = "gl"            -> {"gl", "database"}
      [] g = "api"           -> {"api", "log"}
      [] g = "export"        -> {"export", "document"}

\* What a campaign without simulated evidence may require of an item.
FocusedOnly == {"focused_tests"}
ThreeGates == {"focused_tests", "browser", "database"}

File == {e.at : e \in Evidence} \ {Simulated}

ASSUME HandoffAssumption ==
    /\ \A e \in Evidence : e.kind \in AllKinds
    /\ \A g \in Gate : KindsOf(g) \subseteq AllKinds
    /\ GateChoices \subseteq (SUBSET Gate) \ {{}}
    /\ MaxAttempts \in Nat \ {0}

---------------------------------------------------------------------------
(* Handoffs.  An optional field is a set of at most one element. *)

Attached == {E \in SUBSET Evidence : Cardinality(E) <= MaxEvidence}
Blocker == {{}} \cup {{E} : E \in Attached}
Proof == [gate : Gate, result : {"pass", "fail", "not_applicable"}, evidence : Attached]

\* `complete`: the steps and the acceptance criteria are not empty.
Investigation == [form : {"investigator"}, outcome : {"ready_for_fix", "blocked"},
                  complete : BOOLEAN, evidence : Attached, blocker : Blocker]
\* `changed`, `instructed`: the changed files and the instructions are not empty.
Fix == [form : {"fixer"}, outcome : {"ready_for_test", "blocked"},
        changed : BOOLEAN, instructed : BOOLEAN, evidence : Attached, blocker : Blocker]
Test == [form : {"tester"}, outcome : {"pass", "red", "blocked"},
         proofs : UNION {[1..n -> Proof] : n \in 0..MaxProofs},
         explained : BOOLEAN, blocker : Blocker]

Proofs(h) == {h.proofs[n] : n \in DOMAIN h.proofs}
Failed(h) == {p.gate : p \in {q \in Proofs(h) : q.result = "fail"}}

\* A blocker needs evidence.
ValidBlocker(h) == \A E \in h.blocker : E # {}

ValidInvestigation(h) ==
    /\ h.complete
    /\ h.evidence # {}
    /\ ValidBlocker(h)
    /\ h.outcome = "blocked" <=> h.blocker # {}

ValidFix(h) ==
    /\ ValidBlocker(h)
    /\ h.outcome = "blocked" => h.blocker # {}
    /\ h.outcome = "ready_for_test" => h.blocker = {} /\ h.changed /\ h.instructed

ValidProof(p) ==
    /\ p.result \in {"pass", "fail"} => p.evidence # {}
    /\ \A e \in p.evidence : e.kind \in KindsOf(p.gate)

OneProofPerGate(h) == \A m, n \in DOMAIN h.proofs : h.proofs[m].gate = h.proofs[n].gate => m = n

ValidTest(h) ==
    /\ \A p \in Proofs(h) : ValidProof(p)
    /\ ValidBlocker(h)
    /\ OneProofPerGate(h)
    /\ h.outcome = "pass" => Proofs(h) # {} /\ Failed(h) = {} /\ ~h.explained /\ h.blocker = {}
    /\ h.outcome = "red" => Failed(h) # {} /\ h.explained /\ h.blocker = {}
    /\ h.outcome = "blocked" => h.blocker # {} /\ Failed(h) = {} /\ ~h.explained

\* Whether h is a valid handoff of a worker of role r.
Valid(r, h) ==
    /\ h.form = r
    /\ r = "investigator" => ValidInvestigation(h)
    /\ r = "fixer" => ValidFix(h)
    /\ r = "tester" => ValidTest(h)

EvidenceOf(h) ==
    (UNION h.blocker) \cup
    (IF h.form = "tester" THEN UNION {p.evidence : p \in Proofs(h)} ELSE h.evidence)

---------------------------------------------------------------------------
(* The evaluation of a test handoff against the gates its item requires. *)

\* The required gates with no proof, not applicable, or failed.
Missing(required, h) == required \ {p.gate : p \in Proofs(h)}
Inapplicable(required, h) ==
    {p.gate : p \in {q \in Proofs(h) : q.result = "not_applicable"}} \cap required

\* A gate nobody proved is as good as one that passed (a faulty variant).
Unproved_Forgotten(required, h) == Inapplicable(required, h) \cup (Failed(h) \cap required)
Unproved(required, h) ==
    Missing(required, h) \cup Inapplicable(required, h) \cup (Failed(h) \cap required)

\* Any failed gate is reason to return (a faulty variant).
RedCounts_AnyGate(required, h) == Failed(h) # {}
RedCounts(required, h) == Failed(h) \cap required # {}

\* evaluate_test_handoff: the next state of the item, or "rejected".
Evaluate(required, h) ==
    CASE required = {}         -> "rejected"
      [] h.outcome = "blocked" -> "blocked"
      [] h.outcome = "red"     -> IF RedCounts(required, h) THEN "ready_for_fix" ELSE "rejected"
      [] h.outcome = "pass"    -> IF Unproved(required, h) = {} THEN "verified_green"
                                                                ELSE "rejected"

\* The next state a valid handoff asks for.
NextState(required, h) == IF h.form = "tester" THEN Evaluate(required, h) ELSE h.outcome

\* The role that takes over, if any.
Successor(next) ==
    CASE next = "ready_for_fix"  -> {"fixer"}
      [] next = "ready_for_test" -> {"tester"}
      [] OTHER                   -> {}

---------------------------------------------------------------------------
VARIABLES required,   \* work_items.required_gates_json
          runAllows,  \* the scheduler's allow_simulated_evidence
          campaignAllows, \* the campaign's allow_simulated_evidence
          files,      \* the evidence files that exist
          item,       \* work_items.state
          role,       \* role of the item's newest job
          job,        \* where that job and its worker stand
          failures,   \* failed attempts of that job
          focused,    \* canonical handoff of the attempt's focused execution, optional
          answer,     \* the handoff that the scheduler has accepted, optional
          next,       \* the state the scheduler asks the store for
          recorded    \* the handoff last committed for the item, optional

setting == <<required, runAllows, campaignAllows>>
vars == <<setting, files, item, role, job, failures, focused, answer, next, recorded>>

\* A claim is "running" until its worker answers, "judged" once the scheduler has accepted
\* the answer, "lost" when its worker ended without ending the attempt.
JobStates == {"pending", "running", "judged", "lost", "completed", "failed"}
IsHandoff(h) ==
    /\ h.form = "investigator" => h \in Investigation
    /\ h.form = "fixer" => h \in Fix
    /\ h.form = "tester" => Proofs(h) \subseteq Proof /\ h.blocker \in Blocker

TypeOK ==
    /\ required \in GateChoices
    /\ runAllows \in BOOLEAN /\ campaignAllows \in BOOLEAN
    /\ files \subseteq File
    /\ item \in TerminalStates \cup {QueuedState[r] : r \in Role} \cup {ActiveState[r] : r \in Role}
    /\ role \in Role
    /\ job \in JobStates
    /\ failures \in 0..MaxAttempts
    /\ \A h \in focused \cup answer \cup recorded : IsHandoff(h)
    /\ next \in TerminalStates \cup {"none", "ready_for_fix", "ready_for_test"}

Init ==
    /\ required \in GateChoices
    /\ runAllows \in BOOLEAN /\ campaignAllows \in BOOLEAN
    /\ files \in SUBSET File
    /\ role \in Role
    /\ item = QueuedState[role]
    /\ job = "pending"
    /\ failures = 0
    /\ focused = {} /\ answer = {} /\ recorded = {}
    /\ next = "none"

\* Evidence files are written, and may be removed, outside the store.
FilesChange(f) ==
    /\ files' = IF f \in files THEN files \ {f} ELSE files \cup {f}
    /\ UNCHANGED <<setting, item, role, job, failures, focused, answer, next, recorded>>

Claim ==
    /\ job = "pending"
    /\ job' = "running"
    /\ item' = ActiveState[role]
    /\ UNCHANGED <<setting, files, role, failures, focused, answer, next, recorded>>

\* What the worker and the collectors left behind for the attempt that has ended.
AttemptOver == focused' = {} /\ answer' = {} /\ next' = "none"

\* The lease of the claim expires; another attempt may follow.
Lapse ==
    /\ job \in {"running", "judged", "lost"}
    /\ job' = "pending"
    /\ item' = QueuedState[role]
    /\ AttemptOver
    /\ UNCHANGED <<setting, files, role, failures, recorded>>

AttemptsLeft(failed) == failed < MaxAttempts

\* fail_job, called by the scheduler for any error of an answer or of its commit.
Fail ==
    /\ failures' = failures + 1
    /\ IF AttemptsLeft(failures')
       THEN job' = "pending" /\ item' = QueuedState[role]
       ELSE job' = "failed" /\ item' = "blocked"
    /\ AttemptOver
    /\ UNCHANGED <<setting, files, role, recorded>>

\* The handoff built from a finished focused execution: a failure returns the item to its
\* fixer, or blocks it when the tester runs under an admission.
Focused(outcome) ==
    LET log == {e \in Evidence : e.kind \in KindsOf("focused_tests") /\ e.at # Simulated}
        proof(result) == [gate |-> "focused_tests", result |-> result, evidence |-> log]
    IN  [form |-> "tester", outcome |-> outcome,
         proofs |-> CASE outcome = "pass"    -> <<proof("pass")>>
                      [] outcome = "red"     -> <<proof("fail")>>
                      [] outcome = "blocked" -> << >>,
         explained |-> outcome = "red",
         blocker |-> IF outcome = "blocked" THEN {log} ELSE {}]

\* complete_focused_test_execution
FocusedTestEnds(outcome) ==
    /\ job = "running" /\ role = "tester"
    /\ ~campaignAllows /\ required \in {FocusedOnly, ThreeGates}
    /\ focused = {}
    /\ focused' = {Focused(outcome)}
    /\ UNCHANGED <<setting, files, item, role, job, failures, answer, next, recorded>>

\* _validate_evidence_attachments and the end of _validate_stage_result.
Presentable(h, allowed) ==
    \A e \in EvidenceOf(h) : IF e.at = Simulated THEN allowed ELSE e.at \in files

\* What the scheduler accepts of an answer.
Acceptable(h) ==
    /\ Valid(role, h)
    /\ Presentable(h, runAllows)
    /\ NextState(required, h) # "rejected"

\* The worker answers h.
Answer(h) ==
    /\ job = "running"
    /\ IF Acceptable(h)
       THEN /\ job' = "judged"
            /\ answer' = {h}
            /\ next' = NextState(required, h)
            /\ UNCHANGED <<setting, files, item, role, failures, focused, recorded>>
       ELSE Fail

\* The store takes the tester's word (a faulty variant).
Authoritative_Worker == answer
\* The handoff the store judges: of a tester without simulated evidence, its own.
Authoritative == IF role = "tester" /\ ~campaignAllows THEN focused ELSE answer

\* A three-gate item whose focused test passed needs collector executions, which the store
\* never prepares: the lease is reported lost.
CollectorsMissing ==
    /\ role = "tester" /\ ~campaignAllows /\ required = ThreeGates
    /\ \E h \in focused : h.outcome = "pass"

\* The store trusts the attachments the scheduler has seen (a faulty variant).
StorePresents_Unchecked(h) == TRUE
StorePresents(h) == Presentable(h, campaignAllows)

Agreed(h) == NextState(required, h) = next

\* _validate_stage_result
Committable(h) ==
    /\ role = "tester" /\ ~campaignAllows => required \in {FocusedOnly, ThreeGates}
    /\ Valid(role, h)
    /\ NextState(required, h) # "rejected"
    /\ Agreed(h)
    /\ StorePresents(h)

\* commit_stage_result's successor job.
Enqueued == job' = "pending" /\ role' \in Successor(next) /\ failures' = 0

\* commit_stage_result: the outcome and its successor, or a failed attempt.
CommitStageResult ==
    /\ job = "judged"
    /\ IF CollectorsMissing
       THEN /\ job' = "lost"
            /\ UNCHANGED <<setting, files, item, role, failures, focused, answer, next, recorded>>
       ELSE IF \E h \in Authoritative : Committable(h)
       THEN /\ item' = next
            /\ recorded' = Authoritative
            /\ AttemptOver
            /\ IF Successor(next) = {}
               THEN job' = "completed" /\ UNCHANGED <<role, failures>>
               ELSE Enqueued
            /\ UNCHANGED <<setting, files>>
       ELSE Fail

Next ==
    \/ \E f \in File : FilesChange(f)
    \/ Claim \/ Lapse \/ CommitStageResult
    \/ \E outcome \in {"pass", "red", "blocked"} : FocusedTestEnds(outcome)
    \/ \E h \in Investigation \cup Fix : Answer(h)
    \/ \E h \in Test : Answer(h)

Spec == Init /\ [][Next]_vars
=============================================================================
