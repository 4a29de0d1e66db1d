---------------------------- MODULE HandoffProofs ----------------------------
(***************************************************************************)
(* What the two judgements of an answer promise, for every set of gates    *)
(* and of evidence and for handoffs of any size.                           *)
(*                                                                         *)
(* A handoff is judged by what it is, not by what was said of it: what     *)
(* the store may write as the item's next state follows from the handoff   *)
(* in hand and the required gates alone (NextStateMeans).  The rest is     *)
(* that the handoff in hand is the one recorded, and that a tester's       *)
(* record outlives its stage only as the cause of a setback.               *)
(***************************************************************************)
EXTENDS HandoffProperties, TLAPS

-----------------------------------------------------------------------------
(* The inductive invariant. *)

\* What a handoff is at least, whoever made it.
WellFormed(h) ==
    /\ h.form \in Role
    /\ h.form = "investigator" => h.outcome \in {"ready_for_fix", "blocked"}
    /\ h.form = "fixer" => h.outcome \in {"ready_for_test", "blocked"}
    /\ h.form = "tester" =>
          /\ h.outcome \in {"pass", "red", "blocked"}
          /\ \A p \in Proofs(h) : p.result \in {"pass", "fail", "not_applicable"}

AtMostOne(H) == \A g, h \in H : g = h

InHand ==
    /\ AtMostOne(focused) /\ AtMostOne(answer)
    /\ \A h \in focused \cup answer : WellFormed(h)

\* The item, which requires some gate, is where its newest job stands, and only a
\* job that has used up its attempts has failed.
ItemFollowsJob ==
    /\ required # {}
    /\ role \in Role
    /\ job \in JobStates
    /\ failures \in Nat /\ failures <= MaxAttempts
    /\ job # "failed" => failures < MaxAttempts
    /\ job = "pending" => item = QueuedState[role]
    /\ job \in {"running", "judged", "lost"} => item = ActiveState[role]
    /\ job = "completed" => item \in TerminalStates
    /\ job = "failed" => item = "blocked" /\ failures = MaxAttempts

\* A gate the item requires failed on evidence.
RedCause(h) ==
    \E p \in Proofs(h) : p.gate \in required /\ p.result = "fail" /\ p.evidence # {}

\* Each required gate has its one proof, which passes on evidence of its kind.
GreenProof(h) ==
    /\ \A g \in required :
          \E n \in DOMAIN h.proofs :
              /\ \A m \in DOMAIN h.proofs : h.proofs[m].gate = g => m = n
              /\ h.proofs[n].gate = g
              /\ h.proofs[n].result = "pass"
              /\ \E e \in h.proofs[n].evidence : e.kind \in KindsOf(g)
    /\ \A p \in Proofs(h) :
          p.result # "fail" /\ \A e \in p.evidence : e.kind \in KindsOf(p.gate)

Backed(h) == \E E \in h.blocker : E # {}

\* A tester's record is the item's last, or the reason it went back.
TesterRecorded ==
    \A h \in recorded : h.form = "tester" => job = "completed" \/ RedCause(h)

HandoffInv ==
    /\ InHand
    /\ ItemFollowsJob
    /\ TesterRecorded
    /\ GreenIsProved
    /\ SetbackNamesCause

-----------------------------------------------------------------------------
(* The states of a stage. *)

\* Every queued and every active state belongs to one role.
LEMMA StageNames ==
    /\ QueuedState["investigator"] = "backlog" /\ ActiveState["investigator"] = "investigating"
    /\ QueuedState["fixer"] = "ready_for_fix" /\ ActiveState["fixer"] = "fixing"
    /\ QueuedState["tester"] = "ready_for_test" /\ ActiveState["tester"] = "testing"
  BY DEF QueuedState, ActiveState, Role

\* Work goes on exactly from the states a stage hands over in.
LEMMA Successors ==
    /\ Successor("ready_for_fix") = {"fixer"}
    /\ Successor("ready_for_test") = {"tester"}
    /\ Successor("verified_green") = {}
    /\ Successor("blocked") = {}
  BY Zenon DEF Successor

-----------------------------------------------------------------------------
(* What a handoff may make of its item. *)

\* A tester's verdict: green only for a pass that proves every gate, back to the
\* fixer only for a failure that counts.
LEMMA EvaluateMeans ==
    ASSUME required # {}, NEW h, h.outcome \in {"pass", "red", "blocked"}
    PROVE  \/ Evaluate(required, h) = "rejected"
           \/ Evaluate(required, h) = "blocked" /\ h.outcome = "blocked"
           \/ /\ Evaluate(required, h) = "ready_for_fix"
              /\ h.outcome = "red" /\ RedCounts(required, h)
           \/ /\ Evaluate(required, h) = "verified_green"
              /\ h.outcome = "pass" /\ Unproved(required, h) = {}
<1> DEFINE E == Evaluate(required, h)
<1>1. h.outcome = "blocked" => E = "blocked"
  BY Zenon DEF Evaluate
<1>2. h.outcome = "red" => E = IF RedCounts(required, h) THEN "ready_for_fix" ELSE "rejected"
  BY Zenon DEF Evaluate
<1>3. h.outcome = "pass" =>
         E = IF Unproved(required, h) = {} THEN "verified_green" ELSE "rejected"
  BY Zenon DEF Evaluate
<1> HIDE DEF E
<1> QED
  BY <1>1, <1>2, <1>3 DEF E

\* A passing report that leaves no gate unproved proves each of them once.
LEMMA PassProves ==
    ASSUME NEW h, WellFormed(h), h.form = "tester", ValidTest(h),
           h.outcome = "pass", Unproved(required, h) = {}
    PROVE  GreenProof(h)
<1>1. ASSUME NEW g \in required
      PROVE  \E n \in DOMAIN h.proofs :
                 /\ \A m \in DOMAIN h.proofs : h.proofs[m].gate = g => m = n
                 /\ h.proofs[n].gate = g
                 /\ h.proofs[n].result = "pass"
                 /\ \E e \in h.proofs[n].evidence : e.kind \in KindsOf(g)
  <2>1. PICK n \in DOMAIN h.proofs : h.proofs[n].gate = g
    BY <1>1 DEF Unproved, Missing, Proofs
  <2>2. h.proofs[n] \in Proofs(h)
    BY DEF Proofs
  <2>3. h.proofs[n].result # "not_applicable" /\ h.proofs[n].result # "fail"
    BY <1>1, <2>1, <2>2 DEF Unproved, Inapplicable, ValidTest, Failed
  <2>4. h.proofs[n].result = "pass"
    BY <2>2, <2>3 DEF WellFormed
  <2>5. h.proofs[n].evidence # {} /\ \A e \in h.proofs[n].evidence : e.kind \in KindsOf(g)
    BY <2>1, <2>2, <2>4 DEF ValidTest, ValidProof
  <2>6. \A m \in DOMAIN h.proofs : h.proofs[m].gate = g => m = n
    BY <2>1 DEF ValidTest, OneProofPerGate
  <2> QED
    BY <2>1, <2>4, <2>5, <2>6
<1>2. \A p \in Proofs(h) :
          p.result # "fail" /\ \A e \in p.evidence : e.kind \in KindsOf(p.gate)
  BY DEF ValidTest, ValidProof, Failed
<1> QED
  BY <1>1, <1>2 DEF GreenProof

\* A failure that counts is one of a required gate, on evidence.
LEMMA FailureCounts ==
    ASSUME NEW h, ValidTest(h), RedCounts(required, h)
    PROVE  RedCause(h)
  BY DEF RedCounts, Failed, ValidTest, ValidProof, RedCause

\* Whatever may be written as the next state has its ground in the handoff itself.
LEMMA NextStateMeans ==
    ASSUME required # {}, NEW h, NEW r \in Role, WellFormed(h), Valid(r, h),
           NextState(required, h) # "rejected"
    PROVE  \/ NextState(required, h) = "blocked" /\ Backed(h)
           \/ /\ NextState(required, h) = "ready_for_fix"
              /\ h.form = "tester" => RedCause(h)
           \/ NextState(required, h) = "ready_for_test" /\ h.form # "tester"
           \/ /\ NextState(required, h) = "verified_green"
              /\ h.form = "tester" /\ GreenProof(h)
<1>1. CASE h.form = "tester"
  <2>1. NextState(required, h) = Evaluate(required, h)
    BY <1>1 DEF NextState
  <2>2. h.outcome \in {"pass", "red", "blocked"}
    BY <1>1 DEF WellFormed
  <2>3. ValidTest(h)
    BY <1>1 DEF Valid
  <2>4. CASE Evaluate(required, h) = "blocked" /\ h.outcome = "blocked"
    BY <2>1, <2>3, <2>4 DEF ValidTest, ValidBlocker, Backed
  <2>5. CASE Evaluate(required, h) = "ready_for_fix" /\ RedCounts(required, h)
    BY <2>1, <2>3, <2>5, FailureCounts
  <2>6. CASE /\ Evaluate(required, h) = "verified_green"
             /\ h.outcome = "pass" /\ Unproved(required, h) = {}
    BY <1>1, <2>1, <2>3, <2>6, PassProves
  <2> QED
    BY <2>1, <2>2, <2>4, <2>5, <2>6, EvaluateMeans
<1>2. CASE h.form # "tester"
  <2>1. NextState(required, h) = h.outcome
    BY <1>2 DEF NextState
  <2>2. CASE h.form = "investigator"
    BY <2>1, <2>2 DEF WellFormed, Valid, ValidInvestigation, ValidBlocker, Backed
  <2>3. CASE h.form = "fixer"
    BY <2>1, <2>3 DEF WellFormed, Valid, ValidFix, ValidBlocker, Backed
  <2> QED
    BY <1>2, <2>2, <2>3 DEF WellFormed, Role
<1> QED
  BY <1>1, <1>2

\* A collector's handoff is well formed, and so is any answer of the schemas.
LEMMA FocusedWellFormed ==
    ASSUME NEW outcome \in {"pass", "red", "blocked"}
    PROVE  WellFormed(Focused(outcome))
<1> DEFINE log == {e \in Evidence : e.kind \in KindsOf("focused_tests") /\ e.at # Simulated}
           proof(result) == [gate |-> "focused_tests", result |-> result, evidence |-> log]
           told == CASE outcome = "pass"    -> <<proof("pass")>>
                     [] outcome = "red"     -> <<proof("fail")>>
                     [] outcome = "blocked" -> << >>
           H == Focused(outcome)
<1>1. H.form = "tester" /\ H.outcome = outcome /\ H.proofs = told
  BY DEF Focused
<1>2. told = <<proof("pass")>> \/ told = <<proof("fail")>> \/ told = << >>
  BY Zenon
<1> HIDE DEF H, told
<1>3. \A p \in Proofs(H) : p.result \in {"pass", "fail", "not_applicable"}
  BY <1>1, <1>2 DEF Proofs
<1> QED
  BY <1>1, <1>3 DEF WellFormed, Role, H

LEMMA AnswersWellFormed == \A h \in Investigation \cup Fix \cup Test : WellFormed(h)
<1>1. \A h \in Investigation \cup Fix : WellFormed(h)
  BY DEF Investigation, Fix, WellFormed, Role
<1>2. ASSUME NEW h \in Test PROVE WellFormed(h)
  <2>1. /\ h.form = "tester" /\ h.outcome \in {"pass", "red", "blocked"}
        /\ h.proofs \in UNION {[1..n -> Proof] : n \in 0..MaxProofs}
    BY <1>2 DEF Test
  <2>2. PICK n \in 0..MaxProofs : h.proofs \in [1..n -> Proof]
    BY <2>1
  <2>3. \A p \in Proofs(h) : p.result \in {"pass", "fail", "not_applicable"}
    BY <2>2 DEF Proofs, Proof
  <2> QED
    BY <2>1, <2>3 DEF WellFormed, Role
<1> QED
  BY <1>1, <1>2

-----------------------------------------------------------------------------
(* The commit. *)

\* The handoff the store commits is the one in hand, and the state it writes is the
\* one that handoff asks for.
Advanced(h) ==
    /\ h \in Authoritative
    /\ Committable(h)
    /\ item' = next
    /\ recorded' = {h}
    /\ AttemptOver
    /\ \/ next \in TerminalStates /\ job' = "completed" /\ UNCHANGED <<role, failures>>
       \/ /\ next \in {"ready_for_fix", "ready_for_test"}
          /\ role' = IF next = "ready_for_fix" THEN "fixer" ELSE "tester"
          /\ job' = "pending"
          /\ failures' = 0
    /\ UNCHANGED <<setting, files>>

\* A commit finds its collectors missing, or fails the attempt, or advances the item
\* by the one handoff that has the say.
LEMMA CommitMeans ==
    ASSUME HandoffInv, CommitStageResult
    PROVE  \/ /\ job' = "lost"
              /\ UNCHANGED <<setting, files, item, role, failures, focused, answer, next,
                             recorded>>
           \/ Fail
           \/ \E h \in Authoritative : Advanced(h) /\ WellFormed(h)
<1>1. CASE CollectorsMissing
  BY <1>1 DEF CommitStageResult
<1>2. CASE ~CollectorsMissing /\ ~\E h \in Authoritative : Committable(h)
  BY <1>2 DEF CommitStageResult
<1>3. CASE ~CollectorsMissing /\ \E h \in Authoritative : Committable(h)
  <2>1. PICK h \in Authoritative : Committable(h)
    BY <1>3
  <2>2. WellFormed(h) /\ AtMostOne(Authoritative)
    BY DEF HandoffInv, InHand, Authoritative
  <2>3. /\ item' = next
        /\ recorded' = Authoritative
        /\ AttemptOver
        /\ IF Successor(next) = {}
           THEN job' = "completed" /\ UNCHANGED <<role, failures>>
           ELSE Enqueued
        /\ UNCHANGED <<setting, files>>
    BY <1>3 DEF CommitStageResult
  <2>4. recorded' = {h}
    BY <2>1, <2>2, <2>3 DEF AtMostOne
  <2>5. next \in {"blocked", "verified_green", "ready_for_fix", "ready_for_test"}
    <3>1. NextState(required, h) = next /\ next # "rejected" /\ Valid(role, h)
      BY <2>1 DEF Committable, Agreed
    <3> QED
      BY <2>2, <3>1, NextStateMeans DEF HandoffInv, ItemFollowsJob
  <2>6. CASE next \in TerminalStates
    BY <2>1, <2>2, <2>3, <2>4, <2>6, Successors DEF Advanced, TerminalStates
  <2>7. CASE next \notin TerminalStates
    <3>1. next = "ready_for_fix" \/ next = "ready_for_test"
      BY <2>5, <2>7 DEF TerminalStates
    <3>2. Successor(next) = {IF next = "ready_for_fix" THEN "fixer" ELSE "tester"}
      BY <3>1, Successors
    <3> QED
      BY <2>1, <2>2, <2>3, <2>4, <3>1, <3>2 DEF Advanced, Enqueued
  <2> QED
    BY <2>6, <2>7
<1> QED
  BY <1>1, <1>2, <1>3

-----------------------------------------------------------------------------
(* The invariant holds. *)

\* It depends on nothing but these variables.
LEMMA SameKeepsHandoffInv ==
    ASSUME HandoffInv,
           UNCHANGED <<required, item, role, job, failures, focused, answer, recorded>>
    PROVE  HandoffInv'
<1>1. \A h : WellFormed(h)' <=> WellFormed(h)
  BY DEF WellFormed
<1> QED
  BY <1>1 DEF HandoffInv, InHand, AtMostOne, WellFormed, ItemFollowsJob, TesterRecorded, RedCause,
         GreenIsProved, SetbackNamesCause

\* An attempt that begins or ends without an outcome leaves the record alone, which
\* accounts for every state the item may be in meanwhile.
LEMMA StageKeepsRecord ==
    ASSUME HandoffInv, UNCHANGED <<required, recorded>>,
           job # "completed", job' # "completed",
           item' = QueuedState[role] \/ item' = ActiveState[role]
    PROVE  (TesterRecorded /\ GreenIsProved /\ SetbackNamesCause)'
<1>1. item' \notin {"verified_green", "blocked"}
  BY StageNames DEF HandoffInv, ItemFollowsJob, Role
<1>2. \A h \in recorded : h.form = "tester" => RedCause(h)
  BY DEF HandoffInv, TesterRecorded
<1> QED
  BY <1>1, <1>2 DEF TesterRecorded, RedCause, GreenIsProved, SetbackNamesCause

LEMMA ClaimKeeps == ASSUME HandoffInv, Claim PROVE HandoffInv'
<1>1. InHand'
  BY DEF HandoffInv, InHand, AtMostOne, WellFormed, Claim
<1>2. ItemFollowsJob'
  BY DEF HandoffInv, ItemFollowsJob, Claim, JobStates, setting
<1>3. (TesterRecorded /\ GreenIsProved /\ SetbackNamesCause)'
  BY StageKeepsRecord DEF Claim, setting
<1> QED
  BY <1>1, <1>2, <1>3 DEF HandoffInv

LEMMA LapseKeeps == ASSUME HandoffInv, Lapse PROVE HandoffInv'
<1>1. InHand'
  BY DEF InHand, AtMostOne, AttemptOver, Lapse
<1>2. ItemFollowsJob'
  BY DEF HandoffInv, ItemFollowsJob, Lapse, JobStates, setting
<1>3. (TesterRecorded /\ GreenIsProved /\ SetbackNamesCause)'
  BY StageKeepsRecord DEF Lapse, setting
<1> QED
  BY <1>1, <1>2, <1>3 DEF HandoffInv

\* A failed attempt: the item waits again, or is blocked by the last one.
LEMMA FailKeeps ==
    ASSUME HandoffInv, Fail, job \in {"running", "judged"}
    PROVE  HandoffInv'
<1>1. InHand'
  BY DEF InHand, AtMostOne, AttemptOver, Fail
<1>2. CASE AttemptsLeft(failures')
  <2>1. ItemFollowsJob'
    BY <1>2, HandoffAssumption
       DEF HandoffInv, ItemFollowsJob, Fail, AttemptsLeft, JobStates, setting
  <2>2. (TesterRecorded /\ GreenIsProved /\ SetbackNamesCause)'
    BY <1>2, StageKeepsRecord DEF Fail, setting
  <2> QED
    BY <1>1, <2>1, <2>2 DEF HandoffInv
<1>3. CASE ~AttemptsLeft(failures')
  <2>1. job' = "failed" /\ item' = "blocked" /\ UNCHANGED <<required, role, recorded>>
        /\ failures' = failures + 1
    BY <1>3 DEF Fail, setting
  <2>2. failures' = MaxAttempts
    BY <1>3, <2>1, HandoffAssumption DEF HandoffInv, ItemFollowsJob, AttemptsLeft
  <2>3. ItemFollowsJob'
    BY <2>1, <2>2, HandoffAssumption DEF HandoffInv, ItemFollowsJob, JobStates
  <2>4. (TesterRecorded /\ GreenIsProved /\ SetbackNamesCause)'
    BY <2>1, <2>2
       DEF HandoffInv, TesterRecorded, RedCause, GreenIsProved, SetbackNamesCause
  <2> QED
    BY <1>1, <2>3, <2>4 DEF HandoffInv
<1> QED
  BY <1>2, <1>3

LEMMA AnswerKeeps ==
    ASSUME HandoffInv, NEW h \in Investigation \cup Fix \cup Test, Answer(h)
    PROVE  HandoffInv'
<1>1. CASE Acceptable(h)
  <2>1. /\ job = "running" /\ job' = "judged"
        /\ answer' = {h}
        /\ UNCHANGED <<required, item, role, failures, focused, recorded>>
    BY <1>1 DEF Answer, setting
  <2>2. InHand'
    BY <2>1, AnswersWellFormed DEF HandoffInv, InHand, AtMostOne, WellFormed
  <2>3. ItemFollowsJob'
    BY <2>1 DEF HandoffInv, ItemFollowsJob, JobStates
  <2>4. (TesterRecorded /\ GreenIsProved /\ SetbackNamesCause)'
    BY <2>1, StageKeepsRecord DEF HandoffInv, ItemFollowsJob
  <2> QED
    BY <2>2, <2>3, <2>4 DEF HandoffInv
<1>2. CASE ~Acceptable(h)
  BY <1>2, FailKeeps DEF Answer
<1> QED
  BY <1>1, <1>2

LEMMA FocusedTestEndsKeeps ==
    ASSUME HandoffInv, NEW outcome \in {"pass", "red", "blocked"}, FocusedTestEnds(outcome)
    PROVE  HandoffInv'
<1>1. /\ focused' = {Focused(outcome)}
      /\ UNCHANGED <<required, item, role, job, failures, answer, recorded>>
  BY DEF FocusedTestEnds, setting
<1>2. InHand'
  BY <1>1, FocusedWellFormed DEF HandoffInv, InHand, AtMostOne, WellFormed
<1>3. ItemFollowsJob'
  BY <1>1 DEF HandoffInv, ItemFollowsJob
<1>4. (TesterRecorded /\ GreenIsProved /\ SetbackNamesCause)'
  BY <1>1 DEF HandoffInv, TesterRecorded, RedCause, GreenIsProved, SetbackNamesCause
<1> QED
  BY <1>2, <1>3, <1>4 DEF HandoffInv

\* The advance writes what its handoff accounts for.
LEMMA AdvancedKeeps ==
    ASSUME HandoffInv, job = "judged", NEW h, WellFormed(h), Advanced(h)
    PROVE  HandoffInv'
<1>1. /\ Valid(role, h) /\ NextState(required, h) = next /\ next # "rejected"
      /\ item' = next /\ recorded' = {h} /\ required' = required
  BY DEF Advanced, Committable, Agreed, setting
<1>2. \/ next = "blocked" /\ Backed(h)
      \/ next = "ready_for_fix" /\ (h.form = "tester" => RedCause(h))
      \/ next = "ready_for_test" /\ h.form # "tester"
      \/ next = "verified_green" /\ h.form = "tester" /\ GreenProof(h)
  BY <1>1, NextStateMeans DEF HandoffInv, ItemFollowsJob
<1>3. InHand'
  BY DEF InHand, AtMostOne, AttemptOver, Advanced
<1>4. ItemFollowsJob'
  BY <1>1, StageNames, HandoffAssumption
     DEF HandoffInv, ItemFollowsJob, Advanced, JobStates, Role, TerminalStates
<1>5. next \in {"blocked", "verified_green"} => job' = "completed"
  BY <1>2 DEF Advanced, TerminalStates
<1>6. TesterRecorded'
  BY <1>1, <1>2, <1>5 DEF TesterRecorded, RedCause
<1>7. GreenIsProved'
  BY <1>1, <1>2 DEF GreenIsProved, GreenProof
<1>8. SetbackNamesCause'
  BY <1>1, <1>2, <1>5 DEF SetbackNamesCause, RedCause, Backed
<1> QED
  BY <1>3, <1>4, <1>6, <1>7, <1>8 DEF HandoffInv

LEMMA CommitKeeps == ASSUME HandoffInv, CommitStageResult PROVE HandoffInv'
<1>1. job = "judged"
  BY DEF CommitStageResult
<1>2. CASE /\ job' = "lost"
           /\ UNCHANGED <<setting, files, item, role, failures, focused, answer, next, recorded>>
  <2>1. InHand'
    BY <1>2 DEF HandoffInv, InHand, AtMostOne, WellFormed
  <2>2. ItemFollowsJob'
    BY <1>1, <1>2 DEF HandoffInv, ItemFollowsJob, JobStates, setting
  <2>3. (TesterRecorded /\ GreenIsProved /\ SetbackNamesCause)'
    BY <1>1, <1>2, StageKeepsRecord DEF HandoffInv, ItemFollowsJob, setting
  <2> QED
    BY <2>1, <2>2, <2>3 DEF HandoffInv
<1>3. CASE Fail
  BY <1>1, <1>3, FailKeeps
<1>4. CASE \E h \in Authoritative : Advanced(h) /\ WellFormed(h)
  BY <1>1, <1>4, AdvancedKeeps
<1> QED
  BY <1>2, <1>3, <1>4, CommitMeans

LEMMA HandoffInitially == Init => HandoffInv
<1> SUFFICES ASSUME Init PROVE HandoffInv
  OBVIOUS
<1>1. ItemFollowsJob
  BY HandoffAssumption DEF Init, ItemFollowsJob, JobStates
<1>2. item \notin {"verified_green", "blocked"}
  BY StageNames DEF Init, Role
<1> QED
  BY <1>1, <1>2
     DEF Init, HandoffInv, InHand, AtMostOne, TesterRecorded, GreenIsProved, SetbackNamesCause

LEMMA HandoffKept == HandoffInv /\ [Next]_vars => HandoffInv'
<1> SUFFICES ASSUME HandoffInv, [Next]_vars PROVE HandoffInv'
  OBVIOUS
<1>1. CASE \E f \in File : FilesChange(f)
  BY <1>1, SameKeepsHandoffInv DEF FilesChange, setting
<1>2. CASE UNCHANGED vars
  BY <1>2, SameKeepsHandoffInv DEF vars, setting
<1> QED
  BY <1>1, <1>2, ClaimKeeps, LapseKeeps, CommitKeeps, FocusedTestEndsKeeps, AnswerKeeps
     DEF Next

LEMMA HandoffInvariant == Spec => []HandoffInv
  BY HandoffInitially, HandoffKept, PTL DEF Spec

\* Green is earned gate by gate (evaluate_test_handoff and the validators of models.py).
THEOREM GreenIsAlwaysProved == Spec => []GreenIsProved
  BY HandoffInvariant, PTL DEF HandoffInv

\* A setback has its cause on record: a required gate that failed on evidence, a
\* blocker that evidence backs, or attempts used up.
THEOREM SetbackAlwaysNamesCause == Spec => []SetbackNamesCause
  BY HandoffInvariant, PTL DEF HandoffInv

-----------------------------------------------------------------------------
(* What a commit may do. *)

\* Only an advance changes the record.
LEMMA RecordChanges ==
    ASSUME HandoffInv, [Next]_vars, recorded' # recorded
    PROVE  \E h \in Authoritative : Advanced(h)
<1>1. CommitStageResult
  BY DEF Next, vars, FilesChange, Claim, Lapse, FocusedTestEnds, Answer, Fail
<1> QED
  BY <1>1, CommitMeans DEF Fail

\* The files a committed handoff points to exist as it is committed, and simulated
\* evidence needs the campaign's leave (_validate_stage_result).
THEOREM EvidenceAlwaysStands == Spec => EvidenceStandsAtCommit
<1> DEFINE A == \A h \in recorded' :
                    recorded' # recorded =>
                        \A e \in EvidenceOf(h) :
                            IF e.at = Simulated THEN campaignAllows ELSE e.at \in files
<1>1. HandoffInv /\ [Next]_vars => [A]_vars
  <2> SUFFICES ASSUME HandoffInv, [Next]_vars, recorded' # recorded PROVE A
    OBVIOUS
  <2>1. PICK g \in Authoritative : Advanced(g)
    BY RecordChanges
  <2>2. recorded' = {g} /\ Presentable(g, campaignAllows)
    BY <2>1 DEF Advanced, Committable, StorePresents
  <2> QED
    BY <2>2 DEF Presentable
<1> QED
  BY <1>1, HandoffInvariant, PTL DEF Spec, EvidenceStandsAtCommit

\* Without simulated evidence an item leaves testing, other than by failing, only by
\* the handoff of the attempt's own finished execution.
THEOREM TesterWordNeverDecides == Spec => TesterWordNeverCounts
<1> DEFINE A == /\ ~campaignAllows /\ item = "testing"
                /\ item' \in {"verified_green", "ready_for_fix"}
                => \E h \in focused :
                       NextState(required, h) = item' /\ recorded' = {h} /\ next = item'
<1>1. HandoffInv /\ [Next]_vars => [A]_vars
  <2> SUFFICES ASSUME HandoffInv, [Next]_vars, ~campaignAllows, item = "testing",
                      item' \in {"verified_green", "ready_for_fix"}
               PROVE  \E h \in focused :
                          NextState(required, h) = item' /\ recorded' = {h} /\ next = item'
    OBVIOUS
  <2>1. role = "tester" /\ job \in {"running", "judged", "lost"}
    BY StageNames DEF HandoffInv, ItemFollowsJob, Role, JobStates, TerminalStates
  <2>2. ~Fail /\ ~Lapse
    BY <2>1, StageNames DEF Fail, Lapse
  <2>3. CommitStageResult
    BY <2>1, <2>2 DEF Next, vars, FilesChange, Claim, FocusedTestEnds, Answer
  <2>4. PICK h \in Authoritative : Advanced(h)
    BY <2>2, <2>3, CommitMeans
  <2>5. h \in focused
    BY <2>1 DEF Authoritative
  <2> QED
    BY <2>4, <2>5 DEF Advanced, Committable, Agreed
<1> QED
  BY <1>1, HandoffInvariant, PTL DEF Spec, TesterWordNeverCounts
=============================================================================
