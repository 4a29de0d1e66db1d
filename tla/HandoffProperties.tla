------------------------- MODULE HandoffProperties -------------------------
(***************************************************************************)
(* What the two judgements of an answer promise of the item that advances. *)
(***************************************************************************)
EXTENDS Handoffs

\* Green is earned gate by gate: whatever the worker answered, each gate the item
\* requires has exactly one proof, which passes on evidence of its own kind, and no
\* proof at all fails (evaluate_test_handoff, models.py:836; the validators of
\* GateProof and TestHandoff, models.py:752, 788).
GreenIsProved ==
    item = "verified_green" =>
        \E h \in recorded :
            /\ \A g \in required :
                  \E n \in DOMAIN h.proofs :
                      /\ \A m \in DOMAIN h.proofs : h.proofs[m].gate = g => m = n
                      /\ h.proofs[n].gate = g
                      /\ h.proofs[n].result = "pass"
                      /\ \E e \in h.proofs[n].evidence : e.kind \in KindsOf(g)
            /\ \A p \in Proofs(h) :
                  p.result # "fail" /\ \A e \in p.evidence : e.kind \in KindsOf(p.gate)

\* A setback has its cause on record.  A tester sends an item back to its fixer only for
\* a gate the item requires, which failed on evidence; an item is blocked by a blocker
\* that evidence backs, or because its last job has used up its attempts: a worker's word
\* alone blocks nothing (models.py:692, 788, 836).
SetbackNamesCause ==
    /\ \A h \in recorded :
          h.form = "tester" /\ item \in {"ready_for_fix", "fixing"} =>
              \E p \in Proofs(h) :
                  p.gate \in required /\ p.result = "fail" /\ p.evidence # {}
    /\ item = "blocked" =>
          \/ job = "failed" /\ failures = MaxAttempts
          \/ job = "completed" /\ \E h \in recorded : \E E \in h.blocker : E # {}

\* The evidence of a committed handoff exists as the store commits it, though the
\* scheduler looked earlier, and is simulated only in a campaign that allows it,
\* though the scheduler's run may allow more (storage.py:8979, scheduler.py:1189).
EvidenceStandsAtCommit ==
    [][\A h \in recorded' :
          recorded' # recorded =>
              \A e \in EvidenceOf(h) : IF e.at = Simulated THEN campaignAllows ELSE e.at \in files]_vars

\* Without simulated evidence a tester's word counts for nothing: its item leaves
\* testing for another stage, or for green, only by the handoff of the attempt's own
\* finished execution, and only as the scheduler had asked.
TesterWordNeverCounts ==
    [][/\ ~campaignAllows /\ item = "testing"
       /\ item' \in {"verified_green", "ready_for_fix"}
       => \E h \in focused : NextState(required, h) = item' /\ recorded' = {h} /\ next = item']_vars
=============================================================================
