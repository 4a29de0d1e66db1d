----------------------------- MODULE MCHandoffs -----------------------------
(***************************************************************************)
(* Instances of the handoff judgement small enough for TLC.                *)
(***************************************************************************)
EXTENDS HandoffProperties

\* A simulated log and a simulated database result, and a test report that is a file.
MCEvidence == {[kind |-> "log", at |-> Simulated], [kind |-> "database", at |-> Simulated],
               [kind |-> "test", at |-> "report"]}

\* One gate, two that share no kind of evidence, and the fixed three; a campaign
\* without simulated evidence can test the first and the last.
MCGateChoices == {FocusedOnly, {"focused_tests", "database"}, ThreeGates}
=============================================================================
