---------------------------- MODULE MCAdmission ----------------------------
(***************************************************************************)
(* Instances of one tester job small enough for TLC.                       *)
(***************************************************************************)
EXTENDS AdmissionProperties

\* The focused job uses a browser resource that none of its gates asks for.
MCRequired == [g \in Gates |-> IF g = "three" THEN Collector ELSE {"browser"}]
=============================================================================
