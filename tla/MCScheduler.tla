---------------------------- MODULE MCScheduler ----------------------------
(***************************************************************************)
(* Instances of one scheduler over the queue small enough for TLC.         *)
(***************************************************************************)
EXTENDS SchedulerProperties, JobStoreProperties, TLC

CONSTANTS first, second

MCReconciler == {"loop", first, second}
NoLimit == [r \in {} |-> 1]
TwoOfEachRole == [r \in Role |-> 2]

\* Two workers of one role, or a fixer and a tester.
SameRole == [l \in {first, second} |-> "investigator"]
TwoStages == [l \in {first, second} |-> IF l = first THEN "fixer" ELSE "tester"]
FirstOfEach == [l \in {first, second} |-> 1]
InPool == [l \in {first, second} |-> IF l = first THEN 1 ELSE 2]
=============================================================================
