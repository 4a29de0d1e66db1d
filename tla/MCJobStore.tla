----------------------------- MODULE MCJobStore -----------------------------
(***************************************************************************)
(* Instances of the durable queue small enough for TLC.                    *)
(***************************************************************************)
EXTENDS JobStoreWorkflow, TLC

CONSTANTS worktree, tenant

\* A worktree is an unregistered key with one slot; a tenant is a registered
\* definition whose policy admits two holders.
MCRegistered == Resource \cap {tenant}
MCLimit == [r \in Resource |-> IF r = tenant THEN 2 ELSE 1]

\* One running job of each role at a time, or two.
OneOfEachRole == [r \in Role |-> 1]
TwoOfEachRole == [r \in Role |-> 2]

Permutation == Permutations(Item) \cup Permutations(Session)
=============================================================================
