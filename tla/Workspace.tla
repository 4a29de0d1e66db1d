------------------------------ MODULE Workspace ------------------------------
(***************************************************************************)
(* What agent-flow promises whoever works in an item's managed worktree,   *)
(* whatever rows, guardians, managers and fences it keeps it with.         *)
(*                                                                         *)
(* The directory is made while the item waits for it, offered only while   *)
(* it is whole, edited or not, and taken away only after the item has      *)
(* ended.  What has been withdrawn is never offered again, and what has    *)
(* been edited is never taken away, unless the edits are hidden from Git.  *)
(* Worktrees implements this.                                              *)
(***************************************************************************)
VARIABLES item,     \* the item: waiting for its workspace, attached to it, at work, over
          disk,     \* the directory: absent, partial, exact (as made), hidden or edited
          status    \* whether the workspace is withheld, ready for work, or removed

vars == <<item, disk, status>>

Init == item = "waiting" /\ disk = "absent" /\ status = "withheld"

Whole == {"exact", "hidden", "edited"}

\* The making may fail, and take back what it has begun.
Make ==
    /\ item = "waiting"
    /\ <<disk, disk'>> \in
          {<<"absent", "partial">>, <<"partial", "exact">>, <<"partial", "absent">>}
    /\ UNCHANGED <<item, status>>

Offer ==
    /\ item = "waiting" /\ disk \in Whole
    /\ item' = "attached" /\ status' = "ready"
    /\ UNCHANGED disk

Begin ==
    /\ item = "attached" /\ status = "ready"
    /\ item' = "working"
    /\ UNCHANGED <<disk, status>>

Finish ==
    /\ item = "working"
    /\ item' \in {"attached", "ended"}
    /\ UNCHANGED <<disk, status>>

Edit ==
    /\ <<disk, disk'>> \in {<<"exact", "hidden">>, <<"exact", "edited">>, <<"hidden", "edited">>}
    /\ UNCHANGED <<item, status>>

\* A worker has found it changed behind its back, or it is to be removed.
Withdraw ==
    /\ item \in {"working", "ended"} /\ status = "ready"
    /\ status' = "withheld"
    /\ UNCHANGED <<item, disk>>

TakeAway ==
    /\ item = "ended" /\ status = "withheld"
    /\ <<disk, disk'>> \in {<<"exact", "partial">>, <<"hidden", "partial">>, <<"partial", "absent">>}
    /\ UNCHANGED <<item, status>>

Settle ==
    /\ item = "ended" /\ status = "withheld" /\ disk = "absent"
    /\ status' = "removed"
    /\ UNCHANGED <<item, disk>>

Next == Make \/ Offer \/ Begin \/ Finish \/ Edit \/ Withdraw \/ TakeAway \/ Settle

Spec == Init /\ [][Next]_vars
=============================================================================
