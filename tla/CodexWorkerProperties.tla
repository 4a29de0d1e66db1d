------------------------ MODULE CodexWorkerProperties ------------------------
(***************************************************************************)
(* What the store may rely on when a Codex worker answers, or condemns a   *)
(* worktree, while its predecessors' threads are still about.              *)
(***************************************************************************)
EXTENDS CodexWorker

Committed(a) == run[a].step = "committed"

\* A result is accepted only of a command that ended well by itself, whose whole turn was
\* heard in the session on the attempt's record, the one it was told to resume if any; no
\* session gives two accepted results; and the tree a read-only role was shown is the tree
\* that is there when its result is accepted: nothing it left running and no other
\* attempt has touched it since (codex_worker.py:652-663; README.md:60-61).
AcceptedOnProof ==
    /\ [][\A a \in Attempt :
            ~Committed(a) /\ Committed(a)' =>
                /\ Valid(a)
                /\ session[a] = run[a].thread
                /\ wanted[a] \in {NoSession, session[a]}
                /\ ReadOnly(a) => run[a].baseline = {tree}]_vars
    /\ [](\A a, b \in Attempt :
            Committed(a) /\ Committed(b) /\ session[a] = session[b] => a = b)

\* A worktree is condemned only for what is true of it when it is condemned: its binding
\* is broken, or the attempt at work is read-only and its tree is not the one it was
\* shown.  The verdict of a cancelled attempt's thread on a tree its successor is editing
\* changes nothing (codex_worker.py:1065, 1125; storage.py:5446).
CondemnedWithCause ==
    [][ready /\ ~ready' =>
           \/ ~intact
           \/ ReadOnly(current) /\ run[current].baseline # {tree}]_vars
=============================================================================
