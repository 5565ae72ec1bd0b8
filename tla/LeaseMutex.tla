----------------------------- MODULE LeaseMutex -----------------------------
(***************************************************************************)
(* What the worktree mutation lease promises, with the runs' lifecycle     *)
(* abstracted away: a worktree has at most one writer run, a run holds at  *)
(* most one worktree, and the lease passes from one run to another only    *)
(* through a moment at which nobody holds it.                              *)
(***************************************************************************)
CONSTANTS Run, Worktree, None

VARIABLE holder

Init == holder = [w \in Worktree |-> None]

(* A run takes a worktree nobody holds, and holds no other worktree. *)
Acquire(w, r) ==
  /\ holder[w] = None
  /\ \A v \in Worktree : holder[v] # r
  /\ holder' = [holder EXCEPT ![w] = r]

Release(w) ==
  /\ holder[w] # None
  /\ holder' = [holder EXCEPT ![w] = None]

Next ==
  \E w \in Worktree :
    \/ \E r \in Run : Acquire(w, r)
    \/ Release(w)

Spec == Init /\ [][Next]_holder

=============================================================================
