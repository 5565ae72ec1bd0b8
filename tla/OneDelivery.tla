----------------------------- MODULE OneDelivery -----------------------------
(***************************************************************************)
(* What the finalization of a run promises, with its retries, crashes and   *)
(* receipts abstracted away: work is committed only once it is accepted and *)
(* once only, what reaches origin is that commit, and a run that is asked   *)
(* to deliver is not finished before it has.                                *)
(***************************************************************************)
VARIABLES
  accepted,   \* the run's work is accepted
  commits,    \* the commits that are made of it
  delivered,  \* those of them that are at origin
  requested,  \* the delivery is asked for
  finished

vars == <<accepted, commits, delivered, requested, finished>>

Init ==
  /\ ~accepted /\ ~requested /\ ~finished
  /\ commits = {} /\ delivered = {}

Accept ==
  /\ ~accepted /\ accepted'
  /\ UNCHANGED <<commits, delivered, requested, finished>>

Commit ==
  /\ accepted /\ commits = {}
  /\ \E n \in commits' : commits' = {n}
  /\ UNCHANGED <<accepted, delivered, requested, finished>>

Deliver ==
  /\ commits # {} /\ delivered = {} /\ delivered' = commits
  /\ UNCHANGED <<accepted, commits, requested, finished>>

Request ==
  /\ accepted /\ ~finished
  /\ ~requested /\ requested'
  /\ UNCHANGED <<accepted, commits, delivered, finished>>

Finish ==
  /\ accepted /\ (requested => delivered # {})
  /\ ~finished /\ finished'
  /\ UNCHANGED <<accepted, commits, delivered, requested>>

(* A finished run is finalized again, and that attempt fails or defers. *)
Reopen ==
  /\ finished /\ ~finished'
  /\ UNCHANGED <<accepted, commits, delivered, requested>>

Next == Accept \/ Commit \/ Deliver \/ Request \/ Finish \/ Reopen

Spec == Init /\ [][Next]_vars

=============================================================================
