-------------------------- MODULE MC_Finalization --------------------------
(* One command after the other for one run.  What holds of commands side by  *)
(* side is proved for any number of them: NoLostCommit, RecordedIsDelivered, *)
(* WorkCommittedOnce, WorkIsProven and OriginKeepsCommits.                   *)
EXTENDS Finalization

CONSTANTS c1

=============================================================================
