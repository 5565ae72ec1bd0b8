-------------------------- MODULE MC_OwnerDelivery --------------------------
(* Two dispatchers deliver into one run of one workspace, under the control *)
(* planes of two sessions; only the first dispatcher has a canonical Worker *)
(* receipt.                                                                 *)
EXTENDS OwnerDelivery, TLC

CONSTANTS r1, s1, s2, d1, d2

TheRun == d1 :> r1 @@ d2 :> r1
TheirSessions == d1 :> s1 @@ d2 :> s2
TheAdmitted == {d1}

=============================================================================
