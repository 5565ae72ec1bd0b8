----------------------------- MODULE MC_RunLease -----------------------------
(* Two reports of one session in two processes and, in the second of them,  *)
(* a resume of another session; or only the two reports.                    *)
EXTENDS RunLease, TLC

CONSTANTS c1, c2, c3, p1, p2, h1, h2

Shared == c1 :> p1 @@ c2 :> p2 @@ c3 :> p2
TwoSessions == c1 :> h1 @@ c2 :> h1 @@ c3 :> h2

TwoProcesses == c1 :> p1 @@ c2 :> p2
OneHolder == c1 :> h1 @@ c2 :> h1

=============================================================================
