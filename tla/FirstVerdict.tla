---------------------------- MODULE FirstVerdict ----------------------------
(***************************************************************************)
(* What independent reviews promise: a subject is judged once, however many *)
(* review or approve it, and what an obligation rests on is a judgement     *)
(* that was made, as it was made.                                           *)
(***************************************************************************)
CONSTANTS Subject, Verdict, None

VARIABLES
  judged,   \* the judgements: a subject and the verdict on it
  resting   \* the judgement the obligation rests on, None if it is nobody's

vars == <<judged, resting>>

Judgement(s, v) == [subject |-> s, verdict |-> v]

Init == judged = {} /\ resting = None

Judge(s, v) ==
  /\ \A j \in judged : j.subject # s
  /\ judged' = judged \cup {Judgement(s, v)}
  /\ UNCHANGED resting

Rest ==
  /\ resting' \in judged \cup {None}
  /\ UNCHANGED judged

Next == Rest \/ \E s \in Subject, v \in Verdict : Judge(s, v)

Spec == Init /\ [][Next]_vars

=============================================================================
