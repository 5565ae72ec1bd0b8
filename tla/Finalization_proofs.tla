------------------------ MODULE Finalization_proofs ------------------------
(***************************************************************************)
(* Proofs about Finalization, whatever crashes, edits and retries come.     *)
(* For any number of commands that overlap: the types, that no commit is    *)
(* ever lost or taken back from origin, that what is on record as delivered *)
(* is, and that the work is committed once and as proven while nobody else  *)
(* touches the worktree.  For reports, and for commands that come one after *)
(* the other: that the Kernel commits once, what was proven, and delivers   *)
(* it before the run is finished, which is to implement OneDelivery.        *)
(***************************************************************************)
EXTENDS Finalization, SequenceTheorems, TLAPS

-----------------------------------------------------------------------------
(* Types. *)

Places ==
  {"idle", "begin", "gates", "closing", "judging", "deciding", "admitting",
   "reconciling", "inspecting", "staging", "committing", "committed", "pushing",
   "pushed", "learning", "recording", "settling"}
Kinds == {"report", "finalize", "operator", "closeout"}
Outcomes == {"skipped", "refused", "failed", "completed"}
Verdicts == {"none", "accepted", "blocked"}
Statuses == {"active", "blocked", "completed"}
States == {"PROVE", "CLOSE"}
Shas == Seq(Commits)
Trees == [head : Shas, own : Contents, stray : BOOLEAN]
Runs == [status : Statuses, state : States, revision : Nat, known : Trees,
         finalization : {"pending", "blocked", "partial", "completed"}]
Closeouts ==
  [status : {"none", "skipped", "stale"} \cup Delivering, sha : Shas, key : BOOLEAN]
Receipts == [request : Requests, chosen : BOOLEAN, sha : Shas]
Locals ==
  [at : Places, kind : Kinds, request : Requests, chosen : BOOLEAN,
   prior : Closeouts, sha : Shas, status : Statuses, state : States,
   verdict : Verdicts, revision : Nat, expected : Shas, commit : Shas,
   staged : Contents, seen : Contents, outcome : Outcomes, learned : BOOLEAN]

RowsOK ==
  /\ run \in Runs
  /\ proof \in [revision : Nat, content : Contents] /\ proof.revision <= run.revision
  /\ decision \in [verdict : Verdicts, revision : Nat]
  /\ decision.revision <= run.revision
  /\ closeout \in Closeouts
  /\ receipt \in Receipts
  /\ journal \in Requests \cup {"no"}

TreeOK ==
  /\ head \in Shas /\ remote \in Shas
  /\ own \in Contents /\ stray \in BOOLEAN

LocalsOK == cmd \in [Command -> Locals]
DecisionsOK == \A c \in Command : cmd[c].revision <= run.revision

CountsOK ==
  /\ asked \in {"no", "accepted", "recorded"}
  /\ edits \in 0..MaxEdits /\ crashes \in 0..MaxCrashes

TypeInv == RowsOK /\ TreeOK /\ LocalsOK /\ DecisionsOK /\ CountsOK

-----------------------------------------------------------------------------
(* The invariants. *)

Closed == run.state = "CLOSE"
Kernel(branch) == ByKernel(branch) # {}

(* An accepted run is closed, and a closed one cannot be proven again: once the *)
(* worktree has been observed with the Kernel's commit, no evidence is fresh.   *)
RunInv ==
  /\ decision.verdict = "accepted" => Closed
  /\ run.status = "completed" => Closed
  /\ asked # "no" => Closed
  /\ Kernel(head) => Closed
  /\ Kernel(run.known.head) => ~Fresh
  /\ Fresh => run.known.own = proof.content

Closing ==
  {"judging", "deciding", "admitting", "reconciling", "inspecting", "staging",
   "committing", "committed", "pushing", "pushed"}

(* A command past the gates has fresh evidence, and one about to commit found   *)
(* no commit of the Kernel's and the content that was proven.                   *)
CommandInv(c) ==
  /\ (cmd[c].status = "completed" \/ cmd[c].state = "CLOSE") => Closed
  /\ cmd[c].at \in Closing => Closed
  /\ (cmd[c].at \in Closing \cup {"closing"} /\ cmd[c].kind # "closeout") => Fresh
  /\ (cmd[c].at \in {"learning", "recording", "settling"}
      /\ cmd[c].outcome \in {"skipped", "completed"}) => Fresh
  /\ cmd[c].at \in {"learning", "recording", "settling"} =>
       IF cmd[c].outcome = "refused" THEN ~(Closed /\ Fresh) ELSE Closed
  /\ cmd[c].at = "deciding" => cmd[c].verdict = "accepted"
  /\ cmd[c].kind = "closeout" => cmd[c].at \in {"reconciling", "pushing", "pushed"}
  /\ (cmd[c].at \in Closing \ {"judging", "deciding"} /\ cmd[c].kind # "closeout")
       => decision.verdict = "accepted"
  /\ ((cmd[c].at = "inspecting" /\ cmd[c].sha = NoSha) \/ cmd[c].at \in {"staging", "committing"})
       => ~Kernel(head) /\ cmd[c].seen = proof.content

(* What is recorded as a commit of the Kernel's is one, and what is recorded as *)
(* delivered is at origin.                                                      *)
DeliveryRowsInv ==
  /\ closeout.sha # NoSha => Kernel(closeout.sha)
  /\ receipt.sha # NoSha => Kernel(receipt.sha)
  /\ closeout.status \in Delivering => closeout.sha # NoSha
  /\ closeout.status = "completed" => Kernel(remote)

DeliveryInv(c) ==
  /\ cmd[c].kind = "closeout" => cmd[c].at \in {"reconciling", "pushing", "pushed"}
  /\ cmd[c].sha # NoSha => Kernel(cmd[c].sha)
  /\ cmd[c].prior.status = "completed" => Kernel(remote)
  /\ cmd[c].at \in {"gates", "closing", "judging", "deciding", "admitting", "reconciling",
                    "inspecting"} => cmd[c].commit = cmd[c].sha
  /\ (cmd[c].at = "reconciling" /\ cmd[c].kind = "closeout") => cmd[c].sha # NoSha
  /\ cmd[c].at \in {"committed", "pushing", "pushed"} => Kernel(cmd[c].commit)
  /\ cmd[c].at = "pushed" => Kernel(remote)
  /\ cmd[c].outcome = "completed" => Kernel(remote)

(* A recorded request is with the receipt and with every command at work, or    *)
(* the run is past proving; either way it does not finish before the delivery.  *)
RequestRowInv ==
  asked = "recorded" =>
    \/ Kernel(remote)
    \/ run.finalization # "completed" /\ (receipt.request # "none" \/ ~Fresh)

RequestInv(c) ==
  (asked = "recorded" /\ cmd[c].kind # "closeout" /\ cmd[c].at \notin {"idle", "begin"}) =>
    Kernel(remote) \/ cmd[c].request # "none" \/ ~Fresh

(* One command after the other: an operator's come with no report at work, or     *)
(* there are only reports, however many processes send them.                   *)
OneCommand == \A c, d \in Command : c = d
Serial == ~Operator \/ OneCommand

-----------------------------------------------------------------------------
(* Branches. *)

LEMMA Branches ==
  /\ ByKernel(NoSha) = {}
  /\ NoSha \in Shas
  /\ \A b \in Shas, e \in Commits :
       /\ Append(b, e) \in Shas
       /\ Append(b, e) # NoSha
       /\ e.by = "user" => ByKernel(Append(b, e)) = ByKernel(b)
       /\ e.by = "kernel" => ByKernel(Append(b, e)) = ByKernel(b) \cup {Len(b) + 1}
<1>1. ByKernel(NoSha) = {} /\ NoSha \in Shas
  BY DEF NoSha, ByKernel, Shas
<1>2. ASSUME NEW b \in Shas, NEW e \in Commits
      PROVE  /\ Append(b, e) \in Shas
             /\ Append(b, e) # NoSha
             /\ e.by = "user" => ByKernel(Append(b, e)) = ByKernel(b)
             /\ e.by = "kernel" => ByKernel(Append(b, e)) = ByKernel(b) \cup {Len(b) + 1}
  <2>1. /\ Append(b, e) \in Shas /\ Append(b, e) # NoSha
        /\ Len(Append(b, e)) = Len(b) + 1
        /\ \A i \in 1..Len(b) : Append(b, e)[i] = b[i]
        /\ Append(b, e)[Len(b) + 1] = e
    BY AppendProperties DEF Shas, NoSha
  <2>2. DOMAIN b = 1..Len(b) /\ DOMAIN Append(b, e) = 1..(Len(b) + 1) /\ Len(b) \in Nat
    BY <2>1, LenProperties DEF Shas
  <2>3. DOMAIN Append(b, e) = DOMAIN b \cup {Len(b) + 1} /\ Len(b) + 1 \notin DOMAIN b
    BY <2>2
  <2>4. \A i \in DOMAIN b : Append(b, e)[i] = b[i]
    BY <2>1, <2>2
  <2>5. ASSUME e.by = "user"
        PROVE  ByKernel(Append(b, e)) = ByKernel(b)
    BY <2>1, <2>3, <2>4, <2>5 DEF ByKernel
  <2>6. ASSUME e.by = "kernel"
        PROVE  ByKernel(Append(b, e)) = ByKernel(b) \cup {Len(b) + 1}
    BY <2>1, <2>3, <2>4, <2>6 DEF ByKernel
  <2> QED
    BY <2>1, <2>5, <2>6
<1> QED
  BY <1>1, <1>2

-----------------------------------------------------------------------------
(* Types. *)

LEMMA TypeInit == Init => TypeInv
<1> SUFFICES ASSUME Init
             PROVE  TypeInv
  OBVIOUS
<1>1. NoCloseout \in Closeouts /\ NoReceipt \in Receipts /\ tree \in Trees
  BY Branches, FinalizationAssumption
     DEF Init, NoCloseout, Closeouts, NoReceipt, Receipts, Requests, tree, Trees, Contents, NoSha
<1>2. RowsOK
  BY <1>1 DEF Init, RowsOK, Runs, Statuses, States, Verdicts, Contents
<1>3. TreeOK
  BY Branches, FinalizationAssumption DEF Init, TreeOK, NoSha, Contents
<1>4. Idle \in Locals
  BY <1>1, Branches DEF Idle, Locals, Places, Kinds, Requests, Statuses, States, Verdicts,
     Contents, Outcomes
<1>5. LocalsOK /\ DecisionsOK
  BY <1>4 DEF Init, LocalsOK, DecisionsOK, Idle
<1>6. CountsOK
  BY FinalizationAssumption DEF Init, CountsOK
<1> QED
  BY <1>2, <1>3, <1>5, <1>6 DEF TypeInv

LEMMA NextLocals ==
  ASSUME LocalsOK, NEW c \in Command, NEW l \in Locals, Become(c, l)
  PROVE  LocalsOK' /\ cmd'[c] = l /\ \A d \in Command \ {c} : cmd'[d] = cmd[d]
BY DEF LocalsOK, Become

LEMMA IdleTyped ==
  /\ Idle \in Locals /\ Idle.revision = 0
  /\ \A k \in Kinds, r \in Requests :
       [Idle EXCEPT !.at = "begin", !.kind = k, !.request = r] \in Locals
<1>1. NoCloseout \in Closeouts
  BY Branches DEF NoCloseout, Closeouts
<1>2. Idle \in Locals /\ Idle.revision = 0
  BY <1>1, Branches DEF Idle, Locals, Places, Kinds, Requests, Statuses, States, Verdicts,
     Contents, Outcomes
<1>3. "begin" \in Places
  BY DEF Places
<1>4. ASSUME NEW k \in Kinds, NEW r \in Requests
      PROVE  [Idle EXCEPT !.at = "begin", !.kind = k, !.request = r] \in Locals
  BY <1>2, <1>3 DEF Locals
<1> QED
  BY <1>2, <1>4

LEMMA TreeTyped == TypeInv => tree \in Trees
BY DEF TypeInv, TreeOK, tree, Trees

LEMMA ObservedTyped ==
  ASSUME TypeInv, NEW r \in Runs
  PROVE  /\ Observed(r) \in Runs
         /\ Observed(r).revision >= r.revision
         /\ Observed(r).state = r.state /\ Observed(r).status = r.status
         /\ Observed(r).finalization = r.finalization
         /\ Observed(r).known = tree
         /\ r.known # tree => Observed(r).revision = r.revision + 1
         /\ r.known = tree => Observed(r) = r
<1> DEFINE moved == [status |-> r.status, state |-> r.state, revision |-> r.revision + 1,
                    known |-> tree, finalization |-> r.finalization]
<1>1. tree \in Trees
  BY TreeTyped
<1>2. r.revision \in Nat
  BY DEF Runs
<1>3. moved \in Runs /\ moved.revision >= r.revision
  BY <1>1, <1>2 DEF Runs
<1>4. [r EXCEPT !.known = tree, !.revision = @ + 1] = moved
  <2> DEFINE seen == [r EXCEPT !.known = tree]
  <2>1. seen = [status |-> r.status, state |-> r.state, revision |-> r.revision,
                known |-> tree, finalization |-> r.finalization]
    BY DEF Runs
  <2> HIDE DEF seen
  <2>2. [seen EXCEPT !.revision = r.revision + 1] = moved
    BY <2>1
  <2> QED
    BY <2>2 DEF seen
<1>5. Observed(r) = IF r.known = tree THEN r ELSE moved
  BY <1>4 DEF Observed
<1> QED
  BY <1>2, <1>3, <1>5

LEMMA RefreshedTyped ==
  ASSUME TypeInv
  PROVE  /\ Refreshed(closeout) \in Runs
         /\ Refreshed(closeout).revision >= run.revision
BY ObservedTyped DEF Refreshed, TypeInv, RowsOK, Runs

LEMMA GoTyped ==
  ASSUME LocalsOK, NEW c \in Command, NEW place \in Places, Go(c, place)
  PROVE  LocalsOK' /\ cmd'[c] = [cmd[c] EXCEPT !.at = place]
         /\ cmd'[c].revision = cmd[c].revision
         /\ \A d \in Command \ {c} : cmd'[d] = cmd[d]
BY DEF LocalsOK, Go, Locals

(* A command forgets what finalizeRun knew of the run. *)
Reset(c) ==
  /\ cmd[c].status = "active" /\ cmd[c].state = "PROVE"
  /\ cmd[c].prior.status = "none"

LEMMA ConcludeTyped ==
  ASSUME LocalsOK, NEW c \in Command, NEW place \in Places, NEW outcome \in Outcomes,
         Conclude(c, place, outcome)
  PROVE  /\ LocalsOK'
         /\ \A d \in Command \ {c} : cmd'[d] = cmd[d]
         /\ cmd'[c].revision = 0
         /\ Reset(c)' /\ cmd'[c].at = place /\ cmd'[c].kind = cmd[c].kind
         /\ cmd'[c].request = cmd[c].request /\ cmd'[c].sha = cmd[c].sha
         /\ cmd'[c].outcome = outcome
<1> DEFINE l == [Idle EXCEPT !.at = place, !.kind = cmd[c].kind,
                   !.request = cmd[c].request, !.chosen = cmd[c].chosen, !.sha = cmd[c].sha,
                   !.outcome = outcome]
<1>1. l \in Locals
  BY IdleTyped DEF LocalsOK, Locals
<1>2. /\ Idle \in Locals /\ Idle.revision = 0 /\ Idle.status = "active"
      /\ Idle.state = "PROVE" /\ Idle.prior.status = "none"
  BY IdleTyped DEF Idle, NoCloseout
<1>3. /\ l.revision = 0 /\ l.status = "active" /\ l.state = "PROVE"
      /\ l.prior.status = "none" /\ l.at = place /\ l.kind = cmd[c].kind
      /\ l.request = cmd[c].request /\ l.sha = cmd[c].sha /\ l.outcome = outcome
  BY <1>2 DEF Locals
<1>4. Become(c, l)
  BY Zenon DEF Conclude
<1> HIDE DEF l
<1> QED
  BY <1>1, <1>3, <1>4, NextLocals DEF Reset

LEMMA EndCloseoutTyped ==
  ASSUME LocalsOK, NEW c \in Command, NEW outcome \in Outcomes, EndCloseout(c, outcome)
  PROVE  LocalsOK' /\ cmd'[c].revision = 0 /\ \A d \in Command \ {c} : cmd'[d] = cmd[d]
<1>1. "learning" \in Places
  BY DEF Places
<1> QED
  BY <1>1, ConcludeTyped, IdleTyped, NextLocals DEF EndCloseout

(* One field of the locals is set. *)
LEMMA FieldTyped ==
  ASSUME NEW l \in Locals
  PROVE  /\ \A x \in Places : [l EXCEPT !.at = x] \in Locals
         /\ \A x \in Kinds : [l EXCEPT !.kind = x] \in Locals
         /\ \A x \in Requests : [l EXCEPT !.request = x] \in Locals
         /\ \A x \in BOOLEAN : [l EXCEPT !.chosen = x] \in Locals
         /\ \A x \in Closeouts : [l EXCEPT !.prior = x] \in Locals
         /\ \A x \in Shas : [l EXCEPT !.sha = x] \in Locals
         /\ \A x \in Statuses : [l EXCEPT !.status = x] \in Locals
         /\ \A x \in States : [l EXCEPT !.state = x] \in Locals
         /\ \A x \in Verdicts : [l EXCEPT !.verdict = x] \in Locals
         /\ \A x \in Nat : [l EXCEPT !.revision = x] \in Locals
         /\ \A x \in Shas : [l EXCEPT !.expected = x] \in Locals
         /\ \A x \in Shas : [l EXCEPT !.commit = x] \in Locals
         /\ \A x \in Contents : [l EXCEPT !.staged = x] \in Locals
         /\ \A x \in Contents : [l EXCEPT !.seen = x] \in Locals
         /\ \A x \in BOOLEAN : [l EXCEPT !.learned = x] \in Locals
BY DEF Locals

(* Every action, as a relation on the rows and on the locals of its command.   *)
LEMMA LocalsStep ==
  ASSUME TypeInv, NEW c \in Command, Entry(c) \/ Progress(c) \/ Crash(c)
  PROVE  /\ LocalsOK'
         /\ \A d \in Command \ {c} : cmd'[d] = cmd[d]
         /\ cmd'[c].revision \in {0, cmd[c].revision, run.revision}
<1> DEFINE Result == /\ LocalsOK'
                     /\ \A d \in Command \ {c} : cmd'[d] = cmd[d]
                     /\ cmd'[c].revision \in {0, cmd[c].revision, run.revision}
<1>1. LocalsOK /\ cmd[c] \in Locals
  BY DEF TypeInv, LocalsOK
<1>2. ASSUME UNCHANGED cmd
      PROVE  Result
  BY <1>1, <1>2 DEF LocalsOK
<1>3. ASSUME NEW l \in Locals, Become(c, l), l.revision \in {0, cmd[c].revision, run.revision}
      PROVE  Result
  BY <1>1, <1>3, NextLocals
<1>4. ASSUME NEW place \in Places, Go(c, place)
      PROVE  Result
  BY <1>1, <1>4, GoTyped
<1>5. ASSUME NEW place \in Places, NEW outcome \in Outcomes, Conclude(c, place, outcome)
      PROVE  Result
  BY <1>1, <1>5, ConcludeTyped
<1>6. ASSUME NEW outcome \in Outcomes, EndCloseout(c, outcome)
      PROVE  Result
  BY <1>1, <1>6, EndCloseoutTyped
<1>7. ASSUME NEW kind \in Kinds, NEW request \in Requests, Enter(c, kind, request)
      PROVE  Result
  BY <1>3, <1>7, IdleTyped DEF Enter, Idle
<1>8. ASSUME Become(c, Idle)
      PROVE  Result
  BY <1>3, <1>8, IdleTyped
<1>9. /\ \A a \in {"gates", "closing", "judging", "deciding", "admitting", "reconciling",
                   "inspecting", "staging", "committing", "committed", "pushing", "pushed",
                   "learning", "recording", "settling"} : a \in Places
      /\ \A k \in {"report", "finalize", "operator", "closeout"} : k \in Kinds
      /\ \A o \in {"skipped", "refused", "failed", "completed"} : o \in Outcomes
  BY DEF Places, Kinds, Outcomes
<1> SUFFICES Result
  OBVIOUS
<1> HIDE DEF Result
<1>10. ASSUME NEW request \in Requests, Report(c, request)
       PROVE  Result
  BY <1>2, <1>7, <1>9, <1>10 DEF Report
<1>11. CASE ResentReport(c)
  <2>1. journal \in Requests
    BY <1>11 DEF ResentReport, TypeInv, RowsOK
  <2>2. Enter(c, "report", journal)
    BY <1>11, Zenon DEF ResentReport
  <2> QED
    BY <2>1, <2>2, <1>7, <1>9
<1>12. ASSUME NEW request \in Requests, FinalizeAgain(c, request) \/ OperatorFinalizes(c, request)
       PROVE  Result
  BY <1>7, <1>9, <1>12 DEF FinalizeAgain, OperatorFinalizes
<1>13. CASE RetryCloseout(c)
  <2> DEFINE l == [Idle EXCEPT !.at = "reconciling", !.kind = "closeout",
                     !.prior = closeout, !.sha = closeout.sha, !.commit = closeout.sha]
  <2>1. closeout \in Closeouts /\ closeout.sha \in Shas
    BY DEF TypeInv, RowsOK, Closeouts
  <2>2. l \in Locals
    BY <2>1, <1>9, IdleTyped, FieldTyped, Zenon
  <2>3. l.revision = 0
    BY IdleTyped DEF Locals
  <2> QED
    BY <2>2, <2>3, <1>3, <1>13 DEF RetryCloseout
<1>14. CASE Begin(c)
  <2> DEFINE l == [cmd[c] EXCEPT !.at = "gates", !.prior = closeout,
                     !.request = Requested(cmd[c].request), !.chosen = PathsChosen,
                     !.sha = ExistingSha(cmd[c].request),
                     !.commit = ExistingSha(cmd[c].request),
                     !.status = run.status, !.state = run.state]
  <2>1. /\ closeout \in Closeouts /\ closeout.sha \in Shas
        /\ receipt.request \in Requests /\ receipt.sha \in Shas /\ receipt.chosen \in BOOLEAN
        /\ run.status \in Statuses /\ run.state \in States
        /\ cmd[c].request \in Requests
    BY <1>1 DEF TypeInv, RowsOK, Closeouts, Receipts, Runs, Locals
  <2>2. /\ Requested(cmd[c].request) \in Requests /\ PathsChosen \in BOOLEAN
        /\ ExistingSha(cmd[c].request) \in Shas
    BY <2>1, Branches DEF Requested, PathsChosen, ExistingSha, UnfinishedSha
  <2>3. l \in Locals
    <3> DEFINE a == [cmd[c] EXCEPT !.at = "gates", !.prior = closeout,
                                   !.request = Requested(cmd[c].request), !.chosen = PathsChosen]
    <3>1. a \in Locals
      BY <1>1, <1>9, <2>1, <2>2, FieldTyped, Zenon
    <3>2. [a EXCEPT !.sha = ExistingSha(cmd[c].request),
                    !.commit = ExistingSha(cmd[c].request),
                    !.status = run.status, !.state = run.state] \in Locals
      <4> HIDE DEF a
      <4> QED
        BY <3>1, <2>1, <2>2, FieldTyped, Zenon
    <3> QED
      BY <3>2
  <2>4. l.revision = cmd[c].revision
    BY <1>1 DEF Locals
  <2>5. Become(c, l)
    BY <1>14, Zenon DEF Begin
  <2> HIDE DEF l
  <2> QED
    BY <2>3, <2>4, <2>5, <1>3
<1>15. CASE Gates(c)
  BY <1>4, <1>5, <1>9, <1>15 DEF Gates, Refused
<1>16. CASE Close(c)
  BY <1>4, <1>8, <1>9, <1>16 DEF Close
<1>17. ASSUME Accept(c)
       PROVE  Result
  <2> DEFINE l == [cmd[c] EXCEPT !.at = "admitting", !.status = "completed",
                     !.state = "CLOSE", !.verdict = "accepted", !.revision = 0]
  <2>1. l \in Locals
    <3>1. /\ "completed" \in Statuses /\ "CLOSE" \in States /\ "accepted" \in Verdicts
          /\ 0 \in Nat
      BY DEF Statuses, States, Verdicts
    <3> QED
      BY <1>1, <1>9, <3>1, FieldTyped, Zenon
  <2>2. l.revision = 0
    BY <1>1 DEF Locals
  <2>3. Conclude(c, "learning", "skipped") \/ Become(c, l)
    BY <1>17, Zenon DEF Accept
  <2> HIDE DEF l
  <2> QED
    BY <1>3, <1>5, <1>9, <2>1, <2>2, <2>3
<1>18. CASE Judge(c)
  <2> DEFINE verdict == IF run.state = "CLOSE" /\ Fresh THEN "accepted" ELSE "blocked"
             l == [cmd[c] EXCEPT !.at = "deciding", !.revision = run.revision,
                     !.verdict = verdict]
  <2>1. run.revision \in Nat /\ verdict \in Verdicts
    BY DEF TypeInv, RowsOK, Runs, Verdicts
  <2>2. l \in Locals
    BY <1>1, <1>9, <2>1, FieldTyped, Zenon
  <2>3. l.revision = run.revision
    BY <1>1 DEF Locals
  <2>4. Accept(c) \/ Become(c, l)
    BY <1>18, Zenon DEF Judge
  <2> HIDE DEF l
  <2> QED
    BY <1>3, <1>17, <2>2, <2>3, <2>4
<1>19. CASE Decide(c)
  BY <1>5, <1>9, <1>17, <1>19 DEF Decide, Refused
<1>20. CASE Admit(c)
  BY <1>4, <1>6, <1>9, <1>20 DEF Admit
<1>21. CASE Reconcile(c)
  <2> DEFINE place == IF cmd[c].kind = "closeout" THEN "pushing" ELSE "inspecting"
             l == [cmd[c] EXCEPT !.seen = own, !.at = place]
  <2>1. place \in Places /\ own \in Contents
    BY <1>9 DEF TypeInv, TreeOK
  <2>2. l \in Locals
    BY <1>1, <2>1, FieldTyped, Zenon
  <2>3. l.revision = cmd[c].revision
    BY <1>1 DEF Locals
  <2>4. EndCloseout(c, "failed") \/ Become(c, l)
    BY <1>21, Zenon DEF Reconcile
  <2> HIDE DEF l
  <2> QED
    BY <1>3, <1>6, <1>9, <2>2, <2>3, <2>4
<1>22. CASE Inspect(c)
  <2> DEFINE l == [cmd[c] EXCEPT !.at = "staging", !.expected = head]
  <2>1. l \in Locals
    BY <1>1, <1>9, FieldTyped, Zenon DEF TypeInv, TreeOK
  <2>2. l.revision = cmd[c].revision
    BY <1>1 DEF Locals
  <2>3. \/ EndCloseout(c, "failed") \/ EndCloseout(c, "skipped")
        \/ Go(c, "pushing") \/ Become(c, l)
    BY <1>22, Zenon DEF Inspect
  <2> HIDE DEF l
  <2> QED
    BY <1>3, <1>4, <1>6, <1>9, <2>1, <2>2, <2>3
<1>23. CASE Stage(c)
  <2> DEFINE l == [cmd[c] EXCEPT !.at = "committing", !.staged = own]
  <2>1. l \in Locals
    BY <1>1, <1>9, FieldTyped, Zenon DEF TypeInv, TreeOK
  <2>2. l.revision = cmd[c].revision
    BY <1>1 DEF Locals
  <2>3. Become(c, l)
    BY <1>23, Zenon DEF Stage
  <2> HIDE DEF l
  <2> QED
    BY <1>3, <2>1, <2>2, <2>3
<1>24. CASE GitFails(c)
  BY <1>6, <1>9, <1>24 DEF GitFails
<1>25. CASE Commit(c)
  <2> DEFINE e == [by |-> "kernel", content |-> cmd[c].staged]
             sha == Append(cmd[c].expected, e)
             l == [cmd[c] EXCEPT !.at = "committed", !.commit = sha]
  <2>1. e \in Commits /\ cmd[c].expected \in Shas
    BY <1>1 DEF Locals, Commits
  <2>2. sha \in Shas
    BY <2>1, Branches
  <2>3. l \in Locals
    BY <1>1, <1>9, <2>2, FieldTyped, Zenon
  <2>4. l.revision = cmd[c].revision
    BY <1>1 DEF Locals
  <2>5. EndCloseout(c, "failed") \/ Become(c, l)
    BY <1>25, Zenon DEF Commit
  <2> HIDE DEF l
  <2> QED
    BY <1>3, <1>6, <1>9, <2>3, <2>4, <2>5
<1>26. CASE RecordCommit(c)
  BY <1>4, <1>9, <1>26 DEF RecordCommit
<1>27. CASE PushSucceeds(c)
  BY <1>4, <1>9, <1>27 DEF PushSucceeds
<1>28. CASE PushFails(c)
  <2>1. EndCloseout(c, "failed")
    BY <1>28, Zenon DEF PushFails
  <2> QED
    BY <1>6, <1>9, <2>1
<1>29. CASE RecordPushed(c)
  <2>1. EndCloseout(c, "completed")
    BY <1>29, Zenon DEF RecordPushed
  <2> QED
    BY <1>6, <1>9, <2>1
<1>30. CASE Learn(c)
  <2> DEFINE l == [cmd[c] EXCEPT !.at = "recording", !.learned = TRUE]
  <2>1. l \in Locals
    BY <1>1, <1>9, FieldTyped, Zenon
  <2>2. l.revision = cmd[c].revision
    BY <1>1 DEF Locals
  <2>3. Become(c, l)
    BY <1>30, Zenon DEF Learn
  <2> HIDE DEF l
  <2> QED
    BY <1>3, <2>1, <2>2, <2>3
<1>31. CASE Defer(c)
  BY <1>4, <1>9, <1>31 DEF Defer
<1>32. CASE Record(c)
  BY <1>4, <1>9, <1>32 DEF Record
<1>33. CASE Settle(c)
  BY <1>8, <1>33 DEF Settle
<1>34. CASE Crash(c)
  BY <1>8, <1>34 DEF Crash
<1> QED
  BY <1>10, <1>11, <1>12, <1>13, <1>14, <1>15, <1>16, <1>18, <1>19, <1>20, <1>21, <1>22,
     <1>23, <1>24, <1>25, <1>26, <1>27, <1>28, <1>29, <1>30, <1>31, <1>32, <1>33, <1>34
     DEF Entry, Progress

(* The revision of the run only grows.                                        *)
LEMMA RowsStep ==
  ASSUME TypeInv, [Next]_vars
  PROVE  RowsOK' /\ run'.revision >= run.revision
<1> DEFINE Result == RowsOK' /\ run'.revision >= run.revision
<1>1. /\ run \in Runs /\ run.revision \in Nat /\ closeout \in Closeouts /\ receipt \in Receipts
      /\ proof.revision <= run.revision /\ decision.revision <= run.revision
      /\ proof \in [revision : Nat, content : Contents]
      /\ decision \in [verdict : Verdicts, revision : Nat]
      /\ journal \in Requests \cup {"no"} /\ own \in Contents
  BY DEF TypeInv, RowsOK, TreeOK, Runs
<1>2. ASSUME NEW c \in Command
      PROVE  cmd[c] \in Locals /\ cmd[c].revision <= run.revision
  BY DEF TypeInv, LocalsOK, DecisionsOK
<1>3. ASSUME UNCHANGED stored
      PROVE  Result
  BY <1>1, <1>3 DEF RowsOK, stored
<1>4. ASSUME run' \in Runs, run'.revision >= run.revision,
             proof' = proof, decision' = decision, closeout' \in Closeouts,
             receipt' \in Receipts, journal' \in Requests \cup {"no"}
      PROVE  Result
  <2>1. run'.revision \in Nat /\ proof.revision \in Nat /\ decision.revision \in Nat
    BY <1>1, <1>4 DEF Runs
  <2> QED
    BY <1>1, <1>4, <2>1 DEF RowsOK
<1>5. /\ \A s \in Statuses : /\ [run EXCEPT !.status = s] \in Runs
                             /\ [run EXCEPT !.status = s].revision = run.revision
      /\ \A s \in States : /\ [run EXCEPT !.state = s] \in Runs
                           /\ [run EXCEPT !.state = s].revision = run.revision
      /\ \A f \in {"pending", "blocked", "partial", "completed"} :
           /\ [run EXCEPT !.finalization = f] \in Runs
           /\ [run EXCEPT !.finalization = f].revision = run.revision
  BY <1>1 DEF Runs
<1>6. /\ \A s \in {"active", "blocked", "completed"} : s \in Statuses
      /\ \A k \in {"none", "skipped", "stale", "commit_created", "undelivered", "completed"} :
           k \in {"none", "skipped", "stale"} \cup Delivering
      /\ "CLOSE" \in States
  BY DEF Statuses, Delivering, States
<1>7. NoCloseout \in Closeouts /\ NoReceipt \in Receipts
  BY Branches DEF NoCloseout, Closeouts, NoReceipt, Receipts, Requests
<1> SUFFICES Result
  OBVIOUS
<1> HIDE DEF Result
<1>8. ASSUME NEW c \in Command, NEW request \in Requests, Report(c, request)
      PROVE  Result
  <2> DEFINE q == [run EXCEPT !.status = "active"]
             r == Observed(q)
  <2>1. q \in Runs /\ q.revision = run.revision
    BY <1>5, <1>6
  <2> HIDE DEF q
  <2>2. r \in Runs /\ r.revision >= run.revision /\ r.revision \in Nat
    BY <2>1, ObservedTyped DEF Runs
  <2>3. /\ run' = r /\ UNCHANGED <<decision, closeout, receipt>>
        /\ \/ proof' = [revision |-> r.revision, content |-> own] /\ journal' = request
           \/ UNCHANGED <<proof, journal>>
    BY <1>8, Zenon DEF Report, q
  <2> HIDE DEF r
  <2>4. proof.revision \in Nat /\ decision.revision \in Nat
    BY <1>1
  <2> QED
    BY <1>1, <2>2, <2>3, <2>4 DEF RowsOK, Result
<1>9. ASSUME NEW c \in Command, Begin(c)
      PROVE  Result
  BY <1>1, <1>4, <1>9, RefreshedTyped DEF Begin
<1>10. ASSUME NEW c \in Command, Close(c)
       PROVE  Result
  <2>1. /\ run' \in {run, [run EXCEPT !.state = "CLOSE"]}
        /\ UNCHANGED <<proof, decision, closeout, receipt, journal>>
    BY <1>10, Zenon DEF Close
  <2>a. /\ run \in Runs /\ [run EXCEPT !.state = "CLOSE"] \in Runs
        /\ [run EXCEPT !.state = "CLOSE"].revision = run.revision
    BY <1>1, <1>5, <1>6
  <2>2. run' \in Runs /\ run'.revision = run.revision
    BY <2>a, <2>1
  <2> QED
    BY <1>1, <1>4, <2>1, <2>2
<1>11. ASSUME NEW c \in Command, Decide(c)
       PROVE  Result
  <2>1. /\ run' \in {[run EXCEPT !.status = "completed"], [run EXCEPT !.status = "blocked"]}
        /\ decision' = [verdict |-> cmd[c].verdict, revision |-> cmd[c].revision]
        /\ UNCHANGED <<proof, closeout, receipt, journal>>
    BY <1>11, Zenon DEF Decide
  <2>2. /\ decision' \in [verdict : Verdicts, revision : Nat]
        /\ decision'.revision <= run.revision
    BY <1>2, <2>1 DEF Locals
  <2>3. run' \in Runs /\ run'.revision = run.revision
    BY <1>5, <1>6, <2>1
  <2> QED
    BY <1>1, <2>1, <2>2, <2>3 DEF RowsOK, Result
<1>12. ASSUME NEW c \in Command, Reconcile(c)
       PROVE  Result
  <2>1. /\ \/ UNCHANGED <<run, closeout>>
           \/ /\ run' = Observed(run)
              /\ closeout' = [status |-> "stale", sha |-> cmd[c].sha, key |-> FALSE]
        /\ UNCHANGED <<proof, decision, receipt, journal>>
    BY <1>12, Zenon DEF Reconcile
  <2>2. [status |-> "stale", sha |-> cmd[c].sha, key |-> FALSE] \in Closeouts
    BY <1>2, <1>6 DEF Closeouts, Locals
  <2>3. run' \in Runs /\ run'.revision >= run.revision
    BY <1>1, <2>1, ObservedTyped
  <2>4. closeout' \in Closeouts
    BY <1>1, <2>1, <2>2
  <2> QED
    BY <1>1, <1>4, <2>1, <2>3, <2>4
<1>13. ASSUME NEW c \in Command,
              Inspect(c) \/ RecordCommit(c) \/ PushFails(c) \/ RecordPushed(c)
       PROVE  Result
  <2>1. cmd[c].commit \in Shas /\ cmd[c].prior \in Closeouts /\ cmd[c].prior.key \in BOOLEAN
    BY <1>2 DEF Locals, Closeouts
  <2>2. ASSUME NEW b \in BOOLEAN, NEW s \in {"commit_created", "undelivered", "completed"}
        PROVE  [status |-> s, sha |-> cmd[c].commit, key |-> b] \in Closeouts
    BY <2>1, <1>6 DEF Closeouts
  <2>3. [NoCloseout EXCEPT !.status = "skipped"] \in Closeouts
    BY <1>7, <1>6 DEF Closeouts
  <2>4. (IF cmd[c].kind = "closeout" THEN cmd[c].prior.key ELSE cmd[c].request = "keyed") \in BOOLEAN
    BY <2>1
  <2>5. closeout' \in Closeouts
    <3>1. CASE Inspect(c)
      BY <1>1, <2>3, <3>1 DEF Inspect
    <3>2. CASE RecordCommit(c)
      BY <2>2, <3>2 DEF RecordCommit
    <3>3. CASE PushFails(c)
      BY <1>1, <2>2, <3>3 DEF PushFails
    <3>4. CASE RecordPushed(c)
      BY <2>2, <2>4, <3>4, Zenon DEF RecordPushed
    <3> QED
      BY <1>13, <3>1, <3>2, <3>3, <3>4
  <2>6. UNCHANGED <<run, proof, decision, receipt, journal>>
    BY <1>13, Zenon DEF Inspect, RecordCommit, PushFails, RecordPushed
  <2> QED
    BY <1>1, <1>4, <2>5, <2>6
<1>14. ASSUME NEW c \in Command, Record(c)
       PROVE  Result
  <2>1. [request |-> cmd[c].request, chosen |-> cmd[c].chosen, sha |-> cmd[c].sha] \in Receipts
    BY <1>2 DEF Locals, Receipts
  <2>2. receipt' \in Receipts
    BY <2>1, <1>7, <1>14 DEF Record
  <2>3. UNCHANGED <<run, proof, decision, closeout, journal>>
    BY <1>14, Zenon DEF Record
  <2> QED
    BY <1>1, <1>4, <2>2, <2>3
<1>15. ASSUME NEW c \in Command, Settle(c)
       PROVE  Result
  <2>1. /\ run' \in {[run EXCEPT !.finalization = "blocked"], [run EXCEPT !.finalization = "partial"],
                     [run EXCEPT !.finalization = "completed"]}
        /\ journal' \in {"no", journal}
        /\ UNCHANGED <<proof, decision, closeout, receipt>>
    BY <1>15 DEF Settle
  <2>2. run' \in Runs /\ run'.revision = run.revision
    BY <1>5, <2>1
  <2> QED
    BY <1>1, <1>4, <2>1, <2>2
<1>16. ASSUME NEW c \in Command,
              \/ ResentReport(c) \/ RetryCloseout(c)
              \/ \E request \in Requests : FinalizeAgain(c, request) \/ OperatorFinalizes(c, request)
              \/ Gates(c) \/ Judge(c) \/ Admit(c) \/ Stage(c) \/ GitFails(c) \/ Commit(c)
              \/ PushSucceeds(c) \/ Learn(c) \/ Defer(c) \/ Crash(c)
       PROVE  Result
  BY <1>3, <1>16, Zenon DEF ResentReport, RetryCloseout, FinalizeAgain, OperatorFinalizes,
     Gates, Judge, Admit, Stage, GitFails, Commit, PushSucceeds, Learn, Defer, Crash
<1>17. CASE Edit \/ UserCommit \/ UNCHANGED vars
  BY <1>3, <1>17, Zenon DEF Edit, UserCommit, vars
<1> QED
  BY <1>8, <1>9, <1>10, <1>11, <1>12, <1>13, <1>14, <1>15, <1>16, <1>17
     DEF Next, Entry, Progress

(* The worktree and the branch change in three ways.                          *)
LEMMA HeadStep ==
  ASSUME TypeInv, [Next]_vars
  PROVE  \/ head' = head
         \/ \E c \in Command :
              /\ Commit(c) /\ head = cmd[c].expected
              /\ head' = Append(head, [by |-> "kernel", content |-> cmd[c].staged])
         \/ UserCommit /\ head' = Append(head, [by |-> "user", content |-> own])
<1> DEFINE Kept == head' = head
<1>1. ASSUME NEW c \in Command, Entry(c)
      PROVE  Kept
  BY <1>1, Zenon DEF Entry, Report, ResentReport, FinalizeAgain, OperatorFinalizes, RetryCloseout, git
<1>2. ASSUME NEW c \in Command,
             \/ Begin(c) \/ Gates(c) \/ Close(c) \/ Judge(c) \/ Decide(c) \/ Admit(c)
             \/ Reconcile(c) \/ Inspect(c) \/ Stage(c) \/ GitFails(c) \/ RecordCommit(c)
             \/ PushSucceeds(c) \/ PushFails(c) \/ RecordPushed(c) \/ Learn(c) \/ Defer(c)
             \/ Record(c) \/ Settle(c) \/ Crash(c)
      PROVE  Kept
  BY <1>2, Zenon DEF Begin, Gates, Close, Judge, Decide, Admit, Reconcile, Inspect, Stage,
     GitFails, RecordCommit, PushSucceeds, PushFails, RecordPushed, Learn, Defer, Record,
     Settle, Crash, git
<1>3. ASSUME NEW c \in Command, Commit(c)
      PROVE  \/ Kept
             \/ /\ head = cmd[c].expected
                /\ head' = Append(head, [by |-> "kernel", content |-> cmd[c].staged])
  BY <1>3 DEF Commit, NoConflict
<1>4. CASE Edit \/ UNCHANGED vars
  BY <1>4, Zenon DEF Edit, vars, git
<1>5. CASE UserCommit
  BY <1>5, Zenon DEF UserCommit
<1> QED
  BY <1>1, <1>2, <1>3, <1>4, <1>5 DEF Next, Progress

LEMMA EntryType ==
  ASSUME NEW b \in {"kernel", "user"}, NEW k \in Contents
  PROVE  [by |-> b, content |-> k] \in Commits
BY DEF Commits

LEMMA TreeStep == TypeInv /\ [Next]_vars => TreeOK'
<1> SUFFICES ASSUME TypeInv, [Next]_vars
             PROVE  TreeOK'
  OBVIOUS
<1>1. head \in Shas /\ remote \in Shas /\ own \in Contents /\ stray \in BOOLEAN
  BY DEF TypeInv, TreeOK
<1>2. \A c \in Command : cmd[c].staged \in Contents /\ cmd[c].commit \in Shas
  BY DEF TypeInv, LocalsOK, Locals
<1>3. head' \in Shas
  BY <1>1, <1>2, HeadStep, EntryType, Branches
<1>4. 0 \in Contents
  BY DEF Contents
<1>5. /\ remote' = remote \/ \E c \in Command : remote' = cmd[c].commit
      /\ own' \in Contents
      /\ stray' \in {stray, ~stray, FALSE}
  <2> DEFINE Result == /\ remote' = remote \/ \E c \in Command : remote' = cmd[c].commit
                       /\ own' \in Contents
                       /\ stray' \in {stray, ~stray, FALSE}
  <2>1. ASSUME UNCHANGED git
        PROVE  Result
    BY <1>1, <2>1 DEF git
  <2> SUFFICES Result
    OBVIOUS
  <2> HIDE DEF Result
  <2>2. ASSUME NEW c \in Command, Entry(c)
        PROVE  Result
    BY <2>1, <2>2, Zenon DEF Entry, Report, ResentReport, FinalizeAgain, OperatorFinalizes,
       RetryCloseout
  <2>3. ASSUME NEW c \in Command,
               \/ Begin(c) \/ Gates(c) \/ Close(c) \/ Judge(c) \/ Decide(c) \/ Admit(c)
               \/ Reconcile(c) \/ Inspect(c) \/ Stage(c) \/ GitFails(c) \/ RecordCommit(c)
               \/ RecordPushed(c) \/ Learn(c) \/ Defer(c)
               \/ Record(c) \/ Settle(c) \/ Crash(c)
        PROVE  Result
    BY <2>1, <2>3, Zenon DEF Begin, Gates, Close, Judge, Decide, Admit, Reconcile, Inspect,
       Stage, GitFails, RecordCommit, RecordPushed, Learn, Defer, Record, Settle, Crash
  <2>4. ASSUME NEW c \in Command, Commit(c)
        PROVE  Result
    BY <1>1, <1>4, <2>4 DEF Commit, Result
  <2>5. ASSUME NEW c \in Command, PushSucceeds(c) \/ PushFails(c)
        PROVE  Result
    BY <1>1, <2>5 DEF PushSucceeds, PushFails, Result
  <2>6. CASE Edit \/ UserCommit
    BY <1>1, <1>4, <2>6 DEF Edit, UserCommit, Result
  <2>7. CASE UNCHANGED vars
    BY <2>1, <2>7 DEF vars
  <2> QED
    BY <2>2, <2>3, <2>4, <2>5, <2>6, <2>7 DEF Next, Progress
<1>6. remote' \in Shas /\ stray' \in BOOLEAN
  BY <1>1, <1>2, <1>5
<1> QED
  BY <1>3, <1>5, <1>6 DEF TreeOK

LEMMA CountsStep == TypeInv /\ [Next]_vars => CountsOK'
<1> SUFFICES ASSUME TypeInv, [Next]_vars
             PROVE  CountsOK'
  OBVIOUS
<1> DEFINE Kept == UNCHANGED <<asked, edits, crashes>>
<1>1. /\ asked \in {"no", "accepted", "recorded"}
      /\ edits \in 0..MaxEdits /\ crashes \in 0..MaxCrashes
  BY DEF TypeInv, CountsOK
<1>2. ASSUME NEW c \in Command, Entry(c)
      PROVE  Kept
  BY <1>2, Zenon DEF Entry, Report, ResentReport, FinalizeAgain, OperatorFinalizes, RetryCloseout
<1>3. ASSUME NEW c \in Command,
             \/ Begin(c) \/ Gates(c) \/ Close(c) \/ Admit(c)
             \/ Reconcile(c) \/ Inspect(c) \/ Stage(c) \/ GitFails(c) \/ Commit(c)
             \/ RecordCommit(c) \/ PushSucceeds(c) \/ PushFails(c) \/ RecordPushed(c)
             \/ Learn(c) \/ Defer(c) \/ Settle(c)
      PROVE  Kept
  BY <1>3, Zenon DEF Begin, Gates, Close, Admit, Reconcile, Inspect, Stage, GitFails, Commit,
     RecordCommit, PushSucceeds, PushFails, RecordPushed, Learn, Defer, Settle
<1>4. ASSUME NEW c \in Command, Judge(c) \/ Decide(c) \/ Record(c)
      PROVE  asked' \in {"no", "accepted", "recorded"} /\ UNCHANGED <<edits, crashes>>
  <2>1. asked' \in {asked, "accepted", "recorded"}
    BY <1>4 DEF Judge, Decide, Record, Accept
  <2>2. UNCHANGED <<edits, crashes>>
    BY <1>4, Zenon DEF Judge, Decide, Record
  <2> QED
    BY <1>1, <2>1, <2>2
<1>5. ASSUME NEW c \in Command, Crash(c)
      PROVE  CountsOK'
  BY <1>1, <1>5, FinalizationAssumption DEF Crash, CountsOK
<1>6. CASE Edit \/ UserCommit
  BY <1>1, <1>6, FinalizationAssumption DEF Edit, UserCommit, CountsOK
<1>7. CASE UNCHANGED vars
  BY <1>1, <1>7 DEF vars, CountsOK
<1>8. ASSUME Kept
      PROVE  CountsOK'
  BY <1>1, <1>8 DEF CountsOK
<1>9. ASSUME asked' \in {"no", "accepted", "recorded"}, UNCHANGED <<edits, crashes>>
      PROVE  CountsOK'
  BY <1>1, <1>9 DEF CountsOK
<1> HIDE DEF Kept
<1> QED
  BY <1>2, <1>3, <1>4, <1>5, <1>6, <1>7, <1>8, <1>9 DEF Next, Progress

LEMMA TypeStep == TypeInv /\ [Next]_vars => TypeInv'
<1> SUFFICES ASSUME TypeInv, [Next]_vars
             PROVE  TypeInv'
  OBVIOUS
<1>1. RowsOK' /\ run'.revision >= run.revision /\ TreeOK' /\ CountsOK'
  BY RowsStep, TreeStep, CountsStep
<1>2. run.revision \in Nat /\ run'.revision \in Nat
  BY <1>1 DEF TypeInv, RowsOK, Runs
<1>3. LocalsOK /\ \A c \in Command : cmd[c].revision \in Nat /\ cmd[c].revision <= run.revision
  BY DEF TypeInv, LocalsOK, DecisionsOK, Locals
<1>4. LocalsOK' /\ DecisionsOK'
  <2>1. CASE UNCHANGED cmd
    BY <1>1, <1>2, <1>3, <2>1 DEF LocalsOK, DecisionsOK
  <2>2. ASSUME NEW c \in Command, Entry(c) \/ Progress(c) \/ Crash(c)
        PROVE  LocalsOK' /\ DecisionsOK'
    <3>1. /\ LocalsOK'
          /\ \A d \in Command \ {c} : cmd'[d] = cmd[d]
          /\ cmd'[c].revision \in {0, cmd[c].revision, run.revision}
      BY <2>2, LocalsStep
    <3> QED
      BY <1>1, <1>2, <1>3, <3>1 DEF DecisionsOK
  <2>3. Edit \/ UserCommit \/ UNCHANGED vars => UNCHANGED cmd
    BY Zenon DEF Edit, UserCommit, vars
  <2> QED
    BY <2>1, <2>2, <2>3 DEF Next
<1> QED
  BY <1>1, <1>4 DEF TypeInv

(* The types of the rows, of the worktree and of the branches.                *)
THEOREM FinTypeCorrect == Spec => []FinTypeOK
<1>1. TypeInv => FinTypeOK
  <2> SUFFICES ASSUME TypeInv
               PROVE  FinTypeOK
    OBVIOUS
  <2>1. decision.revision \in 0..run.revision /\ proof.revision \in 0..run.revision
    BY DEF TypeInv, RowsOK, Runs
  <2> QED
    BY <2>1 DEF TypeInv, RowsOK, Runs, TreeOK, CountsOK, Closeouts, Receipts, Statuses, States,
       Verdicts, FinTypeOK, IsBranch, Shas
<1> QED
  BY TypeInit, TypeStep, <1>1, PTL DEF Spec

-----------------------------------------------------------------------------
(* However many commands finalize the run at the same time, no commit is taken *)
(* off the branch: update-ref compares it with what the tree was built on.     *)
LEMMA CommitKept ==
  TypeInv /\ [Next]_vars =>
    [Len(head) <= Len(head') /\ SubSeq(head', 1, Len(head)) = head]_head
<1> SUFFICES ASSUME TypeInv, [Next]_vars, head' # head
             PROVE  Len(head) <= Len(head') /\ SubSeq(head', 1, Len(head)) = head
  OBVIOUS
<1>1. head \in Shas /\ own \in Contents /\ \A c \in Command : cmd[c].staged \in Contents
  BY DEF TypeInv, TreeOK, LocalsOK, Locals
<1>2. PICK e \in Commits : head' = Append(head, e)
  BY <1>1, HeadStep, EntryType
<1>3. /\ head' \in Shas /\ Len(head') = Len(head) + 1 /\ Len(head) \in Nat
      /\ \A i \in 1..Len(head) : head'[i] = head[i]
  BY <1>1, <1>2, AppendProperties, LenProperties DEF Shas
<1>4. \A i \in 1..Len(head) : head'[i] \in Commits
  BY <1>1, <1>3, ElementOfSeq DEF Shas
<1>5. /\ SubSeq(head', 1, Len(head)) \in Shas
      /\ Len(SubSeq(head', 1, Len(head))) = Len(head)
      /\ \A i \in 1..Len(head) : SubSeq(head', 1, Len(head))[i] = head[i]
  BY <1>3, <1>4, SubSeqProperties DEF Shas
<1> QED
  BY <1>1, <1>3, <1>5, SeqEqual DEF Shas

(* The Kernel's commit comes on top of every commit there is, whoever commits    *)
(* while it builds its own, and takes none away.                               *)
THEOREM NoLostCommitHolds == Spec => NoLostCommit
<1>1. TypeInv /\ [Next]_vars =>
        [Len(head) <= Len(head') /\ SubSeq(head', 1, Len(head)) = head]_head
  BY CommitKept
<1> QED
  BY TypeInit, TypeStep, <1>1, PTL DEF Spec, NoLostCommit

-----------------------------------------------------------------------------
(* What the locals of a command are after each kind of assignment.            *)

LEMMA FieldsOfIdle ==
  ASSUME LocalsOK, NEW c \in Command, Become(c, Idle)
  PROVE  /\ Reset(c)' /\ cmd'[c].at = "idle" /\ cmd'[c].sha = NoSha
         /\ cmd'[c].outcome = "skipped" /\ cmd'[c].kind = "finalize"
<1>1. cmd'[c] = Idle
  BY NextLocals, IdleTyped
<1> QED
  BY <1>1 DEF Idle, Reset, NoCloseout

LEMMA FieldsOfEnter ==
  ASSUME LocalsOK, NEW c \in Command, NEW k \in Kinds, NEW r \in Requests, Enter(c, k, r)
  PROVE  /\ Reset(c)' /\ cmd'[c].at = "begin" /\ cmd'[c].sha = NoSha
         /\ cmd'[c].outcome = "skipped" /\ cmd'[c].kind = k /\ cmd'[c].request = r
<1>1. cmd'[c] = [Idle EXCEPT !.at = "begin", !.kind = k, !.request = r]
  BY NextLocals, IdleTyped DEF Enter
<1> QED
  BY <1>1 DEF Idle, Reset, NoCloseout

LEMMA FieldsOfGo ==
  ASSUME LocalsOK, NEW c \in Command, NEW place \in Places, Go(c, place)
  PROVE  /\ cmd'[c].at = place /\ cmd'[c].kind = cmd[c].kind
         /\ cmd'[c].request = cmd[c].request /\ cmd'[c].prior = cmd[c].prior
         /\ cmd'[c].sha = cmd[c].sha /\ cmd'[c].status = cmd[c].status
         /\ cmd'[c].state = cmd[c].state /\ cmd'[c].verdict = cmd[c].verdict
         /\ cmd'[c].commit = cmd[c].commit /\ cmd'[c].seen = cmd[c].seen
         /\ cmd'[c].outcome = cmd[c].outcome
<1>1. cmd'[c] = [cmd[c] EXCEPT !.at = place] /\ cmd[c] \in Locals
  BY GoTyped DEF LocalsOK
<1> QED
  BY <1>1 DEF Locals

LEMMA FieldsOfEndCloseout ==
  ASSUME LocalsOK, NEW c \in Command, NEW outcome \in Outcomes, EndCloseout(c, outcome)
  PROVE  /\ Reset(c)'
         /\ \/ /\ cmd[c].kind = "closeout" /\ cmd'[c].at = "idle" /\ cmd'[c].sha = NoSha
               /\ cmd'[c].outcome = "skipped" /\ cmd'[c].kind = "finalize"
            \/ /\ cmd[c].kind # "closeout" /\ cmd'[c].at = "learning"
               /\ cmd'[c].kind = cmd[c].kind /\ cmd'[c].request = cmd[c].request
               /\ cmd'[c].sha = cmd[c].sha /\ cmd'[c].outcome = outcome
<1>1. "learning" \in Places
  BY DEF Places
<1> QED
  BY <1>1, FieldsOfIdle, ConcludeTyped DEF EndCloseout

LEMMA Constants ==
  /\ \A a \in {"idle", "begin", "gates", "closing", "judging", "deciding", "admitting",
               "reconciling", "inspecting", "staging", "committing", "committed", "pushing",
               "pushed", "learning", "recording", "settling"} : a \in Places
  /\ \A k \in {"report", "finalize", "operator", "closeout"} : k \in Kinds
  /\ \A o \in {"skipped", "refused", "failed", "completed"} : o \in Outcomes
BY DEF Places, Kinds, Outcomes

-----------------------------------------------------------------------------
(* What the rows say of the run, and of a command at work.                     *)

SafeInv == RunInv /\ \A c \in Command : CommandInv(c)

LEMMA SafeInit == Init => SafeInv
<1> SUFFICES ASSUME Init
             PROVE  SafeInv
  OBVIOUS
<1>1. RunInv
  <2>1. ~Kernel(head) /\ ~Kernel(run.known.head) /\ ~Fresh
    BY Branches DEF Init, Kernel, tree, Fresh, NoSha
  <2> QED
    BY <2>1 DEF Init, RunInv
<1>2. ASSUME NEW c \in Command
      PROVE  CommandInv(c)
  <2>1. cmd[c] = Idle
    BY DEF Init
  <2> QED
    BY <2>1 DEF Idle, CommandInv, Closing
<1> QED
  BY <1>1, <1>2 DEF SafeInv

(* A command that is at rest has nothing to keep.                              *)
LEMMA RestSafe ==
  ASSUME NEW c \in Command, Reset(c), cmd[c].kind # "closeout",
         cmd[c].at \in {"idle", "begin"}
  PROVE  CommandInv(c)
BY DEF Reset, CommandInv, Closing

(* Steps that leave run, proof, decision, branch and history alone.            *)
LEMMA SameRun ==
  ASSUME RunInv, UNCHANGED <<run, proof, decision, head, asked>>
  PROVE  RunInv' /\ (Closed' <=> Closed) /\ (Fresh' <=> Fresh) /\ (Kernel(head)' <=> Kernel(head))
BY DEF RunInv, Closed, Fresh, Kernel, ByKernel

(* The worktree is looked at: what is not fresh stays so.                      *)
LEMMA LookSafe ==
  ASSUME TypeInv, RunInv, UNCHANGED <<proof, decision, head, asked>>,
         run' \in {run, Observed(run)}
  PROVE  RunInv' /\ (Closed' <=> Closed) /\ (Fresh' => Fresh) /\ (Kernel(head)' <=> Kernel(head))
<1>1. CASE run' = run
  BY <1>1, SameRun
<1>2. CASE run' = Observed(run) /\ run.known # tree
  <2>1. /\ run'.known = tree /\ run'.revision = run.revision + 1
        /\ run'.state = run.state /\ run'.status = run.status
    BY <1>2, ObservedTyped DEF TypeInv, RowsOK
  <2>2. ~Fresh'
    BY <1>2, <2>1 DEF TypeInv, RowsOK, Runs, Fresh
  <2> QED
    BY <2>1, <2>2 DEF RunInv, Closed, Kernel, ByKernel
<1>3. CASE run' = Observed(run) /\ run.known = tree
  <2>1. run' = run
    BY <1>3, ObservedTyped DEF TypeInv, RowsOK
  <2> QED
    BY <2>1, SameRun
<1> QED
  BY <1>1, <1>2, <1>3

LEMMA ReportSafe ==
  ASSUME TypeInv, SafeInv, NEW c \in Command, NEW request \in Requests, Report(c, request)
  PROVE  RunInv' /\ CommandInv(c)'
<1> DEFINE q == [run EXCEPT !.status = "active"]
<1>1. /\ q \in Runs /\ q.state = run.state /\ q.known = run.known
      /\ q.revision = run.revision /\ q.status = "active"
  BY DEF TypeInv, RowsOK, Runs, Statuses
<1> HIDE DEF q
<1>2. /\ run' = Observed(q)
      /\ IF run.state = "PROVE"
         THEN /\ proof' = [revision |-> run'.revision, content |-> own]
              /\ Enter(c, "report", request)
         ELSE UNCHANGED <<proof, cmd>>
      /\ UNCHANGED <<decision, head, asked>> /\ cmd[c].at = "idle"
  BY Zenon DEF Report, q, git, At
<1>3. /\ run'.state = run.state /\ run'.status = "active" /\ run'.known = tree
      /\ run.known # tree => run'.revision = run.revision + 1
      /\ run.known = tree => run'.revision = run.revision
  BY <1>1, <1>2, ObservedTyped
<1>4. tree.head = head /\ tree.own = own
  BY DEF tree
<1>5. CASE run.state = "PROVE"
  <2>1. ~Closed /\ ~Closed' /\ ~Kernel(head) /\ ~Kernel(head)'
    BY <1>2, <1>3, <1>5 DEF Closed, SafeInv, RunInv, Kernel, ByKernel
  <2>2. RunInv'
    BY <1>2, <1>3, <1>4, <1>5, <2>1 DEF SafeInv, RunInv, Kernel, ByKernel, Closed
  <2>3. CommandInv(c)'
    BY <1>2, <1>5, FieldsOfEnter, Constants, RestSafe DEF TypeInv, Reset, CommandInv, Closing
  <2> QED
    BY <2>2, <2>3
<1>6. CASE run.state # "PROVE"
  <2>1. Closed /\ Closed'
    BY <1>3, <1>6 DEF Closed, TypeInv, RowsOK, Runs, States
  <2>2. run.known # tree => ~Fresh'
    BY <1>2, <1>3, <1>6 DEF Fresh, TypeInv, RowsOK, Runs
  <2>3. run.known = tree => (Fresh' <=> Fresh)
    BY <1>2, <1>3, <1>6 DEF Fresh
  <2>4. RunInv'
    BY <1>2, <1>3, <1>4, <1>6, <2>1, <2>2, <2>3 DEF SafeInv, RunInv, Kernel, ByKernel, Closed
  <2>5. CommandInv(c)'
    BY <1>2, <1>6, <2>1 DEF SafeInv, CommandInv, Closing, Closed
  <2> QED
    BY <2>4, <2>5
<1> QED
  BY <1>5, <1>6

LEMMA BeginSafe ==
  ASSUME TypeInv, SafeInv, NEW c \in Command, Begin(c)
  PROVE  RunInv' /\ CommandInv(c)'
<1> DEFINE l == [cmd[c] EXCEPT !.at = "gates", !.prior = closeout,
                   !.request = Requested(cmd[c].request), !.chosen = PathsChosen,
                   !.sha = ExistingSha(cmd[c].request),
                   !.commit = ExistingSha(cmd[c].request),
                   !.status = run.status, !.state = run.state]
<1>1. /\ l.at = "gates" /\ l.status = run.status /\ l.state = run.state
      /\ l.kind = cmd[c].kind
  BY DEF TypeInv, LocalsOK, Locals
<1>2. cmd'[c] = l
  <2>1. Become(c, l)
    BY Zenon DEF Begin
  <2> HIDE DEF l
  <2> QED
    BY <2>1 DEF Become, TypeInv, LocalsOK
<1> HIDE DEF l
<1>3. RunInv' /\ (Closed' <=> Closed)
  <2>1. run' \in {run, Observed(run)} /\ UNCHANGED <<proof, decision, head, asked>>
    BY DEF Begin, Refreshed, git
  <2> QED
    BY <2>1, LookSafe DEF SafeInv
<1>4. /\ (run.status = "completed" \/ run.state = "CLOSE") => Closed
      /\ cmd[c].kind # "closeout"
  BY DEF SafeInv, RunInv, CommandInv, Closed, Begin, At
<1> QED
  BY <1>1, <1>2, <1>3, <1>4 DEF CommandInv, Closing

LEMMA GatesSafe ==
  ASSUME TypeInv, SafeInv, NEW c \in Command, Gates(c)
  PROVE  RunInv' /\ CommandInv(c)'
<1>1. /\ UNCHANGED <<run, proof, decision, head, asked>>
      /\ cmd[c].at = "gates"
      /\ IF Fresh THEN Go(c, "closing") ELSE Conclude(c, "recording", "refused")
  BY Zenon DEF Gates, Refused, stored, git, At
<1>2. RunInv' /\ (Closed' <=> Closed) /\ (Fresh' <=> Fresh)
  BY <1>1, SameRun DEF SafeInv
<1>3. CASE Fresh /\ Go(c, "closing")
  BY <1>1, <1>2, <1>3, FieldsOfGo, Constants DEF TypeInv, SafeInv, CommandInv, Closing
<1>4. CASE ~Fresh /\ Conclude(c, "recording", "refused")
  BY <1>1, <1>2, <1>4, ConcludeTyped, Constants DEF TypeInv, SafeInv, CommandInv, Closing, Reset
<1> QED
  BY <1>1, <1>2, <1>3, <1>4

LEMMA CloseSafe ==
  ASSUME TypeInv, SafeInv, NEW c \in Command, Close(c)
  PROVE  RunInv' /\ CommandInv(c)'
<1>1. /\ UNCHANGED <<proof, decision, head, asked>>
      /\ cmd[c].at = "closing"
      /\ \/ /\ cmd[c].state = "CLOSE" \/ cmd[c].status = "completed"
            /\ Go(c, "judging") /\ UNCHANGED run
         \/ Go(c, "judging") /\ run' = [run EXCEPT !.state = "CLOSE"]
         \/ Become(c, Idle) /\ UNCHANGED run
  BY Zenon DEF Close, git, At
<1>2. CommandInv(c)
  BY DEF SafeInv
<1>3. CASE (cmd[c].state = "CLOSE" \/ cmd[c].status = "completed") /\ Go(c, "judging") /\ UNCHANGED run
  <2>1. RunInv' /\ (Closed' <=> Closed) /\ (Fresh' <=> Fresh) /\ Closed
    BY <1>1, <1>2, <1>3, SameRun DEF SafeInv, CommandInv
  <2> QED
    BY <1>1, <1>2, <1>3, <2>1, FieldsOfGo, Constants DEF TypeInv, CommandInv, Closing
<1>4. CASE Go(c, "judging") /\ run' = [run EXCEPT !.state = "CLOSE"]
  <2>1. /\ run'.state = "CLOSE" /\ run'.known = run.known /\ run'.revision = run.revision
    BY <1>4 DEF TypeInv, RowsOK, Runs
  <2>2. RunInv' /\ Closed' /\ (Fresh' <=> Fresh)
    BY <1>1, <2>1 DEF SafeInv, RunInv, Closed, Fresh, Kernel, ByKernel
  <2> QED
    BY <1>1, <1>2, <1>4, <2>2, FieldsOfGo, Constants DEF TypeInv, CommandInv, Closing
<1>5. CASE Become(c, Idle) /\ UNCHANGED run
  <2>1. RunInv'
    BY <1>1, <1>5, SameRun DEF SafeInv
  <2>2. CommandInv(c)'
    BY <1>5, FieldsOfIdle, RestSafe DEF TypeInv, Reset, CommandInv, Closing
  <2> QED
    BY <2>1, <2>2
<1> QED
  BY <1>1, <1>3, <1>4, <1>5

(* An accepted run goes on to its closeout.                                    *)
LEMMA AcceptSafe ==
  ASSUME TypeInv, NEW c \in Command, Accept(c), Closed', Fresh',
         decision'.verdict = "accepted", cmd[c].kind # "closeout"
  PROVE  /\ CommandInv(c)'
         /\ asked' \in {asked, "accepted"}
<1> DEFINE l == [cmd[c] EXCEPT !.at = "admitting", !.status = "completed",
                   !.state = "CLOSE", !.verdict = "accepted", !.revision = 0]
<1>1. l.at = "admitting" /\ l.kind = cmd[c].kind
  BY DEF TypeInv, LocalsOK, Locals
<1>2. Conclude(c, "learning", "skipped") \/ Become(c, l)
  BY Zenon DEF Accept
<1> HIDE DEF l
<1>3. ASSUME Conclude(c, "learning", "skipped")
      PROVE  CommandInv(c)'
  <2>1. /\ Reset(c)' /\ cmd'[c].at = "learning" /\ cmd'[c].kind # "closeout"
        /\ cmd'[c].outcome = "skipped"
    BY <1>3, ConcludeTyped, Constants DEF TypeInv
  <2> QED
    BY <2>1 DEF CommandInv, Closing, Reset
<1>4. ASSUME Become(c, l)
      PROVE  CommandInv(c)'
  <2>1. cmd'[c].at = "admitting" /\ cmd'[c].kind # "closeout"
    BY <1>1, <1>4 DEF Become, TypeInv, LocalsOK
  <2> QED
    BY <2>1 DEF CommandInv, Closing
<1>5. asked' \in {asked, "accepted"}
  BY DEF Accept
<1> QED
  BY <1>2, <1>3, <1>4, <1>5

LEMMA JudgeSafe ==
  ASSUME TypeInv, SafeInv, NEW c \in Command, Judge(c)
  PROVE  RunInv' /\ CommandInv(c)'
<1> DEFINE verdict == IF run.state = "CLOSE" /\ Fresh THEN "accepted" ELSE "blocked"
           l == [cmd[c] EXCEPT !.at = "deciding", !.revision = run.revision,
                   !.verdict = verdict]
<1>1. /\ UNCHANGED <<run, proof, decision, head>>
      /\ cmd[c].at = "judging"
      /\ \/ IsFinalizationRetry(c) /\ Accept(c)
         \/ Become(c, l) /\ UNCHANGED asked
  BY Zenon DEF Judge, stored, git, At
<1>2. Closed /\ Fresh /\ Closed' /\ Fresh' /\ cmd[c].kind # "closeout"
  BY <1>1 DEF SafeInv, CommandInv, Closing, Closed, Fresh
<1>3. ASSUME asked' \in {asked, "accepted"}
      PROVE  RunInv'
  BY <1>1, <1>2, <1>3 DEF SafeInv, RunInv, Closed, Fresh, Kernel, ByKernel
<1>4. CASE IsFinalizationRetry(c) /\ Accept(c)
  <2>1. decision'.verdict = "accepted"
    BY <1>1, <1>4 DEF IsFinalizationRetry
  <2> QED
    BY <1>2, <1>3, <1>4, <2>1, AcceptSafe
<1>5. CASE Become(c, l) /\ UNCHANGED asked
  <2>1. l.at = "deciding" /\ l.verdict = "accepted" /\ l.kind = cmd[c].kind
        /\ l.status = cmd[c].status /\ l.state = cmd[c].state
    BY <1>2 DEF TypeInv, LocalsOK, Locals, Closed
  <2> HIDE DEF l
  <2>2. cmd'[c] = l
    BY <1>5 DEF Become, TypeInv, LocalsOK
  <2>3. CommandInv(c)'
    BY <1>2, <2>1, <2>2 DEF CommandInv, Closing
  <2> QED
    BY <1>3, <1>5, <2>3
<1> QED
  BY <1>1, <1>4, <1>5

LEMMA DecideSafe ==
  ASSUME TypeInv, SafeInv, NEW c \in Command, Decide(c)
  PROVE  RunInv' /\ CommandInv(c)'
<1>1. /\ cmd[c].at = "deciding" /\ cmd[c].verdict = "accepted" /\ Closed /\ Fresh
      /\ cmd[c].kind # "closeout"
  BY DEF Decide, At, SafeInv, CommandInv, Closing
<1>2. /\ decision'.verdict = "accepted"
      /\ run' = [run EXCEPT !.status = "completed"] /\ Accept(c)
      /\ UNCHANGED <<proof, head>>
  BY <1>1 DEF Decide, git
<1>3. /\ run'.state = run.state /\ run'.known = run.known /\ run'.revision = run.revision
  BY <1>2 DEF TypeInv, RowsOK, Runs
<1>4. Closed' /\ Fresh'
  BY <1>1, <1>2, <1>3 DEF Closed, Fresh
<1>5. CommandInv(c)' /\ asked' \in {asked, "accepted"}
  BY <1>1, <1>2, <1>4, AcceptSafe
<1>6. RunInv'
  BY <1>2, <1>3, <1>4, <1>5 DEF SafeInv, RunInv, Kernel, ByKernel, Closed, Fresh
<1> QED
  BY <1>5, <1>6

(* The closeout ends: with a failure nothing is left to keep, otherwise the    *)
(* evidence is as fresh as it was.                                            *)
LEMMA EndSafe ==
  ASSUME TypeInv, NEW c \in Command, NEW outcome \in {"skipped", "failed", "completed"},
         EndCloseout(c, outcome), Closed',
         outcome # "failed" => Fresh' \/ cmd[c].kind = "closeout"
  PROVE  CommandInv(c)'
<1>1. /\ Reset(c)' /\ cmd'[c].at \in {"idle", "learning"}
      /\ cmd'[c].kind # "closeout"
      /\ cmd'[c].at = "learning" => cmd'[c].outcome = outcome /\ cmd[c].kind # "closeout"
  BY FieldsOfEndCloseout, Constants DEF TypeInv
<1> QED
  BY <1>1 DEF CommandInv, Closing, Reset

LEMMA AdmitSafe ==
  ASSUME TypeInv, SafeInv, NEW c \in Command, Admit(c)
  PROVE  RunInv' /\ CommandInv(c)'
<1>1. /\ UNCHANGED <<run, proof, decision, head, asked>>
      /\ cmd[c].at = "admitting"
      /\ \/ EndCloseout(c, "failed") \/ EndCloseout(c, "completed") \/ Go(c, "reconciling")
  BY Zenon DEF Admit, stored, git, At
<1>2. /\ RunInv' /\ (Closed' <=> Closed) /\ (Fresh' <=> Fresh)
      /\ CommandInv(c) /\ Fresh /\ Closed
  BY <1>1, SameRun DEF SafeInv, CommandInv, Closing
<1>3. CASE EndCloseout(c, "failed") \/ EndCloseout(c, "completed")
  BY <1>2, <1>3, EndSafe, Constants
<1>4. CASE Go(c, "reconciling")
  <2>1. /\ cmd'[c].at = "reconciling" /\ cmd'[c].kind = cmd[c].kind
        /\ cmd'[c].status = cmd[c].status /\ cmd'[c].state = cmd[c].state
    BY <1>4, FieldsOfGo, Constants DEF TypeInv
  <2> QED
    BY <1>1, <1>2, <2>1 DEF CommandInv, Closing
<1> QED
  BY <1>1, <1>3, <1>4

LEMMA ReconcileSafe ==
  ASSUME TypeInv, SafeInv, NEW c \in Command, Reconcile(c)
  PROVE  RunInv' /\ CommandInv(c)'
<1> DEFINE l == [cmd[c] EXCEPT !.seen = own,
                   !.at = IF cmd[c].kind = "closeout" THEN "pushing" ELSE "inspecting"]
<1>1. /\ UNCHANGED <<proof, decision, head, asked>>
      /\ cmd[c].at = "reconciling"
      /\ \/ Undrifted(c) /\ Become(c, l) /\ UNCHANGED run
         \/ EndCloseout(c, "failed") /\ run' = Observed(run)
  BY Zenon DEF Reconcile, git, At
<1>2. CommandInv(c) /\ RunInv /\ Closed
  BY <1>1 DEF SafeInv, CommandInv, Closing
<1>3. CASE EndCloseout(c, "failed") /\ run' = Observed(run)
  BY <1>1, <1>2, <1>3, LookSafe, EndSafe, Constants
<1>4. CASE Undrifted(c) /\ Become(c, l) /\ UNCHANGED run
  <2>1. RunInv' /\ (Closed' <=> Closed) /\ (Fresh' <=> Fresh) /\ (Kernel(head)' <=> Kernel(head))
    BY <1>1, <1>2, <1>4, SameRun
  <2>2. /\ l.at = IF cmd[c].kind = "closeout" THEN "pushing" ELSE "inspecting"
        /\ l.kind = cmd[c].kind /\ l.status = cmd[c].status /\ l.state = cmd[c].state
        /\ l.sha = cmd[c].sha /\ l.seen = own
    BY DEF TypeInv, LocalsOK, Locals
  <2>3. cmd'[c] = l
    BY <1>4 DEF Become, TypeInv, LocalsOK
  <2> HIDE DEF l
  <2>4. ASSUME cmd[c].kind # "closeout", cmd[c].sha = NoSha
        PROVE  ~Kernel(head) /\ own = proof.content
    <3>1. run.known = tree
      BY <1>4, <2>4 DEF Undrifted, CleanAt
    <3>2. run.known.head = head /\ run.known.own = own
      BY <3>1 DEF tree
    <3>3. Fresh
      BY <1>1, <1>2, <2>4 DEF CommandInv, Closing
    <3> QED
      BY <1>2, <3>2, <3>3 DEF RunInv
  <2>5. CommandInv(c)'
    BY <1>1, <1>2, <2>1, <2>2, <2>3, <2>4 DEF CommandInv, Closing
  <2> QED
    BY <2>1, <2>5
<1> QED
  BY <1>1, <1>3, <1>4

LEMMA InspectSafe ==
  ASSUME TypeInv, SafeInv, NEW c \in Command, Inspect(c)
  PROVE  RunInv' /\ CommandInv(c)'
<1> DEFINE l == [cmd[c] EXCEPT !.at = "staging", !.expected = head]
<1>1. /\ UNCHANGED <<run, proof, decision, head, asked>>
      /\ cmd[c].at = "inspecting"
      /\ \/ EndCloseout(c, "failed") \/ EndCloseout(c, "skipped") \/ Go(c, "pushing")
         \/ cmd[c].sha = NoSha /\ Become(c, l)
  BY Zenon DEF Inspect, git, At
<1>2. /\ RunInv' /\ (Closed' <=> Closed) /\ (Fresh' <=> Fresh) /\ (Kernel(head)' <=> Kernel(head))
      /\ CommandInv(c) /\ Fresh /\ Closed
  BY <1>1, SameRun DEF SafeInv, CommandInv, Closing
<1>3. CASE EndCloseout(c, "failed") \/ EndCloseout(c, "skipped")
  BY <1>2, <1>3, EndSafe, Constants
<1>4. CASE Go(c, "pushing")
  <2>1. /\ cmd'[c].at = "pushing" /\ cmd'[c].kind = cmd[c].kind
        /\ cmd'[c].status = cmd[c].status /\ cmd'[c].state = cmd[c].state
    BY <1>4, FieldsOfGo, Constants DEF TypeInv
  <2> QED
    BY <1>1, <1>2, <2>1 DEF CommandInv, Closing
<1>5. CASE cmd[c].sha = NoSha /\ Become(c, l)
  <2>1. /\ l.at = "staging" /\ l.kind = cmd[c].kind /\ l.status = cmd[c].status
        /\ l.state = cmd[c].state /\ l.seen = cmd[c].seen
    BY DEF TypeInv, LocalsOK, Locals
  <2>2. cmd'[c] = l
    BY <1>5 DEF Become, TypeInv, LocalsOK
  <2> HIDE DEF l
  <2>3. CommandInv(c)'
    BY <1>1, <1>2, <1>5, <2>1, <2>2 DEF CommandInv, Closing
  <2> QED
    BY <1>2, <2>3
<1> QED
  BY <1>1, <1>3, <1>4, <1>5

LEMMA StageSafe ==
  ASSUME TypeInv, SafeInv, NEW c \in Command, Stage(c)
  PROVE  RunInv' /\ CommandInv(c)'
<1> DEFINE l == [cmd[c] EXCEPT !.at = "committing", !.staged = own]
<1>1. /\ UNCHANGED <<run, proof, decision, head, asked>>
      /\ cmd[c].at = "staging" /\ Become(c, l)
  BY Zenon DEF Stage, stored, git, At
<1>2. /\ RunInv' /\ (Closed' <=> Closed) /\ (Fresh' <=> Fresh) /\ (Kernel(head)' <=> Kernel(head))
      /\ CommandInv(c)
  BY <1>1, SameRun DEF SafeInv
<1>3. /\ l.at = "committing" /\ l.kind = cmd[c].kind /\ l.status = cmd[c].status
      /\ l.state = cmd[c].state /\ l.seen = cmd[c].seen
  BY DEF TypeInv, LocalsOK, Locals
<1>4. cmd'[c] = l
  BY <1>1 DEF Become, TypeInv, LocalsOK
<1> HIDE DEF l
<1> QED
  BY <1>1, <1>2, <1>3, <1>4 DEF CommandInv, Closing

(* The one commit of the Kernel's.                                            *)
LEMMA CommitSafe ==
  ASSUME TypeInv, SafeInv, NEW c \in Command, Commit(c)
  PROVE  RunInv' /\ CommandInv(c)'
<1> DEFINE l == [cmd[c] EXCEPT !.at = "committed", !.commit = head']
<1>1. /\ UNCHANGED <<run, proof, decision, asked>>
      /\ cmd[c].at = "committing"
      /\ \/ EndCloseout(c, "failed") /\ head' = head
         \/ Become(c, l)
  BY DEF Commit, stored, At
<1>2. /\ CommandInv(c) /\ RunInv /\ Closed /\ (Closed' <=> Closed) /\ (Fresh' <=> Fresh)
  BY <1>1 DEF SafeInv, CommandInv, Closing, Closed, Fresh
<1>3. RunInv'
  BY <1>1, <1>2 DEF RunInv, Kernel, ByKernel, Closed
<1>4. CASE EndCloseout(c, "failed")
  BY <1>2, <1>3, <1>4, EndSafe, Constants
<1>5. CASE Become(c, l)
  <2>1. /\ l.at = "committed" /\ l.kind = cmd[c].kind /\ l.status = cmd[c].status
        /\ l.state = cmd[c].state
    BY DEF TypeInv, LocalsOK, Locals
  <2>2. cmd'[c] = l
    BY <1>5 DEF Become, TypeInv, LocalsOK
  <2> HIDE DEF l
  <2>3. CommandInv(c)'
    BY <1>1, <1>2, <2>1, <2>2 DEF CommandInv, Closing
  <2> QED
    BY <1>3, <2>3
<1> QED
  BY <1>1, <1>4, <1>5

LEMMA DeliverSafe ==
  ASSUME TypeInv, SafeInv, NEW c \in Command,
         \/ GitFails(c) \/ RecordCommit(c) \/ PushSucceeds(c) \/ PushFails(c) \/ RecordPushed(c)
  PROVE  RunInv' /\ CommandInv(c)'
<1>1. /\ UNCHANGED <<run, proof, decision, head, asked>>
      /\ \/ cmd[c].at \in {"staging", "pushing"} /\ EndCloseout(c, "failed")
         \/ cmd[c].at = "pushed" /\ EndCloseout(c, "completed")
         \/ cmd[c].at = "committed" /\ Go(c, "pushing")
         \/ cmd[c].at = "pushing" /\ Go(c, "pushed")
  BY Zenon DEF GitFails, RecordCommit, PushSucceeds, PushFails, RecordPushed, stored, git, At
<1>2. /\ RunInv' /\ (Closed' <=> Closed) /\ (Fresh' <=> Fresh)
      /\ CommandInv(c)
  BY <1>1, SameRun DEF SafeInv
<1>3. CASE cmd[c].at \in {"staging", "pushing"} /\ EndCloseout(c, "failed")
  <2>1. Closed'
    BY <1>2, <1>3 DEF CommandInv, Closing
  <2> QED
    BY <1>2, <1>3, <2>1, EndSafe, Constants
<1>4. CASE cmd[c].at = "pushed" /\ EndCloseout(c, "completed")
  <2>1. Closed' /\ (Fresh' \/ cmd[c].kind = "closeout")
    BY <1>2, <1>4 DEF CommandInv, Closing
  <2> QED
    BY <1>2, <1>4, <2>1, EndSafe, Constants
<1>5. ASSUME cmd[c].at \in {"committed", "pushing"}, NEW place \in {"pushing", "pushed"},
             Go(c, place)
      PROVE  CommandInv(c)'
  <2>1. /\ cmd'[c].at = place /\ cmd'[c].kind = cmd[c].kind
        /\ cmd'[c].status = cmd[c].status /\ cmd'[c].state = cmd[c].state
    BY <1>5, FieldsOfGo, Constants DEF TypeInv
  <2> QED
    BY <1>1, <1>2, <1>5, <2>1 DEF CommandInv, Closing
<1> QED
  BY <1>1, <1>2, <1>3, <1>4, <1>5

LEMMA FieldsOfLearn ==
  ASSUME TypeInv, NEW c \in Command, Learn(c)
  PROVE  /\ cmd'[c].at = "recording" /\ cmd'[c].kind = cmd[c].kind
         /\ cmd'[c].request = cmd[c].request /\ cmd'[c].prior = cmd[c].prior
         /\ cmd'[c].sha = cmd[c].sha /\ cmd'[c].status = cmd[c].status
         /\ cmd'[c].state = cmd[c].state /\ cmd'[c].outcome = cmd[c].outcome
<1> DEFINE l == [cmd[c] EXCEPT !.at = "recording", !.learned = TRUE]
<1>1. /\ l.at = "recording" /\ l.kind = cmd[c].kind
      /\ l.request = cmd[c].request /\ l.prior = cmd[c].prior
      /\ l.sha = cmd[c].sha /\ l.status = cmd[c].status
      /\ l.state = cmd[c].state /\ l.outcome = cmd[c].outcome
  BY DEF TypeInv, LocalsOK, Locals
<1>2. cmd'[c] = l
  BY DEF Learn, Become, TypeInv, LocalsOK
<1> QED
  BY <1>1, <1>2

LEMMA EndingSafe ==
  ASSUME TypeInv, SafeInv, NEW c \in Command,
         Learn(c) \/ Defer(c) \/ Record(c) \/ Settle(c) \/ Crash(c)
  PROVE  RunInv' /\ CommandInv(c)'
<1>1. CommandInv(c) /\ RunInv
  BY DEF SafeInv
<1>2. CASE Learn(c) \/ Defer(c)
  <2>1. /\ UNCHANGED <<run, proof, decision, head, asked>> /\ cmd[c].at = "learning"
        /\ Learn(c) \/ Go(c, "recording")
    BY <1>2, Zenon DEF Learn, Defer, stored, git, At
  <2>2. /\ cmd'[c].at = "recording" /\ cmd'[c].kind = cmd[c].kind
        /\ cmd'[c].status = cmd[c].status /\ cmd'[c].state = cmd[c].state
        /\ cmd'[c].outcome = cmd[c].outcome
    BY <2>1, FieldsOfLearn, FieldsOfGo, Constants DEF TypeInv
  <2>3. RunInv' /\ (Closed' <=> Closed) /\ (Fresh' <=> Fresh)
    BY <1>1, <2>1, SameRun
  <2>4. CommandInv(c)'
    BY <1>1, <2>1, <2>2, <2>3 DEF CommandInv, Closing
  <2> QED
    BY <2>3, <2>4
<1>3. CASE Record(c)
  <2>1. /\ UNCHANGED <<run, proof, decision, head>> /\ cmd[c].at = "recording"
        /\ Go(c, "settling")
        /\ asked' = IF Asks(c) /\ cmd[c].outcome # "refused" THEN "recorded" ELSE asked
    BY <1>3, Zenon DEF Record, git, At
  <2>2. /\ cmd'[c].at = "settling" /\ cmd'[c].kind = cmd[c].kind
        /\ cmd'[c].status = cmd[c].status /\ cmd'[c].state = cmd[c].state
        /\ cmd'[c].outcome = cmd[c].outcome
    BY <2>1, FieldsOfGo, Constants DEF TypeInv
  <2>3. RunInv' /\ (Closed' <=> Closed) /\ (Fresh' <=> Fresh)
    <3>1. cmd[c].outcome # "refused" => Closed
      BY <1>1, <2>1 DEF CommandInv
    <3> QED
      BY <1>1, <2>1, <3>1 DEF RunInv, Closed, Fresh, Kernel, ByKernel
  <2>4. CommandInv(c)'
    BY <1>1, <2>1, <2>2, <2>3 DEF CommandInv, Closing
  <2> QED
    BY <2>3, <2>4
<1>4. CASE Settle(c) \/ Crash(c)
  <2>1. /\ \/ UNCHANGED run
           \/ \E f \in {"blocked", "partial", "completed"} :
                run' = [run EXCEPT !.finalization = f]
        /\ UNCHANGED <<proof, decision, head, asked>> /\ Become(c, Idle)
    BY <1>4 DEF Settle, Crash, stored, git
  <2>2. /\ run'.state = run.state /\ run'.known = run.known /\ run'.revision = run.revision
        /\ run'.status = run.status
    BY <2>1 DEF TypeInv, RowsOK, Runs
  <2>3. RunInv'
    BY <1>1, <2>1, <2>2 DEF RunInv, Closed, Fresh, Kernel, ByKernel
  <2>4. CommandInv(c)'
    BY <2>1, FieldsOfIdle, RestSafe DEF TypeInv, Reset, CommandInv, Closing
  <2> QED
    BY <2>3, <2>4
<1> QED
  BY <1>2, <1>3, <1>4

(* A command at work goes on as the same command, with the same request once it *)
(* has begun, or comes to rest.                                                *)
LEMMA Carried ==
  ASSUME TypeInv, NEW c \in Command, Progress(c) \/ Crash(c)
  PROVE  /\ cmd[c].at # "idle"
         /\ \/ cmd'[c] = Idle
            \/ /\ cmd'[c].at # "idle" /\ cmd'[c].kind = cmd[c].kind
               /\ \/ Begin(c)
                  \/ cmd[c].at # "begin" /\ cmd'[c].request = cmd[c].request
<1> DEFINE Same == /\ cmd'[c].at # "idle" /\ cmd'[c].kind = cmd[c].kind
                   /\ cmd'[c].request = cmd[c].request
           Result == cmd'[c] = Idle \/ Same
<1>1. LocalsOK /\ cmd[c] \in Locals
  BY DEF TypeInv, LocalsOK
<1>2. ASSUME NEW place \in Places \ {"idle"}, Go(c, place)
      PROVE  Result
  BY <1>1, <1>2, FieldsOfGo
<1>3. ASSUME NEW place \in Places \ {"idle"}, NEW outcome \in Outcomes,
             Conclude(c, place, outcome)
      PROVE  Result
  BY <1>1, <1>3, ConcludeTyped
<1>4. ASSUME Become(c, Idle)
      PROVE  Result
  BY <1>1, <1>4, NextLocals, IdleTyped
<1>5. ASSUME NEW outcome \in Outcomes, EndCloseout(c, outcome)
      PROVE  Result
  <2>1. "learning" \in Places \ {"idle"}
    BY Constants
  <2> QED
    BY <1>3, <1>4, <1>5, <2>1 DEF EndCloseout
<1>6. ASSUME NEW l, Become(c, l), l.at # "idle", l.request = cmd[c].request,
             l.kind = cmd[c].kind
      PROVE  Result
  BY <1>1, <1>6 DEF Become, LocalsOK
<1>7. cmd[c].at # "idle" /\ (cmd[c].at # "begin" \/ Begin(c) \/ cmd'[c] = Idle)
  <2>1. CASE Crash(c)
    BY <1>1, <2>1, NextLocals, IdleTyped DEF Crash, At
  <2>2. CASE Progress(c)
    BY <2>2 DEF Progress, Begin, Gates, Close, Judge, Decide, Admit, Reconcile, Inspect, Stage,
       GitFails, Commit, RecordCommit, PushSucceeds, PushFails, RecordPushed, Learn, Defer,
       Record, Settle, At
  <2> QED
    BY <2>1, <2>2
<1> SUFFICES Result \/ (cmd'[c].at # "idle" /\ cmd'[c].kind = cmd[c].kind /\ Begin(c))
  BY <1>7
<1> HIDE DEF Same, Result
<1>8. ASSUME Accept(c)
      PROVE  Result
  <2> DEFINE l == [cmd[c] EXCEPT !.at = "admitting", !.status = "completed",
                     !.state = "CLOSE", !.verdict = "accepted", !.revision = 0]
  <2>1. l.at # "idle" /\ l.request = cmd[c].request /\ l.kind = cmd[c].kind
    BY <1>1 DEF Locals
  <2>2. Conclude(c, "learning", "skipped") \/ Become(c, l)
    BY <1>8, Zenon DEF Accept
  <2> HIDE DEF l
  <2> QED
    BY <1>3, <1>6, <2>1, <2>2, Constants
<1>9. CASE Gates(c) \/ Close(c)
  <2>1. \/ Go(c, "closing") \/ Go(c, "judging") \/ Conclude(c, "recording", "refused")
        \/ Become(c, Idle)
    BY <1>9, Zenon DEF Gates, Close, Refused
  <2> QED
    BY <1>2, <1>3, <1>4, <2>1, Constants
<1>10. CASE Judge(c) \/ Decide(c)
  <2> DEFINE verdict == IF run.state = "CLOSE" /\ Fresh THEN "accepted" ELSE "blocked"
             l == [cmd[c] EXCEPT !.at = "deciding", !.revision = run.revision,
                     !.verdict = verdict]
  <2>1. l.at # "idle" /\ l.request = cmd[c].request /\ l.kind = cmd[c].kind
    BY <1>1 DEF Locals
  <2>2. Accept(c) \/ Become(c, l) \/ Conclude(c, "recording", "refused")
    BY <1>10, Zenon DEF Judge, Decide, Refused
  <2> HIDE DEF l
  <2> QED
    BY <1>3, <1>6, <1>8, <2>1, <2>2, Constants
<1>11. CASE Reconcile(c)
  <2> DEFINE l == [cmd[c] EXCEPT !.seen = own,
                     !.at = IF cmd[c].kind = "closeout" THEN "pushing" ELSE "inspecting"]
  <2>1. l.at # "idle" /\ l.request = cmd[c].request /\ l.kind = cmd[c].kind
    BY <1>1 DEF Locals
  <2>2. EndCloseout(c, "failed") \/ Become(c, l)
    BY <1>11, Zenon DEF Reconcile
  <2> HIDE DEF l
  <2> QED
    BY <1>5, <1>6, <2>1, <2>2, Constants
<1>12. CASE Inspect(c)
  <2> DEFINE l == [cmd[c] EXCEPT !.at = "staging", !.expected = head]
  <2>1. l.at # "idle" /\ l.request = cmd[c].request /\ l.kind = cmd[c].kind
    BY <1>1 DEF Locals
  <2>2. \/ EndCloseout(c, "failed") \/ EndCloseout(c, "skipped") \/ Go(c, "pushing")
        \/ Become(c, l)
    BY <1>12, Zenon DEF Inspect
  <2> HIDE DEF l
  <2> QED
    BY <1>2, <1>5, <1>6, <2>1, <2>2, Constants
<1>13. CASE Stage(c)
  <2> DEFINE l == [cmd[c] EXCEPT !.at = "committing", !.staged = own]
  <2>1. l.at # "idle" /\ l.request = cmd[c].request /\ l.kind = cmd[c].kind
    BY <1>1 DEF Locals
  <2>2. Become(c, l)
    BY <1>13, Zenon DEF Stage
  <2> HIDE DEF l
  <2> QED
    BY <1>6, <2>1, <2>2
<1>14. CASE Commit(c)
  <2> DEFINE sha == Append(cmd[c].expected, [by |-> "kernel", content |-> cmd[c].staged])
             l == [cmd[c] EXCEPT !.at = "committed", !.commit = sha]
  <2>1. l.at # "idle" /\ l.request = cmd[c].request /\ l.kind = cmd[c].kind
    BY <1>1 DEF Locals
  <2>2. EndCloseout(c, "failed") \/ Become(c, l)
    BY <1>14, Zenon DEF Commit
  <2> HIDE DEF l
  <2> QED
    BY <1>5, <1>6, <2>1, <2>2, Constants
<1>15. CASE Admit(c) \/ GitFails(c) \/ RecordCommit(c) \/ PushSucceeds(c) \/ PushFails(c)
            \/ RecordPushed(c) \/ Defer(c) \/ Record(c) \/ Settle(c) \/ Crash(c)
  <2>1. \/ EndCloseout(c, "failed") \/ EndCloseout(c, "completed") \/ Go(c, "reconciling")
        \/ Go(c, "pushing") \/ Go(c, "pushed") \/ Go(c, "recording") \/ Go(c, "settling")
        \/ Become(c, Idle)
    BY <1>15, Zenon DEF Admit, GitFails, RecordCommit, PushSucceeds, PushFails, RecordPushed,
       Defer, Record, Settle, Crash
  <2> QED
    BY <1>2, <1>4, <1>5, <2>1, Constants
<1>16. CASE Learn(c)
  BY <1>16, FieldsOfLearn DEF Result, Same
<1>17. CASE Begin(c)
  <2> DEFINE l == [cmd[c] EXCEPT !.at = "gates", !.prior = closeout,
                     !.request = Requested(cmd[c].request), !.chosen = PathsChosen,
                     !.sha = ExistingSha(cmd[c].request),
                     !.commit = ExistingSha(cmd[c].request),
                     !.status = run.status, !.state = run.state]
  <2>1. l.at # "idle" /\ l.kind = cmd[c].kind
    BY <1>1 DEF Locals
  <2>2. Become(c, l)
    BY <1>17, Zenon DEF Begin
  <2> HIDE DEF l
  <2>3. cmd'[c] = l
    BY <1>1, <2>2 DEF Become, LocalsOK
  <2> QED
    BY <1>17, <2>1, <2>3
<1> QED
  BY <1>9, <1>10, <1>11, <1>12, <1>13, <1>14, <1>15, <1>16, <1>17 DEF Progress

(* With `kernel finalize' and `git-closeout' unused, at most one command is at   *)
(* work, for they are all reports under the lease.                             *)
Alone ==
  /\ \A c \in Command : cmd[c].at = "idle" => cmd[c] = Idle
  /\ ~Operator =>
       \A c \in Command : cmd[c].at # "idle" =>
         cmd[c].kind \in Leased /\ \A d \in Command \ {c} : cmd[d].at = "idle"

LEMMA AloneInit == Init => Alone
BY DEF Init, Alone, Idle

LEMMA EntryAlone ==
  ASSUME TypeInv, NEW c \in Command, Entry(c)
  PROVE  /\ cmd[c].at = "idle"
         /\ UNCHANGED cmd \/ cmd'[c].at # "idle"
         /\ ~Operator => LeaseFree(c)
         /\ ~Operator /\ ~UNCHANGED cmd => cmd'[c].kind \in Leased
<1>1. ASSUME NEW k \in Kinds, NEW r \in Requests, Enter(c, k, r)
      PROVE  cmd'[c].at = "begin" /\ cmd'[c].kind = k
  BY <1>1, FieldsOfEnter DEF TypeInv
<1>2. "report" \in Kinds /\ "finalize" \in Kinds /\ "operator" \in Kinds
  BY Constants
<1>3. ASSUME NEW r \in Requests, Report(c, r) \/ FinalizeAgain(c, r)
      PROVE  /\ cmd[c].at = "idle" /\ LeaseFree(c)
             /\ \/ UNCHANGED cmd
                \/ cmd'[c].at = "begin" /\ cmd'[c].kind \in {"report", "finalize"}
  BY <1>1, <1>2, <1>3 DEF Report, FinalizeAgain, At
<1>4. CASE ResentReport(c)
  <2>1. journal \in Requests /\ Enter(c, "report", journal) /\ cmd[c].at = "idle" /\ LeaseFree(c)
    BY <1>4, Zenon DEF ResentReport, TypeInv, RowsOK, At
  <2> QED
    BY <1>1, <1>2, <2>1 DEF Leased
<1>5. ASSUME NEW r \in Requests, OperatorFinalizes(c, r)
      PROVE  cmd[c].at = "idle" /\ Operator /\ cmd'[c].at = "begin"
  BY <1>1, <1>2, <1>5 DEF OperatorFinalizes, At
<1>6. CASE RetryCloseout(c)
  <2> DEFINE l == [Idle EXCEPT !.at = "reconciling", !.kind = "closeout",
                     !.prior = closeout, !.sha = closeout.sha, !.commit = closeout.sha]
  <2>1. l.at = "reconciling"
    BY IdleTyped DEF Locals
  <2>2. Become(c, l) /\ cmd[c].at = "idle" /\ Operator
    BY <1>6, Zenon DEF RetryCloseout, At
  <2> HIDE DEF l
  <2>3. cmd'[c] = l
    BY <2>2 DEF Become, TypeInv, LocalsOK
  <2> QED
    BY <2>1, <2>2, <2>3
<1> QED
  BY <1>3, <1>4, <1>5, <1>6 DEF Entry, Leased

(* Who acts leaves all others at rest; what the invariants ask of a command does   *)
(* not concern them.                                                           *)
LEMMA IdleKeeps ==
  ASSUME NEW d \in Command, cmd'[d] = Idle
  PROVE  CommandInv(d)' /\ RequestInv(d)'
<1>1. /\ Idle.at = "idle" /\ Idle.kind = "finalize" /\ Idle.sha = NoSha
      /\ Idle.status = "active" /\ Idle.state = "PROVE" /\ Idle.outcome = "skipped"
  BY DEF Idle
<1> QED
  BY <1>1 DEF CommandInv, RequestInv, Closing

LEMMA OthersRest ==
  ASSUME Serial, TypeInv, Alone, NEW c \in Command, Entry(c) \/ Progress(c) \/ Crash(c),
         NEW d \in Command \ {c}
  PROVE  cmd'[d] = Idle
<1>1. cmd'[d] = cmd[d]
  BY LocalsStep
<1>2. ~Operator
  BY DEF Serial, OneCommand
<1>3. cmd[d].at = "idle"
  <2>1. CASE Entry(c)
    <3>1. cmd[d].at = "idle" \/ cmd[d].kind \notin Leased
      BY <1>2, <2>1, EntryAlone DEF LeaseFree, At
    <3> QED
      BY <1>2, <3>1 DEF Alone
  <2>2. CASE Progress(c) \/ Crash(c)
    BY <1>2, <2>2, Carried DEF Alone
  <2> QED
    BY <2>1, <2>2
<1> QED
  BY <1>1, <1>3 DEF Alone

LEMMA AloneStep ==
  ASSUME Serial
  PROVE  TypeInv /\ Alone /\ [Next]_vars => Alone'
<1> SUFFICES ASSUME TypeInv, Alone, [Next]_vars
             PROVE  Alone'
  OBVIOUS
<1>1. CASE UNCHANGED cmd
  BY <1>1 DEF Alone
<1>2. ASSUME NEW c \in Command, Entry(c) \/ Progress(c) \/ Crash(c), ~UNCHANGED cmd
      PROVE  Alone'
  <2>1. Idle.at = "idle"
    BY DEF Idle
  <2>2. cmd'[c] = Idle \/ (cmd'[c].at # "idle" /\ (~Operator => cmd'[c].kind \in Leased))
    BY <1>2, EntryAlone, Carried DEF Alone
  <2>3. \A d \in Command \ {c} : cmd'[d] = Idle
    BY <1>2, OthersRest
  <2> QED
    BY <2>1, <2>2, <2>3 DEF Alone
<1>3. CASE Edit \/ UserCommit \/ UNCHANGED vars
  BY <1>1, <1>3, Zenon DEF Edit, UserCommit, vars
<1> QED
  BY <1>2, <1>1, <1>3 DEF Next

LEMMA EntrySafe ==
  ASSUME TypeInv, SafeInv, NEW c \in Command, Entry(c)
  PROVE  RunInv' /\ CommandInv(c)'
<1>1. CASE \E request \in Requests : Report(c, request)
  BY <1>1, ReportSafe
<1>2. CASE \/ ResentReport(c)
           \/ \E request \in Requests \ {"keyed"} :
                FinalizeAgain(c, request) \/ OperatorFinalizes(c, request)
  <2>1. /\ UNCHANGED <<run, proof, decision, head, asked>>
        /\ \E k \in {"report", "finalize", "operator"}, r \in Requests : Enter(c, k, r)
    BY <1>2 DEF ResentReport, FinalizeAgain, OperatorFinalizes, stored, git, TypeInv, RowsOK
  <2>2. RunInv'
    BY <2>1, SameRun DEF SafeInv
  <2>3. Reset(c)' /\ cmd'[c].at = "begin" /\ cmd'[c].kind # "closeout"
    BY <2>1, FieldsOfEnter, Constants DEF TypeInv
  <2> QED
    BY <2>2, <2>3 DEF CommandInv, Closing, Reset
<1>3. CASE RetryCloseout(c)
  <2> DEFINE l == [Idle EXCEPT !.at = "reconciling", !.kind = "closeout",
                     !.prior = closeout, !.sha = closeout.sha, !.commit = closeout.sha]
  <2>1. l.at = "reconciling" /\ l.kind = "closeout" /\ l.status = "active" /\ l.state = "PROVE"
    <3>1. Idle \in Locals /\ Idle.status = "active" /\ Idle.state = "PROVE"
      BY IdleTyped DEF Idle
    <3> QED
      BY <3>1 DEF Locals
  <2>2. /\ Become(c, l) /\ ProvenanceCurrent
        /\ UNCHANGED <<run, proof, decision, head, asked>>
    BY <1>3, Zenon DEF RetryCloseout, stored, git
  <2> HIDE DEF l
  <2>3. cmd'[c] = l
    BY <2>2 DEF Become, TypeInv, LocalsOK
  <2>4. RunInv' /\ (Closed' <=> Closed) /\ Closed
    BY <2>2, SameRun DEF SafeInv, RunInv, ProvenanceCurrent
  <2> QED
    BY <2>1, <2>3, <2>4 DEF CommandInv, Closing
<1> QED
  BY <1>1, <1>2, <1>3 DEF Entry

(* The user adds a commit that is none of the Kernel's.                        *)
LEMMA UserSafe ==
  ASSUME TypeInv, SafeInv, Edit \/ UserCommit
  PROVE  SafeInv'
<1>1. UNCHANGED <<run, proof, decision, asked, cmd>>
  BY Zenon DEF Edit, UserCommit, stored
<1>2. ByKernel(head)' = ByKernel(head)
  <2>1. head' = head \/ head' = Append(head, [by |-> "user", content |-> own])
    BY DEF Edit, UserCommit
  <2>2. /\ head \in Shas /\ [by |-> "user", content |-> own] \in Commits
        /\ [by |-> "user", content |-> own].by = "user"
    BY EntryType DEF TypeInv, TreeOK
  <2>3. CASE head' = Append(head, [by |-> "user", content |-> own])
    BY <2>2, <2>3, Branches
  <2> QED
    BY <2>1, <2>3
<1>3. RunInv' /\ (Closed' <=> Closed) /\ (Fresh' <=> Fresh) /\ (Kernel(head)' <=> Kernel(head))
  BY <1>1, <1>2 DEF SafeInv, RunInv, Closed, Fresh, Kernel, ByKernel
<1>4. ASSUME NEW c \in Command
      PROVE  CommandInv(c)'
  BY <1>1, <1>3 DEF SafeInv, CommandInv
<1> QED
  BY <1>3, <1>4 DEF SafeInv

LEMMA SafeStep ==
  ASSUME Serial
  PROVE  TypeInv /\ Alone /\ SafeInv /\ [Next]_vars => SafeInv'
<1> SUFFICES ASSUME TypeInv, Alone, SafeInv, [Next]_vars
             PROVE  SafeInv'
  OBVIOUS
<1>1. ASSUME NEW c \in Command, Entry(c) \/ Progress(c) \/ Crash(c)
      PROVE  SafeInv'
  <2>1. RunInv' /\ CommandInv(c)'
    BY <1>1, EntrySafe, BeginSafe, GatesSafe, CloseSafe, JudgeSafe, DecideSafe, AdmitSafe,
       ReconcileSafe, InspectSafe, StageSafe, CommitSafe, DeliverSafe, EndingSafe DEF Progress
  <2>2. \A d \in Command \ {c} : CommandInv(d)'
    BY <1>1, OthersRest, IdleKeeps
  <2> QED
    BY <2>1, <2>2 DEF SafeInv
<1>2. CASE Edit \/ UserCommit
  BY <1>2, UserSafe
<1>3. CASE UNCHANGED vars
  <2>1. UNCHANGED <<run, proof, decision, head, asked, cmd>>
    BY <1>3 DEF vars, stored, git
  <2>2. RunInv' /\ (Closed' <=> Closed) /\ (Fresh' <=> Fresh) /\ (Kernel(head)' <=> Kernel(head))
    BY <2>1, SameRun DEF SafeInv
  <2>3. ASSUME NEW c \in Command
        PROVE  CommandInv(c)'
    BY <2>1, <2>2 DEF SafeInv, CommandInv
  <2> QED
    BY <2>2, <2>3 DEF SafeInv
<1> QED
  BY <1>1, <1>2, <1>3 DEF Next

LEMMA OneCommitStep == TypeInv /\ SafeInv /\ OneCommit /\ [Next]_vars => OneCommit'
<1> SUFFICES ASSUME TypeInv, SafeInv, OneCommit, [Next]_vars
             PROVE  OneCommit'
  OBVIOUS
<1>1. head \in Shas /\ own \in Contents /\ \A c \in Command : cmd[c].staged \in Contents
  BY DEF TypeInv, TreeOK, LocalsOK, Locals
<1>2. CASE head' = head
  BY <1>2 DEF OneCommit, ByKernel
<1>3. ASSUME NEW c \in Command, Commit(c),
             head' = Append(head, [by |-> "kernel", content |-> cmd[c].staged])
      PROVE  OneCommit'
  <2>1. ByKernel(head) = {}
    BY <1>3 DEF SafeInv, CommandInv, Commit, At, Kernel
  <2>2. ByKernel(head') = {Len(head) + 1}
    BY <1>1, <1>3, <2>1, Branches, EntryType
  <2> QED
    BY <2>2 DEF OneCommit
<1>4. CASE head' = Append(head, [by |-> "user", content |-> own])
  <2>1. ByKernel(head') = ByKernel(head)
    BY <1>1, <1>4, Branches, EntryType
  <2> QED
    BY <2>1 DEF OneCommit
<1> QED
  BY <1>2, <1>3, <1>4, HeadStep

(* Commands that come one after the other, and reports of any number of         *)
(* processes, make at most one commit, however many crashes, retries and edits  *)
(* come between.                                                               *)
THEOREM OneCommitHolds ==
  ASSUME Serial
  PROVE  Spec => []OneCommit
<1>1. Init => OneCommit
  BY Branches DEF Init, OneCommit, NoSha
<1> QED
  BY TypeInit, TypeStep, AloneInit, AloneStep, SafeInit, SafeStep, <1>1, OneCommitStep, PTL DEF Spec

(* What they commit was proven, for an accepted run, unless the paths were      *)
(* edited after the worktree was compared for the last time.                    *)
THEOREM CommitIsProvenHolds ==
  ASSUME Serial
  PROVE  Spec => CommitIsProven
<1>1. TypeInv /\ SafeInv /\ [Next]_vars =>
        [\A c \in Command :
           (At(c, "committing") /\ cmd'[c].at = "committed" /\ cmd[c].staged = cmd[c].seen) =>
             cmd[c].staged = proof.content /\ decision.verdict = "accepted"]_vars
  <2> SUFFICES ASSUME SafeInv, NEW c \in Command, At(c, "committing"),
                      cmd[c].staged = cmd[c].seen
               PROVE  cmd[c].staged = proof.content /\ decision.verdict = "accepted"
    OBVIOUS
  <2>1. cmd[c].at = "committing" /\ CommandInv(c)
    BY DEF At, SafeInv
  <2>2. cmd[c].kind # "closeout"
    BY <2>1 DEF CommandInv
  <2> QED
    BY <2>1, <2>2 DEF CommandInv, Closing
<1> QED
  BY TypeInit, TypeStep, AloneInit, AloneStep, SafeInit, SafeStep, <1>1, PTL DEF Spec, CommitIsProven

-----------------------------------------------------------------------------
(* What is recorded as delivered is delivered.                                *)

DeliverInv == DeliveryRowsInv /\ \A c \in Command : DeliveryInv(c)

LEMMA DeliverInit == Init => DeliverInv
<1> SUFFICES ASSUME Init
             PROVE  DeliverInv
  OBVIOUS
<1>1. DeliveryRowsInv
  BY DEF Init, DeliveryRowsInv, NoCloseout, NoReceipt, Delivering
<1>2. ASSUME NEW c \in Command
      PROVE  DeliveryInv(c)
  <2>1. cmd[c] = Idle
    BY DEF Init
  <2> QED
    BY <2>1 DEF Idle, DeliveryInv, NoCloseout
<1> QED
  BY <1>1, <1>2 DEF DeliverInv

LEMMA SameRows ==
  ASSUME DeliveryRowsInv, UNCHANGED <<closeout, receipt, remote>>
  PROVE  DeliveryRowsInv' /\ (Kernel(remote)' <=> Kernel(remote))
BY DEF DeliveryRowsInv, Kernel, ByKernel

(* The locals are reset, with or without a sha.                               *)
LEMMA ResetDeliver ==
  ASSUME NEW c \in Command, Reset(c), cmd[c].kind # "closeout",
         cmd[c].at \in {"idle", "begin", "learning", "recording"},
         cmd[c].sha # NoSha => Kernel(cmd[c].sha),
         cmd[c].outcome = "completed" => Kernel(remote)
  PROVE  DeliveryInv(c)
BY DEF Reset, DeliveryInv

LEMMA EndDeliver ==
  ASSUME TypeInv, DeliverInv, NEW c \in Command,
         NEW outcome \in {"skipped", "failed", "completed"}, EndCloseout(c, outcome),
         outcome = "completed" => Kernel(remote)'
  PROVE  DeliveryInv(c)'
<1>1. /\ Reset(c)' /\ cmd'[c].at \in {"idle", "learning"}
      /\ cmd'[c].sha \in {NoSha, cmd[c].sha} /\ cmd'[c].kind # "closeout"
      /\ cmd'[c].outcome \in {"skipped", outcome}
  BY FieldsOfEndCloseout, Constants DEF TypeInv
<1>2. cmd'[c].sha # NoSha => Kernel(cmd[c].sha)'
  BY <1>1 DEF DeliverInv, DeliveryInv, Kernel, ByKernel
<1> QED
  BY <1>1, <1>2, ResetDeliver DEF Reset, DeliveryInv

LEMMA EntryDeliver ==
  ASSUME TypeInv, DeliverInv, NEW c \in Command, Entry(c)
  PROVE  DeliveryRowsInv' /\ DeliveryInv(c)'
<1>1. DeliveryRowsInv' /\ (Kernel(remote)' <=> Kernel(remote))
  <2>1. UNCHANGED <<closeout, receipt, remote>>
    BY Zenon DEF Entry, Report, ResentReport, FinalizeAgain, OperatorFinalizes, RetryCloseout,
       stored, git
  <2> QED
    BY <2>1, SameRows DEF DeliverInv
<1>2. ASSUME UNCHANGED cmd
      PROVE  DeliveryInv(c)'
  BY <1>1, <1>2 DEF DeliverInv, DeliveryInv, Kernel, ByKernel
<1>3. ASSUME NEW k \in Kinds \ {"closeout"}, NEW r \in Requests, Enter(c, k, r)
      PROVE  DeliveryInv(c)'
  <2>1. /\ Reset(c)' /\ cmd'[c].at = "begin" /\ cmd'[c].sha = NoSha
        /\ cmd'[c].outcome = "skipped" /\ cmd'[c].kind = k
    BY <1>3, FieldsOfEnter DEF TypeInv
  <2> QED
    BY <2>1 DEF Reset, DeliveryInv
<1>4. CASE RetryCloseout(c)
  <2> DEFINE l == [Idle EXCEPT !.at = "reconciling", !.kind = "closeout",
                     !.prior = closeout, !.sha = closeout.sha, !.commit = closeout.sha]
  <2>1. /\ l.at = "reconciling" /\ l.kind = "closeout" /\ l.outcome = "skipped"
        /\ l.prior = closeout /\ l.sha = closeout.sha /\ l.commit = closeout.sha
    <3>1. Idle \in Locals /\ Idle.outcome = "skipped"
      BY IdleTyped DEF Idle
    <3> QED
      BY <3>1 DEF Locals
  <2>2. Become(c, l) /\ closeout.status \in {"commit_created", "undelivered"}
    BY <1>4, Zenon DEF RetryCloseout
  <2> HIDE DEF l
  <2>3. cmd'[c] = l
    BY <2>2 DEF Become, TypeInv, LocalsOK
  <2>4. closeout.sha # NoSha /\ Kernel(closeout.sha)
    BY <2>2 DEF DeliverInv, DeliveryRowsInv, Delivering
  <2> QED
    BY <1>1, <2>1, <2>2, <2>3, <2>4 DEF DeliveryInv, Kernel, ByKernel
<1>5. \/ UNCHANGED cmd
      \/ \E k \in Kinds \ {"closeout"}, r \in Requests : Enter(c, k, r)
      \/ RetryCloseout(c)
  BY Constants DEF Entry, Report, ResentReport, FinalizeAgain, OperatorFinalizes, TypeInv, RowsOK
<1> QED
  BY <1>1, <1>2, <1>3, <1>4, <1>5

LEMMA BeginDeliver ==
  ASSUME TypeInv, DeliverInv, NEW c \in Command, Begin(c)
  PROVE  DeliveryRowsInv' /\ DeliveryInv(c)'
<1> DEFINE sha == ExistingSha(cmd[c].request)
           l == [cmd[c] EXCEPT !.at = "gates", !.prior = closeout,
                   !.request = Requested(cmd[c].request), !.chosen = PathsChosen,
                   !.sha = sha, !.commit = sha,
                   !.status = run.status, !.state = run.state]
<1>1. /\ l.at = "gates" /\ l.prior = closeout /\ l.sha = sha /\ l.commit = sha
      /\ l.outcome = cmd[c].outcome /\ l.kind = cmd[c].kind
  BY DEF TypeInv, LocalsOK, Locals
<1>2. cmd'[c] = l
  <2>1. Become(c, l)
    BY Zenon DEF Begin
  <2> HIDE DEF l
  <2> QED
    BY <2>1 DEF Become, TypeInv, LocalsOK
<1> HIDE DEF l
<1>3. DeliveryRowsInv' /\ (Kernel(remote)' <=> Kernel(remote))
  <2>1. UNCHANGED <<closeout, receipt, remote>>
    BY Zenon DEF Begin, git
  <2> QED
    BY <2>1, SameRows DEF DeliverInv
<1>4. sha # NoSha => Kernel(sha)
  <2>1. sha \in {NoSha, receipt.sha, closeout.sha}
    BY DEF ExistingSha, UnfinishedSha
  <2> QED
    BY <2>1 DEF DeliverInv, DeliveryRowsInv
<1> HIDE DEF sha
<1>5. cmd[c].kind # "closeout"
  BY DEF Begin, At, DeliverInv, DeliveryInv
<1> QED
  BY <1>1, <1>2, <1>3, <1>4, <1>5 DEF DeliverInv, DeliveryRowsInv, DeliveryInv, Kernel, ByKernel

(* A command goes on with what it knows.                                      *)
LEMMA GoDeliver ==
  ASSUME TypeInv, DeliverInv, NEW c \in Command, NEW place \in Places, Go(c, place),
         Kernel(remote) => Kernel(remote)',
         cmd[c].kind # "closeout" \/ place \in {"pushing", "pushed"},
         place \in {"closing", "judging", "reconciling"} => cmd[c].commit = cmd[c].sha,
         place \notin {"gates", "deciding", "admitting", "inspecting", "committed"},
         place \in {"pushing", "pushed"} => Kernel(cmd[c].commit),
         place = "pushed" => Kernel(remote)'
  PROVE  DeliveryInv(c)'
<1>1. /\ cmd'[c].at = place /\ cmd'[c].kind = cmd[c].kind
      /\ cmd'[c].prior = cmd[c].prior /\ cmd'[c].sha = cmd[c].sha
      /\ cmd'[c].commit = cmd[c].commit /\ cmd'[c].outcome = cmd[c].outcome
  BY FieldsOfGo DEF TypeInv
<1> QED
  BY <1>1 DEF DeliverInv, DeliveryInv, Kernel, ByKernel

LEMMA AcceptDeliver ==
  ASSUME TypeInv, DeliverInv, NEW c \in Command, Accept(c), Kernel(remote) => Kernel(remote)',
         cmd[c].commit = cmd[c].sha, cmd[c].kind # "closeout"
  PROVE  DeliveryInv(c)'
<1> DEFINE l == [cmd[c] EXCEPT !.at = "admitting", !.status = "completed",
                   !.state = "CLOSE", !.verdict = "accepted", !.revision = 0]
<1>1. /\ l.at = "admitting" /\ l.kind = cmd[c].kind /\ l.prior = cmd[c].prior
      /\ l.sha = cmd[c].sha /\ l.commit = cmd[c].commit /\ l.outcome = cmd[c].outcome
  BY DEF TypeInv, LocalsOK, Locals
<1>2. Conclude(c, "learning", "skipped") \/ Become(c, l)
  BY Zenon DEF Accept
<1> HIDE DEF l
<1>3. CASE Conclude(c, "learning", "skipped")
  <2>1. /\ Reset(c)' /\ cmd'[c].at = "learning" /\ cmd'[c].sha = cmd[c].sha
        /\ cmd'[c].outcome = "skipped" /\ cmd'[c].kind = cmd[c].kind
    BY <1>3, ConcludeTyped, Constants DEF TypeInv
  <2> QED
    BY <2>1 DEF DeliverInv, DeliveryInv, Reset, Kernel, ByKernel
<1>4. CASE Become(c, l)
  <2>1. cmd'[c] = l
    BY <1>4 DEF Become, TypeInv, LocalsOK
  <2> QED
    BY <1>1, <2>1 DEF DeliverInv, DeliveryInv, Kernel, ByKernel
<1> QED
  BY <1>2, <1>3, <1>4

LEMMA GatingDeliver ==
  ASSUME TypeInv, DeliverInv, NEW c \in Command,
         Gates(c) \/ Close(c) \/ Judge(c) \/ Decide(c)
  PROVE  DeliveryRowsInv' /\ DeliveryInv(c)'
<1> DEFINE verdict == IF run.state = "CLOSE" /\ Fresh THEN "accepted" ELSE "blocked"
           l == [cmd[c] EXCEPT !.at = "deciding", !.revision = run.revision,
                   !.verdict = verdict]
<1>1. /\ UNCHANGED <<closeout, receipt, remote>>
      /\ cmd[c].at \in {"gates", "closing", "judging", "deciding"}
      /\ \/ Go(c, "closing") \/ Go(c, "judging") \/ Accept(c) \/ Become(c, l)
         \/ Conclude(c, "recording", "refused") \/ Become(c, Idle)
  BY Zenon DEF Gates, Close, Judge, Decide, Refused, stored, git, At
<1>2. DeliveryRowsInv' /\ (Kernel(remote)' <=> Kernel(remote))
  BY <1>1, SameRows DEF DeliverInv
<1>3. /\ cmd[c].commit = cmd[c].sha /\ cmd[c].kind # "closeout"
      /\ cmd[c].sha # NoSha => Kernel(cmd[c].sha)
  BY <1>1 DEF DeliverInv, DeliveryInv
<1>4. CASE Go(c, "closing") \/ Go(c, "judging")
  BY <1>2, <1>3, <1>4, GoDeliver, Constants
<1>5. CASE Accept(c)
  BY <1>2, <1>3, <1>5, AcceptDeliver
<1>6. CASE Become(c, l)
  <2>1. /\ l.at = "deciding" /\ l.kind = cmd[c].kind /\ l.prior = cmd[c].prior
        /\ l.sha = cmd[c].sha /\ l.commit = cmd[c].commit /\ l.outcome = cmd[c].outcome
    BY DEF TypeInv, LocalsOK, Locals
  <2> HIDE DEF l
  <2>2. cmd'[c] = l
    BY <1>6 DEF Become, TypeInv, LocalsOK
  <2> QED
    BY <1>2, <1>3, <2>1, <2>2 DEF DeliverInv, DeliveryInv, Kernel, ByKernel
<1>7. CASE Conclude(c, "recording", "refused")
  <2>1. /\ Reset(c)' /\ cmd'[c].at = "recording" /\ cmd'[c].sha = cmd[c].sha
        /\ cmd'[c].outcome = "refused" /\ cmd'[c].kind = cmd[c].kind
    BY <1>7, ConcludeTyped, Constants DEF TypeInv
  <2> QED
    BY <1>2, <1>3, <2>1 DEF DeliveryInv, Reset, Kernel, ByKernel
<1>8. CASE Become(c, Idle)
  <2>1. /\ Reset(c)' /\ cmd'[c].at = "idle" /\ cmd'[c].sha = NoSha
        /\ cmd'[c].outcome = "skipped" /\ cmd'[c].kind = "finalize"
    BY <1>8, FieldsOfIdle DEF TypeInv
  <2> QED
    BY <1>2, <2>1 DEF DeliveryInv, Reset
<1> QED
  BY <1>1, <1>2, <1>4, <1>5, <1>6, <1>7, <1>8

LEMMA AdmitDeliver ==
  ASSUME TypeInv, DeliverInv, NEW c \in Command, Admit(c)
  PROVE  DeliveryRowsInv' /\ DeliveryInv(c)'
<1>1. /\ UNCHANGED <<closeout, receipt, remote>> /\ cmd[c].at = "admitting"
      /\ \/ EndCloseout(c, "failed")
         \/ Recovered(c) /\ EndCloseout(c, "completed")
         \/ Go(c, "reconciling")
  BY Zenon DEF Admit, stored, git, At
<1>2. DeliveryRowsInv' /\ (Kernel(remote)' <=> Kernel(remote))
  BY <1>1, SameRows DEF DeliverInv
<1>3. /\ cmd[c].commit = cmd[c].sha /\ cmd[c].kind # "closeout"
      /\ Recovered(c) => Kernel(remote)
  BY <1>1 DEF DeliverInv, DeliveryInv, Recovered
<1>4. CASE EndCloseout(c, "failed")
  BY <1>2, <1>3, <1>4, EndDeliver
<1>5. CASE Recovered(c) /\ EndCloseout(c, "completed")
  BY <1>2, <1>3, <1>5, EndDeliver
<1>6. CASE Go(c, "reconciling")
  BY <1>2, <1>3, <1>6, GoDeliver, Constants
<1> QED
  BY <1>1, <1>4, <1>5, <1>6

LEMMA ReconcileDeliver ==
  ASSUME TypeInv, DeliverInv, NEW c \in Command, Reconcile(c)
  PROVE  DeliveryRowsInv' /\ DeliveryInv(c)'
<1> DEFINE l == [cmd[c] EXCEPT !.seen = own,
                   !.at = IF cmd[c].kind = "closeout" THEN "pushing" ELSE "inspecting"]
<1>1. /\ UNCHANGED <<receipt, remote>> /\ cmd[c].at = "reconciling"
      /\ \/ Become(c, l) /\ UNCHANGED closeout
         \/ /\ EndCloseout(c, "failed")
            /\ closeout' = [status |-> "stale", sha |-> cmd[c].sha, key |-> FALSE]
  BY Zenon DEF Reconcile, git, At
<1>2. DeliveryInv(c) /\ (Kernel(remote)' <=> Kernel(remote))
  BY <1>1 DEF DeliverInv, Kernel, ByKernel
<1>3. CASE Become(c, l) /\ UNCHANGED closeout
  <2>1. DeliveryRowsInv'
    BY <1>1, <1>3, SameRows DEF DeliverInv
  <2>2. /\ l.at = IF cmd[c].kind = "closeout" THEN "pushing" ELSE "inspecting"
        /\ l.kind = cmd[c].kind /\ l.prior = cmd[c].prior /\ l.sha = cmd[c].sha
        /\ l.commit = cmd[c].commit /\ l.outcome = cmd[c].outcome
    BY DEF TypeInv, LocalsOK, Locals
  <2> HIDE DEF l
  <2>3. cmd'[c] = l
    BY <1>3 DEF Become, TypeInv, LocalsOK
  <2>4. DeliveryInv(c)'
    BY <1>1, <1>2, <2>2, <2>3 DEF DeliveryInv, Kernel, ByKernel
  <2> QED
    BY <2>1, <2>4
<1>4. CASE /\ EndCloseout(c, "failed")
           /\ closeout' = [status |-> "stale", sha |-> cmd[c].sha, key |-> FALSE]
  <2>1. DeliveryRowsInv'
    BY <1>1, <1>2, <1>4 DEF DeliverInv, DeliveryRowsInv, DeliveryInv, Delivering, Kernel, ByKernel
  <2> QED
    BY <1>4, <2>1, EndDeliver
<1> QED
  BY <1>1, <1>3, <1>4

LEMMA InspectDeliver ==
  ASSUME TypeInv, DeliverInv, NEW c \in Command, Inspect(c)
  PROVE  DeliveryRowsInv' /\ DeliveryInv(c)'
<1> DEFINE l == [cmd[c] EXCEPT !.at = "staging", !.expected = head]
<1>1. /\ UNCHANGED <<receipt, remote>> /\ cmd[c].at = "inspecting"
      /\ \/ EndCloseout(c, "failed") /\ UNCHANGED closeout
         \/ cmd[c].sha # NoSha /\ Go(c, "pushing") /\ UNCHANGED closeout
         \/ EndCloseout(c, "skipped") /\ closeout' = [NoCloseout EXCEPT !.status = "skipped"]
         \/ Become(c, l) /\ UNCHANGED closeout
  BY Zenon DEF Inspect, git, At
<1>2. DeliveryInv(c) /\ (Kernel(remote)' <=> Kernel(remote))
  BY <1>1 DEF DeliverInv, Kernel, ByKernel
<1>3. ASSUME UNCHANGED closeout
      PROVE  DeliveryRowsInv'
  BY <1>1, <1>3, SameRows DEF DeliverInv
<1>4. CASE EndCloseout(c, "failed") /\ UNCHANGED closeout
  BY <1>3, <1>4, EndDeliver
<1>5. CASE cmd[c].sha # NoSha /\ Go(c, "pushing") /\ UNCHANGED closeout
  <2>1. Kernel(cmd[c].commit)
    BY <1>1, <1>2, <1>5 DEF DeliveryInv
  <2> QED
    BY <1>2, <1>3, <1>5, <2>1, GoDeliver, Constants
<1>6. CASE EndCloseout(c, "skipped") /\ closeout' = [NoCloseout EXCEPT !.status = "skipped"]
  <2>1. closeout'.status = "skipped" /\ closeout'.sha = NoSha
    BY <1>6 DEF NoCloseout
  <2>2. DeliveryRowsInv'
    BY <1>1, <2>1 DEF DeliverInv, DeliveryRowsInv, Delivering, Kernel, ByKernel
  <2> QED
    BY <1>6, <2>2, EndDeliver
<1>7. CASE Become(c, l) /\ UNCHANGED closeout
  <2>1. /\ l.at = "staging" /\ l.prior = cmd[c].prior /\ l.sha = cmd[c].sha
        /\ l.outcome = cmd[c].outcome /\ l.kind = cmd[c].kind
    BY DEF TypeInv, LocalsOK, Locals
  <2> HIDE DEF l
  <2>2. cmd'[c] = l
    BY <1>7 DEF Become, TypeInv, LocalsOK
  <2> QED
    BY <1>1, <1>2, <1>3, <1>7, <2>1, <2>2 DEF DeliveryInv, Kernel, ByKernel
<1> QED
  BY <1>1, <1>4, <1>5, <1>6, <1>7

LEMMA CommitDeliver ==
  ASSUME TypeInv, DeliverInv, NEW c \in Command, Stage(c) \/ GitFails(c) \/ Commit(c)
  PROVE  DeliveryRowsInv' /\ DeliveryInv(c)'
<1>1. /\ UNCHANGED <<closeout, receipt, remote>>
      /\ cmd[c].at \in {"staging", "committing"}
  BY Zenon DEF Stage, GitFails, Commit, stored, git, At
<1>2. DeliveryRowsInv' /\ (Kernel(remote)' <=> Kernel(remote)) /\ DeliveryInv(c)
  BY <1>1, SameRows DEF DeliverInv
<1>3. CASE EndCloseout(c, "failed")
  BY <1>2, <1>3, EndDeliver
<1>4. CASE Stage(c)
  <2> DEFINE l == [cmd[c] EXCEPT !.at = "committing", !.staged = own]
  <2>1. /\ l.at = "committing" /\ l.prior = cmd[c].prior /\ l.sha = cmd[c].sha
        /\ l.outcome = cmd[c].outcome /\ l.kind = cmd[c].kind
    BY DEF TypeInv, LocalsOK, Locals
  <2>2. Become(c, l)
    BY <1>4, Zenon DEF Stage
  <2> HIDE DEF l
  <2>3. cmd'[c] = l
    BY <2>2 DEF Become, TypeInv, LocalsOK
  <2> QED
    BY <1>1, <1>2, <2>1, <2>3 DEF DeliveryInv, Kernel, ByKernel
<1>5. CASE Commit(c) /\ ~EndCloseout(c, "failed")
  <2> DEFINE e == [by |-> "kernel", content |-> cmd[c].staged]
             sha == Append(cmd[c].expected, e)
             l == [cmd[c] EXCEPT !.at = "committed", !.commit = sha]
  <2>1. e \in Commits /\ e.by = "kernel" /\ cmd[c].expected \in Shas
    BY DEF Commits, TypeInv, LocalsOK, Locals
  <2>2. Kernel(sha)
    BY <2>1, Branches DEF Kernel
  <2>3. /\ l.at = "committed" /\ l.prior = cmd[c].prior /\ l.sha = cmd[c].sha
        /\ l.commit = sha /\ l.outcome = cmd[c].outcome /\ l.kind = cmd[c].kind
    BY DEF TypeInv, LocalsOK, Locals
  <2>4. Become(c, l)
    BY <1>5, Zenon DEF Commit
  <2> HIDE DEF l
  <2>5. cmd'[c] = l
    BY <2>4 DEF Become, TypeInv, LocalsOK
  <2> HIDE DEF sha
  <2> QED
    BY <1>1, <1>2, <2>2, <2>3, <2>5 DEF DeliveryInv, Kernel, ByKernel
<1>6. GitFails(c) => EndCloseout(c, "failed")
  BY Zenon DEF GitFails
<1> QED
  BY <1>3, <1>4, <1>5, <1>6

LEMMA PushDeliver ==
  ASSUME TypeInv, DeliverInv, NEW c \in Command,
         RecordCommit(c) \/ PushSucceeds(c) \/ PushFails(c) \/ RecordPushed(c)
  PROVE  /\ DeliveryRowsInv' /\ DeliveryInv(c)'
         /\ Kernel(remote) => Kernel(remote)'
<1>1. cmd[c].at \in {"committed", "pushing", "pushed"} /\ UNCHANGED receipt
  BY Zenon DEF RecordCommit, PushSucceeds, PushFails, RecordPushed, stored, At
<1>2. /\ DeliveryInv(c) /\ DeliveryRowsInv
      /\ Kernel(cmd[c].commit) /\ cmd[c].commit # NoSha
  BY <1>1, Branches DEF DeliverInv, DeliveryInv, Kernel
<1>3. ASSUME closeout'.sha = cmd[c].commit, closeout'.status # "completed" \/ Kernel(remote)'
      PROVE  DeliveryRowsInv'
  BY <1>1, <1>2, <1>3 DEF DeliveryRowsInv, Kernel, ByKernel
<1>4. CASE RecordCommit(c)
  <2>1. /\ closeout'.sha = cmd[c].commit /\ closeout'.status = "commit_created"
        /\ Go(c, "pushing") /\ UNCHANGED remote
    BY <1>4 DEF RecordCommit, git
  <2>2. Kernel(remote)' <=> Kernel(remote)
    BY <2>1 DEF Kernel, ByKernel
  <2> QED
    BY <1>2, <1>3, <2>1, <2>2, GoDeliver, Constants
<1>5. CASE PushSucceeds(c)
  <2>1. remote' = cmd[c].commit /\ Go(c, "pushed") /\ UNCHANGED closeout
    BY <1>5 DEF PushSucceeds, stored
  <2>2. Kernel(remote)'
    BY <1>2, <2>1 DEF Kernel, ByKernel
  <2>3. DeliveryRowsInv'
    BY <1>1, <1>2, <2>1, <2>2 DEF DeliveryRowsInv, Kernel, ByKernel
  <2> QED
    BY <1>2, <2>1, <2>2, <2>3, GoDeliver, Constants
<1>6. CASE PushFails(c)
  <2>1. /\ EndCloseout(c, "failed")
        /\ remote' \in {remote, cmd[c].commit}
        /\ \/ UNCHANGED closeout
           \/ closeout'.sha = cmd[c].commit /\ closeout'.status = "undelivered"
    BY <1>6 DEF PushFails
  <2>2. Kernel(remote) => Kernel(remote)'
    BY <1>2, <2>1 DEF Kernel, ByKernel
  <2>3. DeliveryRowsInv'
    BY <1>1, <1>2, <1>3, <2>1, <2>2 DEF DeliveryRowsInv, Kernel, ByKernel
  <2> QED
    BY <2>1, <2>2, <2>3, EndDeliver
<1>7. CASE RecordPushed(c)
  <2>1. /\ EndCloseout(c, "completed") /\ UNCHANGED remote
        /\ closeout'.sha = cmd[c].commit
        /\ cmd[c].at = "pushed"
    BY <1>7 DEF RecordPushed, git, At
  <2>2. Kernel(remote) /\ Kernel(remote)'
    BY <1>2, <2>1 DEF DeliveryInv, Kernel, ByKernel
  <2> QED
    BY <1>3, <2>1, <2>2, EndDeliver
<1> QED
  BY <1>4, <1>5, <1>6, <1>7

LEMMA EndingDeliver ==
  ASSUME TypeInv, DeliverInv, NEW c \in Command,
         Learn(c) \/ Defer(c) \/ Record(c) \/ Settle(c) \/ Crash(c)
  PROVE  DeliveryRowsInv' /\ DeliveryInv(c)'
<1>1. /\ UNCHANGED <<closeout, remote>>
      /\ receipt' = receipt \/ receipt'.sha \in {NoSha, cmd[c].sha}
  BY DEF Learn, Defer, Record, Settle, Crash, stored, git, NoReceipt
<1>2. DeliveryRowsInv /\ DeliveryInv(c) /\ (Kernel(remote)' <=> Kernel(remote))
  BY <1>1 DEF DeliverInv, Kernel, ByKernel
<1>3. DeliveryRowsInv'
  BY <1>1, <1>2 DEF DeliveryRowsInv, DeliveryInv, Kernel, ByKernel
<1>4. CASE Learn(c)
  <2>1. cmd[c].at = "learning"
    BY <1>4 DEF Learn, At
  <2> QED
    BY <1>2, <1>3, <1>4, <2>1, FieldsOfLearn DEF DeliveryInv, Kernel, ByKernel
<1>5. CASE Defer(c) \/ Record(c)
  <2>1. cmd[c].at \in {"learning", "recording"} /\ (Go(c, "recording") \/ Go(c, "settling"))
    BY <1>5, Zenon DEF Defer, Record, At
  <2>2. cmd[c].kind # "closeout"
    BY <1>2, <2>1 DEF DeliveryInv
  <2> QED
    BY <1>2, <1>3, <2>1, <2>2, GoDeliver, Constants
<1>6. CASE Become(c, Idle)
  BY <1>3, <1>6, FieldsOfIdle DEF TypeInv, Reset, DeliveryInv
<1> QED
  BY <1>4, <1>5, <1>6, Zenon DEF Settle, Crash

(* Only a push changes the branch at origin, and into the local branch.        *)
LEMMA OriginStep ==
  ASSUME [Next]_vars
  PROVE  \/ UNCHANGED remote
         \/ /\ remote' = head /\ UNCHANGED head
            /\ \E c \in Command : PushSucceeds(c) \/ PushFails(c)
<1>1. ASSUME NEW c \in Command, PushSucceeds(c) \/ PushFails(c)
      PROVE  UNCHANGED remote \/ (remote' = head /\ UNCHANGED head)
  BY <1>1 DEF PushSucceeds, PushFails
<1>2. CASE \E c \in Command :
             \/ Entry(c) \/ Begin(c) \/ Gates(c) \/ Close(c) \/ Judge(c) \/ Decide(c) \/ Admit(c)
             \/ Reconcile(c) \/ Inspect(c) \/ Stage(c) \/ GitFails(c) \/ Commit(c)
             \/ RecordCommit(c) \/ RecordPushed(c) \/ Learn(c) \/ Defer(c) \/ Record(c)
             \/ Settle(c) \/ Crash(c)
  <2>1. ASSUME NEW c \in Command, Entry(c) PROVE UNCHANGED remote
    BY <2>1, Zenon DEF Entry, Report, ResentReport, FinalizeAgain, OperatorFinalizes,
       RetryCloseout, git
  <2>2. ASSUME NEW c \in Command,
               Begin(c) \/ Gates(c) \/ Close(c) \/ Judge(c) \/ Decide(c) \/ Admit(c) \/ Reconcile(c)
        PROVE  UNCHANGED remote
    BY <2>2, Zenon DEF Begin, Gates, Close, Judge, Decide, Admit, Reconcile, git
  <2>3. ASSUME NEW c \in Command, \/ Inspect(c) \/ Stage(c) \/ GitFails(c) \/ Commit(c)
                                   \/ RecordCommit(c) \/ RecordPushed(c)
        PROVE  UNCHANGED remote
    BY <2>3, Zenon DEF Inspect, Stage, GitFails, Commit, RecordCommit, RecordPushed, git
  <2>4. ASSUME NEW c \in Command, Learn(c) \/ Defer(c) \/ Record(c) \/ Settle(c) \/ Crash(c)
        PROVE  UNCHANGED remote
    BY <2>4, Zenon DEF Learn, Defer, Record, Settle, Crash, git
  <2> QED
    BY <1>2, <2>1, <2>2, <2>3, <2>4
<1>3. CASE Edit \/ UserCommit \/ UNCHANGED vars
  BY <1>3, Zenon DEF Edit, UserCommit, vars, git
<1> QED
  BY <1>1, <1>2, <1>3 DEF Next, Progress

(* Origin keeps a commit of the Kernel's.                                      *)
LEMMA RemoteStays ==
  ASSUME TypeInv, DeliverInv, [Next]_vars
  PROVE  Kernel(remote) => Kernel(remote)'
<1>1. ASSUME NEW c \in Command, PushSucceeds(c) \/ PushFails(c)
      PROVE  Kernel(remote) => Kernel(remote)'
  BY <1>1, PushDeliver
<1>2. CASE UNCHANGED remote
  BY <1>2 DEF Kernel, ByKernel
<1> QED
  BY <1>1, <1>2, OriginStep

LEMMA DeliverStep == TypeInv /\ DeliverInv /\ [Next]_vars => DeliverInv'
<1> SUFFICES ASSUME TypeInv, DeliverInv, [Next]_vars
             PROVE  DeliverInv'
  OBVIOUS
<1>1. ASSUME NEW c \in Command, Entry(c) \/ Progress(c) \/ Crash(c)
      PROVE  DeliverInv'
  <2>1. DeliveryRowsInv' /\ DeliveryInv(c)'
    BY <1>1, EntryDeliver, BeginDeliver, GatingDeliver, AdmitDeliver, ReconcileDeliver,
       InspectDeliver, CommitDeliver, PushDeliver, EndingDeliver DEF Progress
  <2>2. ASSUME NEW d \in Command \ {c}
        PROVE  DeliveryInv(d)'
    <3>1. cmd'[d] = cmd[d]
      BY <1>1, LocalsStep
    <3> QED
      BY <3>1, RemoteStays DEF DeliverInv, DeliveryInv, Kernel, ByKernel
  <2> QED
    BY <2>1, <2>2 DEF DeliverInv
<1>2. CASE Edit \/ UserCommit \/ UNCHANGED vars
  <2>1. UNCHANGED <<closeout, receipt, remote, cmd>>
    BY <1>2, Zenon DEF Edit, UserCommit, vars, stored, git
  <2>2. DeliveryRowsInv' /\ (Kernel(remote)' <=> Kernel(remote))
    BY <2>1, SameRows DEF DeliverInv
  <2>3. ASSUME NEW c \in Command
        PROVE  DeliveryInv(c)'
    BY <2>1, <2>2 DEF DeliverInv, DeliveryInv, Kernel, ByKernel
  <2> QED
    BY <2>2, <2>3 DEF DeliverInv
<1> QED
  BY <1>1, <1>2 DEF Next

(* However commands overlap, fail and die, a closeout that is on record as     *)
(* completed has a commit of the Kernel's at origin.                           *)
RecordedIsDelivered == closeout.status = "completed" => Delivered

(* A receipt of git_closeout_receipts says `completed' only after the push of the *)
(* commit it names, and origin keeps it.                                        *)
THEOREM RecordedIsDeliveredHolds == Spec => []RecordedIsDelivered
<1>1. DeliverInv => RecordedIsDelivered
  BY DEF DeliverInv, DeliveryRowsInv, RecordedIsDelivered, Delivered, Kernel
<1> QED
  BY TypeInit, TypeStep, DeliverInit, DeliverStep, <1>1, PTL DEF Spec

-----------------------------------------------------------------------------
(* A recorded request is delivered before the run is finished.                 *)

AskInv == RequestRowInv /\ \A c \in Command : RequestInv(c)

LEMMA AskInit == Init => AskInv
BY DEF Init, AskInv, RequestRowInv, RequestInv

(* What an action may do to the facts that the request depends on.             *)
LEMMA StaysStale ==
  ASSUME TypeInv, SafeInv, [Next]_vars, ~Fresh, Closed
  PROVE  ~Fresh'
<1>1. CASE UNCHANGED proof
  BY <1>1, RowsStep DEF Fresh, TypeInv, RowsOK, Runs
<1>2. ASSUME NEW c \in Command, NEW request \in Requests, Report(c, request)
      PROVE  UNCHANGED proof
  BY <1>2 DEF Report, Closed
<1>3. ASSUME NEW c \in Command,
             \/ ResentReport(c) \/ RetryCloseout(c)
             \/ \E request \in Requests : FinalizeAgain(c, request) \/ OperatorFinalizes(c, request)
             \/ Progress(c) \/ Crash(c)
      PROVE  UNCHANGED proof
  BY <1>3, Zenon DEF ResentReport, RetryCloseout, FinalizeAgain, OperatorFinalizes, Progress,
     Begin, Gates, Close, Judge, Decide, Admit, Reconcile, Inspect, Stage, GitFails, Commit,
     RecordCommit, PushSucceeds, PushFails, RecordPushed, Learn, Defer, Record, Settle, Crash,
     stored
<1>4. CASE Edit \/ UserCommit \/ UNCHANGED vars
  BY <1>1, <1>4, Zenon DEF Edit, UserCommit, vars, stored
<1> QED
  BY <1>1, <1>2, <1>3, <1>4 DEF Next, Entry

(* A command keeps its request and its kind until it is over.                  *)
LEMMA AskStep ==
  ASSUME Serial
  PROVE  TypeInv /\ Alone /\ SafeInv /\ DeliverInv /\ AskInv /\ [Next]_vars => AskInv'
<1> SUFFICES ASSUME TypeInv, Alone, SafeInv, DeliverInv, AskInv, [Next]_vars
             PROVE  AskInv'
  OBVIOUS
<1> DEFINE Stale == Kernel(remote) \/ ~Fresh
<1>1. asked # "no" => Closed
  BY DEF SafeInv, RunInv
<1>2. (Kernel(remote) => Kernel(remote)') /\ (asked # "no" /\ Stale => Stale')
  BY <1>1, RemoteStays, StaysStale
<1>3. /\ run \in Runs /\ receipt \in Receipts
      /\ \A c \in Command : cmd[c] \in Locals /\ CommandInv(c) /\ DeliveryInv(c) /\ RequestInv(c)
  BY DEF TypeInv, RowsOK, LocalsOK, SafeInv, DeliverInv, AskInv
<1>4. ASSUME asked' = "recorded" => asked = "recorded", UNCHANGED receipt,
             run'.finalization = run.finalization
      PROVE  RequestRowInv'
  BY <1>2, <1>4 DEF AskInv, RequestRowInv
<1>5. ASSUME NEW c \in Command, asked' = "recorded" => asked = "recorded",
             Progress(c) \/ Crash(c), ~Begin(c)
      PROVE  RequestInv(c)'
  <2>1. \/ cmd'[c].at = "idle"
        \/ cmd[c].at \notin {"idle", "begin"} /\ cmd'[c].kind = cmd[c].kind
             /\ cmd'[c].request = cmd[c].request
    <3>1. Idle.at = "idle"
      BY DEF Idle
    <3> QED
      BY <1>5, <3>1, Carried
  <2>2. asked' = "recorded" /\ Stale => Stale'
    BY <1>2, <1>5
  <2>3. RequestInv(c)
    BY <1>3
  <2> QED
    BY <1>2, <1>5, <2>1, <2>2, <2>3 DEF RequestInv
<1>6. ASSUME NEW c \in Command, Entry(c) \/ Progress(c) \/ Crash(c),
             RequestRowInv' /\ RequestInv(c)'
      PROVE  AskInv'
  <2>1. \A d \in Command \ {c} : RequestInv(d)'
    BY <1>6, OthersRest, IdleKeeps
  <2> QED
    BY <1>6, <2>1 DEF AskInv
<1>7. ASSUME NEW c \in Command, Entry(c)
      PROVE  AskInv'
  <2>1. UNCHANGED <<asked, receipt>>
    BY <1>7, Zenon DEF Entry, Report, ResentReport, FinalizeAgain, OperatorFinalizes,
       RetryCloseout, stored
  <2>2. run'.finalization = run.finalization
    <3>1. ASSUME NEW request \in Requests, Report(c, request)
          PROVE  run'.finalization = run.finalization
      <4> DEFINE q == [run EXCEPT !.status = "active"]
      <4>1. q \in Runs /\ q.finalization = run.finalization
        BY <1>3 DEF Runs, Statuses
      <4>2. run' = Observed(q)
        BY <3>1, Zenon DEF Report
      <4> HIDE DEF q
      <4> QED
        BY <4>1, <4>2, ObservedTyped
    <3>2. ASSUME \/ ResentReport(c) \/ RetryCloseout(c)
                 \/ \E request \in Requests : FinalizeAgain(c, request) \/ OperatorFinalizes(c, request)
          PROVE  UNCHANGED run
      BY <3>2, Zenon DEF ResentReport, FinalizeAgain, OperatorFinalizes, RetryCloseout, stored
    <3> QED
      BY <1>7, <3>1, <3>2 DEF Entry
  <2>3. cmd'[c].at \in {"idle", "begin"} \/ cmd'[c].kind = "closeout"
    <3>1. ASSUME NEW k \in Kinds, NEW r \in Requests, Enter(c, k, r)
          PROVE  cmd'[c].at = "begin"
      BY <3>1, FieldsOfEnter DEF TypeInv
    <3>2. CASE RetryCloseout(c)
      <4> DEFINE l == [Idle EXCEPT !.at = "reconciling", !.kind = "closeout",
                         !.prior = closeout, !.sha = closeout.sha, !.commit = closeout.sha]
      <4>1. l.kind = "closeout"
        BY IdleTyped DEF Locals
      <4>2. Become(c, l)
        BY <3>2, Zenon DEF RetryCloseout
      <4> HIDE DEF l
      <4> QED
        BY <4>1, <4>2 DEF Become, TypeInv, LocalsOK
    <3>3. \/ UNCHANGED cmd /\ cmd[c].at = "idle"
          \/ \E k \in Kinds, r \in Requests : Enter(c, k, r)
          \/ RetryCloseout(c)
      BY <1>7, Constants DEF Entry, Report, ResentReport, FinalizeAgain, OperatorFinalizes,
         TypeInv, RowsOK, At
    <3> QED
      BY <3>1, <3>2, <3>3
  <2> QED
    BY <1>4, <1>6, <1>7, <2>1, <2>2, <2>3 DEF RequestInv
<1>8. ASSUME NEW c \in Command, Begin(c)
      PROVE  AskInv'
  <2> DEFINE l == [cmd[c] EXCEPT !.at = "gates", !.prior = closeout,
                     !.request = Requested(cmd[c].request), !.chosen = PathsChosen,
                     !.sha = ExistingSha(cmd[c].request),
                     !.commit = ExistingSha(cmd[c].request),
                     !.status = run.status, !.state = run.state]
  <2>1. l.request = Requested(cmd[c].request)
    BY <1>3 DEF Locals
  <2>2. Become(c, l) /\ UNCHANGED <<asked, receipt>> /\ run' = Refreshed(closeout)
    BY <1>8, Zenon DEF Begin
  <2> HIDE DEF l
  <2>3. cmd'[c].request = IF cmd[c].request = "none" THEN receipt.request ELSE cmd[c].request
    BY <2>1, <2>2 DEF Become, TypeInv, LocalsOK, Requested
  <2>4. run'.finalization = run.finalization
    BY <1>3, <2>2, ObservedTyped DEF Refreshed
  <2>5. RequestInv(c)'
    BY <1>2, <2>2, <2>3 DEF AskInv, RequestRowInv, RequestInv
  <2> QED
    BY <1>4, <1>6, <1>8, <2>2, <2>4, <2>5 DEF Progress
<1>9. ASSUME NEW c \in Command, Record(c)
      PROVE  AskInv'
  <2>1. /\ cmd[c].at = "recording" /\ UNCHANGED run
        /\ receipt' = IF cmd[c].outcome = "refused" THEN NoReceipt
                      ELSE [request |-> cmd[c].request, chosen |-> cmd[c].chosen,
                            sha |-> cmd[c].sha]
        /\ asked' = IF Asks(c) /\ cmd[c].outcome # "refused" THEN "recorded" ELSE asked
        /\ Go(c, "settling")
    BY <1>9 DEF Record, At
  <2>2. cmd'[c].request = cmd[c].request /\ cmd'[c].kind = cmd[c].kind
    BY <2>1, FieldsOfGo, Constants DEF TypeInv
  <2>3. cmd[c].outcome = "refused" => (asked = "recorded" => ~Fresh)
    BY <1>1, <1>3, <2>1 DEF CommandInv
  <2>4. cmd[c].outcome # "refused" => receipt'.request = cmd[c].request
    BY <2>1
  <2>5. Asks(c) => cmd[c].request # "none" /\ run.finalization # "completed"
    BY DEF Asks
  <2>6. cmd[c].kind # "closeout"
    BY <1>3, <2>1 DEF CommandInv
  <2>7. RequestInv(c)'
    BY <1>2, <1>3, <2>1, <2>2, <2>5, <2>6 DEF RequestInv
  <2>8. RequestRowInv'
    BY <1>2, <1>3, <2>1, <2>3, <2>4, <2>5, <2>6 DEF AskInv, RequestRowInv, RequestInv
  <2> QED
    BY <1>6, <1>9, <2>7, <2>8 DEF Progress
<1>10. ASSUME NEW c \in Command, Settle(c)
       PROVE  AskInv'
  <2>1. /\ cmd[c].at = "settling" /\ UNCHANGED <<asked, receipt>>
        /\ run' = [run EXCEPT !.finalization =
             IF cmd[c].outcome = "refused" THEN "blocked"
             ELSE IF Unfinished(c) THEN "partial" ELSE "completed"]
        /\ Become(c, Idle)
    BY <1>10 DEF Settle, At
  <2>2. cmd[c].kind # "closeout"
    BY <1>3, <2>1 DEF CommandInv
  <2>3. run'.finalization = "completed" => cmd[c].outcome # "refused" /\ ~Unfinished(c)
    BY <1>3, <2>1 DEF Runs
  <2>4. ASSUME run'.finalization = "completed", asked = "recorded"
        PROVE  Kernel(remote)
    <3>1. CASE cmd[c].outcome = "completed"
      BY <1>3, <3>1 DEF DeliveryInv
    <3>2. CASE cmd[c].outcome # "completed"
      <4>1. cmd[c].outcome = "skipped" /\ cmd[c].request = "none"
        BY <1>3, <2>3, <2>4, <3>2 DEF Unfinished, Locals, Outcomes
      <4>2. Fresh
        BY <1>3, <2>1, <4>1 DEF CommandInv
      <4> QED
        BY <1>3, <2>1, <2>2, <2>4, <4>1, <4>2 DEF RequestInv
    <3> QED
      BY <3>1, <3>2
  <2>5. RequestRowInv'
    BY <1>2, <2>1, <2>4 DEF AskInv, RequestRowInv
  <2>6. RequestInv(c)'
    BY <2>1, FieldsOfIdle DEF TypeInv, RequestInv
  <2> QED
    BY <1>6, <1>10, <2>5, <2>6 DEF Progress
<1>11. ASSUME NEW c \in Command, Progress(c) \/ Crash(c), ~Begin(c), ~Record(c), ~Settle(c)
       PROVE  AskInv'
  <2>1. UNCHANGED receipt /\ run'.finalization = run.finalization
    <3>1. CASE Close(c) \/ Decide(c) \/ Reconcile(c)
      <4>1. /\ UNCHANGED receipt
            /\ \/ UNCHANGED run \/ run' = Observed(run)
               \/ run' = [run EXCEPT !.state = "CLOSE"]
               \/ run' = [run EXCEPT !.status = "completed"]
               \/ run' = [run EXCEPT !.status = "blocked"]
        BY <3>1, Zenon DEF Close, Decide, Reconcile
      <4> QED
        BY <1>3, <4>1, ObservedTyped DEF Runs
    <3>2. CASE ~(Close(c) \/ Decide(c) \/ Reconcile(c))
      <4>1. UNCHANGED <<run, receipt>>
        BY <1>11, <3>2, Zenon DEF Progress, Gates, Judge, Admit, Inspect, Stage, GitFails,
           Commit, RecordCommit, PushSucceeds, PushFails, RecordPushed, Learn, Defer, Crash,
           stored
      <4> QED
        BY <4>1
    <3> QED
      BY <3>1, <3>2
  <2>2. asked' = "recorded" => asked = "recorded"
    BY <1>11 DEF Progress, Gates, Close, Judge, Decide, Accept, Admit, Reconcile, Inspect,
       Stage, GitFails, Commit, RecordCommit, PushSucceeds, PushFails, RecordPushed, Learn,
       Defer, Crash
  <2> QED
    BY <1>4, <1>5, <1>6, <1>11, <2>1, <2>2
<1>12. CASE Edit \/ UserCommit \/ UNCHANGED vars
  <2>1. UNCHANGED <<run, receipt, asked, cmd>>
    BY <1>12, Zenon DEF Edit, UserCommit, vars, stored
  <2>2. RequestRowInv'
    BY <1>4, <2>1
  <2>3. ASSUME NEW c \in Command
        PROVE  RequestInv(c)'
    BY <1>2, <1>3, <2>1 DEF RequestInv
  <2> QED
    BY <2>2, <2>3 DEF AskInv
<1> QED
  BY <1>7, <1>8, <1>9, <1>10, <1>11, <1>12 DEF Next, Progress

(* Whatever fails, crashes or is repeated, a run with a recorded closeout       *)
(* request is not finished before the commit is at origin.                      *)
THEOREM FinishedDelivered ==
  ASSUME Serial
  PROVE  Spec => []FinishedIsDelivered
<1>1. AskInv => FinishedIsDelivered
  BY DEF AskInv, RequestRowInv, FinishedIsDelivered, Delivered, Kernel
<1> QED
  BY TypeInit, TypeStep, AloneInit, AloneStep, SafeInit, SafeStep, DeliverInit, DeliverStep,
     AskInit, AskStep, <1>1, PTL DEF Spec

-----------------------------------------------------------------------------
(* Commands that overlap.  Nothing below asks for one command at a time.       *)

(* Only Inspect leads to staging, only Stage to the commit, and only an         *)
(* update-ref that finds the expected branch past it.                          *)
LEMMA IntoCommit ==
  ASSUME TypeInv, NEW c \in Command, Entry(c) \/ Progress(c) \/ Crash(c)
  PROVE  /\ cmd'[c].at = "staging" => cmd[c].at = "inspecting" /\ cmd'[c].expected = head
         /\ cmd'[c].at = "committing" =>
              /\ cmd[c].at = "staging" /\ cmd'[c].expected = cmd[c].expected
              /\ cmd'[c].staged = own
         /\ cmd'[c].at = "committed" =>
              cmd[c].at = "committing" /\ cmd[c].expected = head
<1> DEFINE Result == cmd'[c].at \notin {"staging", "committing", "committed"}
<1>1. LocalsOK /\ cmd[c] \in Locals
  BY DEF TypeInv, LocalsOK
<1>2. ASSUME NEW l, Become(c, l)
      PROVE  cmd'[c] = l
  BY <1>1, <1>2 DEF Become, LocalsOK
<1>3. ASSUME NEW place \in Places \ {"staging", "committing", "committed"}, Go(c, place)
      PROVE  Result
  BY <1>1, <1>3, FieldsOfGo
<1>4. ASSUME NEW place \in {"learning", "recording"}, NEW outcome \in Outcomes,
             Conclude(c, place, outcome)
      PROVE  Result
  BY <1>1, <1>4, ConcludeTyped, Constants
<1>5. ASSUME NEW outcome \in Outcomes, EndCloseout(c, outcome)
      PROVE  Result
  BY <1>1, <1>5, FieldsOfEndCloseout
<1>6. ASSUME Become(c, Idle)
      PROVE  Result
  BY <1>1, <1>6, FieldsOfIdle
<1>7. CASE Entry(c)
  <2>1. ASSUME NEW k \in Kinds, NEW r \in Requests, Enter(c, k, r)
        PROVE  Result
    BY <1>1, <2>1, FieldsOfEnter
  <2>2. CASE RetryCloseout(c)
    <3> DEFINE l == [Idle EXCEPT !.at = "reconciling", !.kind = "closeout",
                       !.prior = closeout, !.sha = closeout.sha, !.commit = closeout.sha]
    <3>1. l.at = "reconciling"
      BY IdleTyped DEF Locals
    <3>2. Become(c, l)
      BY <2>2, Zenon DEF RetryCloseout
    <3> HIDE DEF l
    <3> QED
      BY <1>2, <3>1, <3>2
  <2>3. \/ UNCHANGED cmd /\ cmd[c].at = "idle"
        \/ \E k \in Kinds, r \in Requests : Enter(c, k, r)
        \/ RetryCloseout(c)
    BY <1>7, Constants DEF Entry, Report, ResentReport, FinalizeAgain, OperatorFinalizes,
       TypeInv, RowsOK, At
  <2> QED
    BY <2>1, <2>2, <2>3
<1>8. ASSUME Accept(c)
      PROVE  Result
  <2> DEFINE l == [cmd[c] EXCEPT !.at = "admitting", !.status = "completed",
                     !.state = "CLOSE", !.verdict = "accepted", !.revision = 0]
  <2>1. l.at = "admitting"
    BY <1>1 DEF Locals
  <2>2. Conclude(c, "learning", "skipped") \/ Become(c, l)
    BY <1>8, Zenon DEF Accept
  <2> HIDE DEF l
  <2> QED
    BY <1>2, <1>4, <2>1, <2>2, Constants
<1>9. CASE Gates(c) \/ Close(c)
  <2>1. \/ Go(c, "closing") \/ Go(c, "judging") \/ Conclude(c, "recording", "refused")
        \/ Become(c, Idle)
    BY <1>9, Zenon DEF Gates, Close, Refused
  <2> QED
    BY <1>3, <1>4, <1>6, <2>1, Constants
<1>10. CASE Judge(c) \/ Decide(c)
  <2> DEFINE verdict == IF run.state = "CLOSE" /\ Fresh THEN "accepted" ELSE "blocked"
             l == [cmd[c] EXCEPT !.at = "deciding", !.revision = run.revision,
                     !.verdict = verdict]
  <2>1. l.at = "deciding"
    BY <1>1 DEF Locals
  <2>2. Accept(c) \/ Become(c, l) \/ Conclude(c, "recording", "refused")
    BY <1>10, Zenon DEF Judge, Decide, Refused
  <2> HIDE DEF l
  <2> QED
    BY <1>2, <1>4, <1>8, <2>1, <2>2, Constants
<1>11. CASE Reconcile(c)
  <2> DEFINE l == [cmd[c] EXCEPT !.seen = own,
                     !.at = IF cmd[c].kind = "closeout" THEN "pushing" ELSE "inspecting"]
  <2>1. l.at \in {"pushing", "inspecting"}
    BY <1>1 DEF Locals
  <2>2. EndCloseout(c, "failed") \/ Become(c, l)
    BY <1>11, Zenon DEF Reconcile
  <2> HIDE DEF l
  <2> QED
    BY <1>2, <1>5, <2>1, <2>2, Constants
<1>12. CASE Inspect(c)
  <2> DEFINE l == [cmd[c] EXCEPT !.at = "staging", !.expected = head]
  <2>1. l.at = "staging" /\ l.expected = head
    BY <1>1 DEF Locals
  <2>2. \/ EndCloseout(c, "failed") \/ EndCloseout(c, "skipped") \/ Go(c, "pushing")
        \/ Become(c, l)
    BY <1>12, Zenon DEF Inspect
  <2>3. cmd[c].at = "inspecting"
    BY <1>12 DEF Inspect, At
  <2> HIDE DEF l
  <2> QED
    BY <1>2, <1>3, <1>5, <2>1, <2>2, <2>3, Constants
<1>13. CASE Stage(c)
  <2> DEFINE l == [cmd[c] EXCEPT !.at = "committing", !.staged = own]
  <2>1. l.at = "committing" /\ l.expected = cmd[c].expected /\ l.staged = own
    BY <1>1 DEF Locals
  <2>2. Become(c, l) /\ cmd[c].at = "staging"
    BY <1>13, Zenon DEF Stage, At
  <2> HIDE DEF l
  <2> QED
    BY <1>2, <2>1, <2>2
<1>14. CASE Commit(c)
  <2> DEFINE sha == Append(cmd[c].expected, [by |-> "kernel", content |-> cmd[c].staged])
             l == [cmd[c] EXCEPT !.at = "committed", !.commit = sha]
  <2>1. l.at = "committed"
    BY <1>1 DEF Locals
  <2>2. EndCloseout(c, "failed") \/ (Become(c, l) /\ cmd[c].expected = head)
    BY <1>14 DEF Commit, NoConflict
  <2>3. cmd[c].at = "committing"
    BY <1>14 DEF Commit, At
  <2> HIDE DEF l
  <2> QED
    BY <1>2, <1>5, <2>1, <2>2, <2>3, Constants
<1>15. CASE Admit(c) \/ GitFails(c) \/ RecordCommit(c) \/ PushSucceeds(c) \/ PushFails(c)
            \/ RecordPushed(c) \/ Defer(c) \/ Record(c) \/ Settle(c) \/ Crash(c)
  <2>1. \/ EndCloseout(c, "failed") \/ EndCloseout(c, "completed") \/ Go(c, "reconciling")
        \/ Go(c, "pushing") \/ Go(c, "pushed") \/ Go(c, "recording") \/ Go(c, "settling")
        \/ Become(c, Idle)
    BY <1>15, Zenon DEF Admit, GitFails, RecordCommit, PushSucceeds, PushFails, RecordPushed,
       Defer, Record, Settle, Crash
  <2> QED
    BY <1>3, <1>5, <1>6, <2>1, Constants
<1>16. CASE Learn(c)
  BY <1>1, <1>16, FieldsOfLearn
<1>17. CASE Begin(c)
  <2> DEFINE l == [cmd[c] EXCEPT !.at = "gates", !.prior = closeout,
                     !.request = Requested(cmd[c].request), !.chosen = PathsChosen,
                     !.sha = ExistingSha(cmd[c].request),
                     !.commit = ExistingSha(cmd[c].request),
                     !.status = run.status, !.state = run.state]
  <2>1. l.at = "gates"
    BY <1>1 DEF Locals
  <2>2. Become(c, l)
    BY <1>17, Zenon DEF Begin
  <2> HIDE DEF l
  <2> QED
    BY <1>2, <2>1, <2>2
<1> QED
  BY <1>7, <1>9, <1>10, <1>11, <1>12, <1>13, <1>14, <1>15, <1>16, <1>17 DEF Progress

(* The Kernel's commits with content.                                         *)
Filled(branch) == {i \in ByKernel(branch) : branch[i].content # 0}

LEMMA FilledAppend ==
  ASSUME NEW b \in Shas, NEW k \in Contents
  PROVE  LET longer == Append(b, [by |-> "kernel", content |-> k])
         IN /\ Len(longer) = Len(b) + 1 /\ Len(b) \in Nat
            /\ Filled(longer) = Filled(b) \cup IF k = 0 THEN {} ELSE {Len(b) + 1}
<1> DEFINE e == [by |-> "kernel", content |-> k]
           longer == Append(b, e)
<1>1. e \in Commits
  BY EntryType
<1>2. /\ longer \in Shas /\ Len(longer) = Len(b) + 1 /\ Len(b) \in Nat
      /\ \A i \in 1..Len(b) : longer[i] = b[i]
      /\ longer[Len(b) + 1] = e
  BY <1>1, AppendProperties, LenProperties DEF Shas
<1>3. DOMAIN b = 1..Len(b) /\ DOMAIN longer = 1..(Len(b) + 1)
  BY <1>2, LenProperties DEF Shas
<1>4. DOMAIN longer = DOMAIN b \cup {Len(b) + 1} /\ Len(b) + 1 \notin DOMAIN b
  BY <1>2, <1>3
<1> HIDE DEF longer
<1>5. Filled(longer) = Filled(b) \cup IF k = 0 THEN {} ELSE {Len(b) + 1}
  BY <1>2, <1>3, <1>4 DEF Filled, ByKernel
<1> QED
  BY <1>2, <1>5 DEF longer

(* While nobody edits: the work is in the worktree until a commit has taken it, *)
(* and what was staged before that commit cannot be committed after it.        *)
StagedInv(c) ==
  /\ cmd[c].at \in {"staging", "committing"} => Len(cmd[c].expected) <= Len(head)
  /\ cmd[c].at = "committing" => cmd[c].staged = 1 \/ (cmd[c].staged = 0 /\ Filled(head) # {})
  /\ (cmd[c].at = "committing" /\ cmd[c].staged # 0 /\ Filled(head) # {}) =>
       Len(cmd[c].expected) < Len(head)

WorkInv ==
  edits = 0 =>
    /\ own \in {0, 1} /\ (own = 0 <=> Filled(head) # {})
    /\ \A i, j \in Filled(head) : i = j
    /\ \A c \in Command : StagedInv(c)

LEMMA WorkInit == Init => WorkInv
<1> SUFFICES ASSUME Init
             PROVE  WorkInv
  OBVIOUS
<1>1. Filled(head) = {} /\ own = 1
  BY Branches DEF Init, Filled, NoSha
<1>2. ASSUME NEW c \in Command
      PROVE  cmd[c].at = "idle"
  BY DEF Init, Idle
<1> QED
  BY <1>1, <1>2 DEF WorkInv, StagedInv

(* What only Commit and the user touch.                                       *)
LEMMA TreeKept ==
  ASSUME NEW c \in Command, Entry(c) \/ Progress(c) \/ Crash(c)
  PROVE  UNCHANGED <<edits, stray>> /\ (Commit(c) \/ UNCHANGED <<head, own>>)
<1>1. CASE Entry(c)
  BY <1>1, Zenon DEF Entry, Report, ResentReport, FinalizeAgain, OperatorFinalizes,
     RetryCloseout, git
<1>2. CASE \/ Begin(c) \/ Gates(c) \/ Close(c) \/ Judge(c) \/ Decide(c) \/ Admit(c)
           \/ Reconcile(c) \/ Inspect(c) \/ Stage(c) \/ GitFails(c)
  BY <1>2, Zenon DEF Begin, Gates, Close, Judge, Decide, Admit, Reconcile, Inspect, Stage,
     GitFails, git
<1>3. CASE \/ RecordCommit(c) \/ PushSucceeds(c) \/ PushFails(c) \/ RecordPushed(c)
           \/ Learn(c) \/ Defer(c) \/ Record(c) \/ Settle(c) \/ Crash(c)
  BY <1>3, Zenon DEF RecordCommit, PushSucceeds, PushFails, RecordPushed, Learn, Defer,
     Record, Settle, Crash, git
<1>4. CASE Commit(c)
  BY <1>4, Zenon DEF Commit
<1> QED
  BY <1>1, <1>2, <1>3, <1>4 DEF Progress

LEMMA WorkStep == TypeInv /\ WorkInv /\ [Next]_vars => WorkInv'
<1> SUFFICES ASSUME TypeInv, WorkInv, [Next]_vars, edits' = 0
             PROVE  WorkInv'
  BY DEF WorkInv
<1>1. /\ head \in Shas /\ Len(head) \in Nat /\ edits \in Nat
      /\ \A c \in Command : cmd[c].expected \in Shas /\ cmd[c].staged \in Contents
  BY LenProperties DEF TypeInv, TreeOK, LocalsOK, Locals, CountsOK, Shas
<1>2. ASSUME NEW c \in Command, Entry(c) \/ Progress(c) \/ Crash(c), UNCHANGED <<head, own>>
      PROVE  WorkInv'
  <2>1. edits = 0
    BY <1>2, TreeKept
  <2>2. /\ own \in {0, 1} /\ (own = 0 <=> Filled(head) # {}) /\ StagedInv(c)
        /\ (Filled(head) # {})' <=> Filled(head) # {}
    BY <1>2, <2>1 DEF WorkInv, Filled, ByKernel
  <2>3. StagedInv(c)'
    BY <1>1, <1>2, <2>2, IntoCommit DEF StagedInv
  <2>4. ASSUME NEW d \in Command \ {c}
        PROVE  StagedInv(d)'
    BY <1>2, <2>1, <2>2, LocalsStep DEF WorkInv, StagedInv
  <2> QED
    BY <1>2, <2>1, <2>3, <2>4 DEF WorkInv, Filled, ByKernel
<1>3. ASSUME NEW c \in Command, Commit(c), ~UNCHANGED <<head, own>>
      PROVE  WorkInv'
  <2>1. /\ edits = 0 /\ cmd[c].at = "committing" /\ head = cmd[c].expected
        /\ head' = Append(head, [by |-> "kernel", content |-> cmd[c].staged])
        /\ own' = IF own = cmd[c].staged THEN 0 ELSE own
    BY <1>3, Zenon DEF Commit, NoConflict, At
  <2>2. /\ own \in {0, 1} /\ (own = 0 <=> Filled(head) # {})
        /\ \A i, j \in Filled(head) : i = j
        /\ \A d \in Command : StagedInv(d)
    BY <2>1 DEF WorkInv
  <2>3. /\ Len(head') = Len(head) + 1
        /\ Filled(head') = Filled(head) \cup IF cmd[c].staged = 0 THEN {} ELSE {Len(head) + 1}
    BY <1>1, <2>1, FilledAppend
  <2>4. cmd[c].staged \in {0, 1} /\ (cmd[c].staged # 0 => Filled(head) = {})
    BY <1>1, <2>1, <2>2 DEF StagedInv
  <2>5. /\ own' \in {0, 1} /\ (own' = 0 <=> Filled(head') # {})
        /\ \A i, j \in Filled(head') : i = j
    BY <2>1, <2>2, <2>3, <2>4
  <2>6. /\ cmd'[c].at \notin {"staging", "committing"}
        /\ \A d \in Command \ {c} : cmd'[d] = cmd[d]
    BY <1>3, <2>1, IntoCommit, LocalsStep DEF Progress
  <2>7. ASSUME NEW d \in Command
        PROVE  StagedInv(d)'
    BY <1>1, <2>2, <2>3, <2>6 DEF StagedInv
  <2>8. UNCHANGED edits
    BY <1>3, Zenon DEF Commit
  <2> QED
    BY <2>5, <2>7, <2>8 DEF WorkInv, Filled, ByKernel
<1>4. CASE UNCHANGED vars
  <2>1. UNCHANGED <<head, own, cmd, edits>>
    BY <1>4 DEF vars, git
  <2> QED
    BY <2>1 DEF WorkInv, StagedInv, Filled, ByKernel
<1>5. ~(Edit \/ UserCommit)
  BY <1>1 DEF Edit, UserCommit
<1>6. ASSUME NEW c \in Command, Entry(c) \/ Progress(c) \/ Crash(c)
      PROVE  WorkInv'
  BY <1>2, <1>3, <1>6, TreeKept
<1> QED
  BY <1>4, <1>5, <1>6 DEF Next

(* However many commands overlap: the work is committed at most once while     *)
(* nobody else touches the worktree.  A second commit of the Kernel's is empty. *)
WorkCommittedOnce == edits = 0 => \A i, j \in Filled(head) : i = j

(* Once the work is in a commit of the Kernel's, every command that stages finds   *)
(* nothing of it left, and every one that has staged it fails to move the branch. *)
THEOREM WorkCommittedOnceHolds == Spec => []WorkCommittedOnce
<1>1. WorkInv => WorkCommittedOnce
  BY DEF WorkInv, WorkCommittedOnce
<1> QED
  BY TypeInit, TypeStep, WorkInit, WorkStep, <1>1, PTL DEF Spec

(* Until that commit, the run is as it began but for the verdict, and what was  *)
(* proven is the work.                                                         *)
Untouched == edits = 0 /\ Filled(head) = {}
Accepting == {"admitting", "reconciling", "inspecting", "staging", "committing"}

ProvenInv(c) ==
  cmd[c].kind # "closeout" =>
    /\ (cmd[c].status = "completed" \/ cmd[c].state = "CLOSE") => Closed
    /\ cmd[c].at \in {"judging", "deciding"} \cup Accepting => Closed
    /\ cmd[c].at \in {"closing", "judging", "deciding"} \cup Accepting => Fresh
    /\ cmd[c].at = "deciding" => cmd[c].verdict = "accepted"
    /\ cmd[c].at \in Accepting => decision.verdict = "accepted"

RowsInv ==
  /\ run.revision = 1 /\ run.known = tree
  /\ proof.revision = 1 => proof.content = own
  /\ run.status = "completed" => Closed

UntouchedInv == Untouched => RowsInv /\ \A c \in Command : ProvenInv(c)

LEMMA UntouchedInit == Init => UntouchedInv
<1> SUFFICES ASSUME Init
             PROVE  UntouchedInv
  OBVIOUS
<1>1. RowsInv
  BY DEF Init, RowsInv, Closed
<1>2. ASSUME NEW c \in Command
      PROVE  ProvenInv(c)
  BY DEF Init, Idle, ProvenInv, Accepting
<1> QED
  BY <1>1, <1>2 DEF UntouchedInv

(* It was untouched before if it is after.                                     *)
LEMMA UntouchedBefore ==
  ASSUME TypeInv, WorkInv, [Next]_vars, Untouched'
  PROVE  Untouched /\ UNCHANGED <<head, own, stray>>
<1>1. ASSUME NEW c \in Command, Entry(c) \/ Progress(c) \/ Crash(c)
      PROVE  Untouched /\ UNCHANGED <<head, own, stray>>
  <2>1. UNCHANGED <<edits, stray>>
    BY <1>1, TreeKept
  <2>2. CASE UNCHANGED <<head, own>>
    BY <2>1, <2>2 DEF Untouched, Filled, ByKernel
  <2>3. CASE Commit(c) /\ ~UNCHANGED <<head, own>>
    <3>1. /\ cmd[c].at = "committing" /\ head = cmd[c].expected
          /\ head' = Append(head, [by |-> "kernel", content |-> cmd[c].staged])
          /\ own' = IF own = cmd[c].staged THEN 0 ELSE own
      BY <2>3, Zenon DEF Commit, NoConflict, At
    <3>2. head \in Shas /\ cmd[c].staged \in Contents /\ edits = 0
      BY <2>1 DEF TypeInv, TreeOK, LocalsOK, Locals, Untouched
    <3>3. cmd[c].staged = 0 /\ Filled(head) = {}
      BY <3>1, <3>2, FilledAppend DEF Untouched
    <3> QED
      BY <3>1, <3>2, <3>3 DEF WorkInv, StagedInv
  <2> QED
    BY <1>1, <2>2, <2>3, TreeKept
<1>2. CASE Edit \/ UserCommit
  BY <1>2 DEF Edit, UserCommit, Untouched, TypeInv, CountsOK
<1>3. CASE UNCHANGED vars
  BY <1>3 DEF vars, git, Untouched, Filled, ByKernel
<1> QED
  BY <1>1, <1>2, <1>3 DEF Next

(* What a step does to the rows meanwhile: nothing is taken back.               *)
OnlyForward ==
  /\ run'.revision = 1 /\ run'.known = run.known
  /\ Closed => Closed'
  /\ run'.status = "completed" => Closed'
  /\ proof' = proof \/ proof' = [revision |-> 1, content |-> own]
  /\ decision' = decision \/ decision'.verdict = "accepted"

LEMMA RowsForward ==
  ASSUME TypeInv, DeliverInv, Untouched, RowsInv, NEW c \in Command, ProvenInv(c),
         Entry(c) \/ Progress(c) \/ Crash(c)
  PROVE  OnlyForward
<1>1. /\ run \in Runs /\ run.revision = 1 /\ run.known = tree
      /\ run.status = "completed" => Closed
  BY DEF TypeInv, RowsOK, RowsInv
<1>2. \A r \in Runs : r.known = tree => Observed(r) = r
  BY ObservedTyped
<1>3. ASSUME UNCHANGED <<proof, decision>>, UNCHANGED run
      PROVE  OnlyForward
  BY <1>1, <1>3 DEF OnlyForward, Closed
<1>4. ASSUME NEW request \in Requests, Report(c, request)
      PROVE  OnlyForward
  <2> DEFINE q == [run EXCEPT !.status = "active"]
  <2>1. /\ q \in Runs /\ q.state = run.state /\ q.known = run.known
        /\ q.revision = run.revision /\ q.status = "active"
    BY <1>1 DEF Runs, Statuses
  <2> HIDE DEF q
  <2>2. /\ run' = Observed(q) /\ UNCHANGED decision
        /\ proof' = proof \/ proof' = [revision |-> run'.revision, content |-> own]
    BY <1>4, Zenon DEF Report, q
  <2>3. run' = q
    BY <1>1, <1>2, <2>1, <2>2
  <2> QED
    BY <1>1, <2>1, <2>2, <2>3 DEF OnlyForward, Closed
<1>5. CASE Begin(c)
  <2>1. run' = Refreshed(closeout) /\ UNCHANGED <<proof, decision>>
    BY <1>5, Zenon DEF Begin
  <2> QED
    BY <1>1, <1>2, <1>3, <2>1 DEF Refreshed
<1>6. CASE Close(c)
  <2>1. run' \in {run, [run EXCEPT !.state = "CLOSE"]} /\ UNCHANGED <<proof, decision>>
    BY <1>6, Zenon DEF Close
  <2> QED
    BY <1>1, <2>1 DEF OnlyForward, Closed, Runs
<1>7. CASE Decide(c)
  <2>1. cmd[c].at = "deciding"
    BY <1>7 DEF Decide, At
  <2>2. cmd[c].verdict = "accepted" /\ Closed
    BY <2>1 DEF DeliverInv, DeliveryInv, ProvenInv
  <2>3. /\ run' = [run EXCEPT !.status = "completed"] /\ decision'.verdict = "accepted"
        /\ UNCHANGED proof
    BY <1>7, <2>2 DEF Decide
  <2> QED
    BY <1>1, <2>2, <2>3 DEF OnlyForward, Closed, Runs
<1>8. CASE Reconcile(c)
  <2>1. run' \in {run, Observed(run)} /\ UNCHANGED <<proof, decision>>
    BY <1>8, Zenon DEF Reconcile
  <2> QED
    BY <1>1, <1>2, <1>3, <2>1
<1>9. CASE Settle(c)
  <2>1. /\ run'.revision = run.revision /\ run'.known = run.known
        /\ run'.state = run.state /\ run'.status = run.status
        /\ UNCHANGED <<proof, decision>>
    BY <1>1, <1>9 DEF Settle, Runs
  <2> QED
    BY <1>1, <2>1 DEF OnlyForward, Closed
<1>10. CASE \/ ResentReport(c) \/ RetryCloseout(c)
            \/ \E request \in Requests : FinalizeAgain(c, request) \/ OperatorFinalizes(c, request)
            \/ Gates(c) \/ Judge(c) \/ Admit(c) \/ Inspect(c) \/ Stage(c) \/ GitFails(c)
            \/ Commit(c) \/ RecordCommit(c) \/ PushSucceeds(c) \/ PushFails(c)
            \/ RecordPushed(c) \/ Learn(c) \/ Defer(c) \/ Record(c) \/ Crash(c)
  BY <1>3, <1>10, Zenon DEF ResentReport, RetryCloseout, FinalizeAgain, OperatorFinalizes,
     Gates, Judge, Admit, Inspect, Stage, GitFails, Commit, RecordCommit, PushSucceeds,
     PushFails, RecordPushed, Learn, Defer, Record, Crash, stored
<1> QED
  BY <1>4, <1>5, <1>6, <1>7, <1>8, <1>9, <1>10 DEF Entry, Progress

(* What a command at work knows of the rows stays true under every other.       *)
LEMMA ProvenStays ==
  ASSUME TypeInv, RowsInv, OnlyForward, NEW c \in Command, ProvenInv(c), UNCHANGED cmd[c]
  PROVE  ProvenInv(c)'
<1>1. Fresh => Fresh'
  BY DEF Fresh, RowsInv, OnlyForward
<1>2. decision.verdict = "accepted" => decision'.verdict = "accepted"
  BY DEF OnlyForward
<1> QED
  BY <1>1, <1>2 DEF ProvenInv, OnlyForward, Accepting

LEMMA ProvenStep ==
  ASSUME TypeInv, DeliverInv, Untouched, RowsInv, NEW c \in Command, ProvenInv(c),
         Entry(c) \/ Progress(c) \/ Crash(c)
  PROVE  ProvenInv(c)'
<1> DEFINE Result == ProvenInv(c)'
<1>1. /\ LocalsOK /\ cmd[c] \in Locals /\ DeliveryInv(c)
      /\ cmd[c].kind = "closeout" => cmd[c].at \in {"reconciling", "pushing", "pushed"}
  BY DEF TypeInv, LocalsOK, DeliverInv, DeliveryInv
<1>2. ASSUME NEW l, Become(c, l)
      PROVE  cmd'[c] = l
  BY <1>1, <1>2 DEF Become, LocalsOK
<1>3. OnlyForward
  BY RowsForward
<1>4. /\ Fresh => Fresh'
      /\ Closed => Closed'
      /\ decision.verdict = "accepted" => decision'.verdict = "accepted"
  BY <1>3 DEF OnlyForward, RowsInv, Fresh
<1>5. ASSUME Reset(c)', cmd'[c].at \in {"idle", "begin", "learning", "recording"}
      PROVE  Result
  BY <1>5 DEF Reset, ProvenInv, Accepting
<1>6. ASSUME NEW outcome \in Outcomes,
             \/ EndCloseout(c, outcome) \/ Become(c, Idle)
             \/ Conclude(c, "learning", outcome) \/ Conclude(c, "recording", outcome)
      PROVE  Result
  BY <1>1, <1>5, <1>6, FieldsOfEndCloseout, FieldsOfIdle, ConcludeTyped, Constants
<1>7. ASSUME NEW place \in Places, Go(c, place),
             place \in {"judging"} \cup Accepting => Closed',
             place \in {"closing", "judging"} \cup Accepting => Fresh',
             place # "deciding", place \in Accepting => decision'.verdict = "accepted"
      PROVE  Result
  <2>1. /\ cmd'[c].at = place /\ cmd'[c].kind = cmd[c].kind /\ cmd'[c].status = cmd[c].status
        /\ cmd'[c].state = cmd[c].state
    BY <1>1, <1>7, FieldsOfGo
  <2> QED
    BY <1>4, <1>7, <2>1 DEF ProvenInv
<1> SUFFICES Result
  OBVIOUS
<1> HIDE DEF Result
<1>8. CASE Entry(c)
  <2>1. ASSUME NEW k \in Kinds, NEW r \in Requests, Enter(c, k, r)
        PROVE  Result
    BY <1>1, <1>5, <2>1, FieldsOfEnter
  <2>2. CASE RetryCloseout(c)
    <3> DEFINE l == [Idle EXCEPT !.at = "reconciling", !.kind = "closeout",
                       !.prior = closeout, !.sha = closeout.sha, !.commit = closeout.sha]
    <3>1. l.kind = "closeout"
      BY IdleTyped DEF Locals
    <3>2. Become(c, l)
      BY <2>2, Zenon DEF RetryCloseout
    <3> HIDE DEF l
    <3> QED
      BY <1>2, <3>1, <3>2 DEF ProvenInv, Result
  <2>3. \/ UNCHANGED cmd
        \/ \E k \in Kinds, r \in Requests : Enter(c, k, r)
        \/ RetryCloseout(c)
    BY <1>8, Constants DEF Entry, Report, ResentReport, FinalizeAgain, OperatorFinalizes,
       TypeInv, RowsOK
  <2> QED
    BY <1>3, <2>1, <2>2, <2>3, ProvenStays DEF Result
<1>9. ASSUME Accept(c), cmd[c].kind # "closeout", Closed, Fresh,
             decision'.verdict = "accepted"
      PROVE  Result
  <2> DEFINE l == [cmd[c] EXCEPT !.at = "admitting", !.status = "completed",
                     !.state = "CLOSE", !.verdict = "accepted", !.revision = 0]
  <2>1. l.at = "admitting"
    BY <1>1 DEF Locals
  <2>2. Conclude(c, "learning", "skipped") \/ Become(c, l)
    BY <1>9, Zenon DEF Accept
  <2> HIDE DEF l
  <2>3. CASE Become(c, l)
    BY <1>2, <1>4, <1>9, <2>1, <2>3 DEF ProvenInv, Result
  <2> QED
    BY <1>6, <2>2, <2>3, Constants
<1>10. CASE Begin(c)
  <2> DEFINE l == [cmd[c] EXCEPT !.at = "gates", !.prior = closeout,
                     !.request = Requested(cmd[c].request), !.chosen = PathsChosen,
                     !.sha = ExistingSha(cmd[c].request),
                     !.commit = ExistingSha(cmd[c].request),
                     !.status = run.status, !.state = run.state]
  <2>1. l.at = "gates" /\ l.status = run.status /\ l.state = run.state
    BY <1>1 DEF Locals
  <2>2. Become(c, l)
    BY <1>10, Zenon DEF Begin
  <2> HIDE DEF l
  <2>3. cmd'[c] = l
    BY <1>2, <2>2
  <2>4. run.status = "completed" \/ run.state = "CLOSE" => Closed'
    BY <1>4 DEF RowsInv, Closed
  <2> QED
    BY <2>1, <2>3, <2>4 DEF ProvenInv, Accepting, Result
<1>11. CASE Gates(c)
  <2>1. (Fresh /\ Go(c, "closing")) \/ Conclude(c, "recording", "refused")
    BY <1>11, Zenon DEF Gates, Refused
  <2> QED
    BY <1>4, <1>6, <1>7, <2>1, Constants DEF Accepting
<1>12. CASE Close(c)
  <2>1. cmd[c].at = "closing" /\ (Become(c, Idle) \/ Go(c, "judging"))
    BY <1>12 DEF Close, At
  <2>2. Fresh /\ cmd[c].kind # "closeout"
    BY <1>1, <2>1 DEF ProvenInv
  <2>3. Go(c, "judging") => Closed' \/ Become(c, Idle)
    BY <1>4, <1>12, <2>2 DEF Close, ProvenInv, Closed, TypeInv, RowsOK, Runs
  <2> QED
    BY <1>4, <1>6, <1>7, <2>1, <2>2, <2>3, Constants DEF Accepting
<1>13. CASE Judge(c)
  <2> DEFINE l == [cmd[c] EXCEPT !.at = "deciding", !.revision = run.revision,
                     !.verdict = "accepted"]
  <2>1. cmd[c].at = "judging"
    BY <1>13 DEF Judge, At
  <2>2. Fresh /\ Closed /\ cmd[c].kind # "closeout"
    BY <1>1, <2>1 DEF ProvenInv
  <2>3. (decision.verdict = "accepted" /\ Accept(c)) \/ Become(c, l)
    BY <1>13, <2>2 DEF Judge, IsFinalizationRetry, Closed
  <2>4. l.at = "deciding" /\ l.verdict = "accepted"
    BY <1>1 DEF Locals, Verdicts
  <2> HIDE DEF l
  <2>5. CASE Become(c, l)
    BY <1>2, <1>4, <2>2, <2>4, <2>5 DEF ProvenInv, Accepting, Result
  <2> QED
    BY <1>4, <1>9, <2>2, <2>3, <2>5
<1>14. CASE Decide(c)
  <2>1. cmd[c].at = "deciding"
    BY <1>14 DEF Decide, At
  <2>2. Fresh /\ Closed /\ cmd[c].kind # "closeout" /\ cmd[c].verdict = "accepted"
    BY <1>1, <2>1 DEF ProvenInv
  <2>3. Accept(c) /\ decision'.verdict = "accepted"
    BY <1>14, <2>2 DEF Decide
  <2> QED
    BY <1>9, <2>2, <2>3
<1>15. CASE Admit(c)
  <2>1. /\ cmd[c].at = "admitting"
        /\ \/ EndCloseout(c, "failed") \/ EndCloseout(c, "completed") \/ Go(c, "reconciling")
    BY <1>15, Zenon DEF Admit, At
  <2>2. Fresh /\ Closed /\ decision.verdict = "accepted"
    BY <1>1, <2>1 DEF ProvenInv, Accepting
  <2> QED
    BY <1>4, <1>6, <1>7, <2>1, <2>2, Constants
<1>16. CASE Reconcile(c)
  <2> DEFINE l == [cmd[c] EXCEPT !.seen = own,
                     !.at = IF cmd[c].kind = "closeout" THEN "pushing" ELSE "inspecting"]
  <2>1. /\ l.kind = cmd[c].kind /\ l.status = cmd[c].status /\ l.state = cmd[c].state
        /\ l.kind # "closeout" => l.at = "inspecting"
    BY <1>1 DEF Locals
  <2>2. cmd[c].at = "reconciling" /\ (EndCloseout(c, "failed") \/ Become(c, l))
    BY <1>16, Zenon DEF Reconcile, At
  <2> HIDE DEF l
  <2>3. CASE Become(c, l)
    BY <1>2, <1>4, <2>1, <2>2, <2>3 DEF ProvenInv, Accepting, Result
  <2> QED
    BY <1>6, <2>2, <2>3, Constants
<1>17. CASE Inspect(c)
  <2> DEFINE l == [cmd[c] EXCEPT !.at = "staging", !.expected = head]
  <2>1. /\ l.at = "staging" /\ l.kind = cmd[c].kind /\ l.status = cmd[c].status
        /\ l.state = cmd[c].state
    BY <1>1 DEF Locals
  <2>2. /\ cmd[c].at = "inspecting"
        /\ \/ EndCloseout(c, "failed") \/ EndCloseout(c, "skipped") \/ Go(c, "pushing")
           \/ Become(c, l)
    BY <1>17, Zenon DEF Inspect, At
  <2> HIDE DEF l
  <2>3. CASE Become(c, l)
    BY <1>2, <1>4, <2>1, <2>2, <2>3 DEF ProvenInv, Accepting, Result
  <2> QED
    BY <1>6, <1>7, <2>2, <2>3, Constants DEF Accepting
<1>18. CASE Stage(c)
  <2> DEFINE l == [cmd[c] EXCEPT !.at = "committing", !.staged = own]
  <2>1. /\ l.at = "committing" /\ l.kind = cmd[c].kind /\ l.status = cmd[c].status
        /\ l.state = cmd[c].state
    BY <1>1 DEF Locals
  <2>2. Become(c, l) /\ cmd[c].at = "staging"
    BY <1>18, Zenon DEF Stage, At
  <2> HIDE DEF l
  <2> QED
    BY <1>2, <1>4, <2>1, <2>2 DEF ProvenInv, Accepting, Result
<1>19. CASE Commit(c)
  <2> DEFINE sha == Append(cmd[c].expected, [by |-> "kernel", content |-> cmd[c].staged])
             l == [cmd[c] EXCEPT !.at = "committed", !.commit = sha]
  <2>1. /\ l.at = "committed" /\ l.kind = cmd[c].kind /\ l.status = cmd[c].status
        /\ l.state = cmd[c].state
    BY <1>1 DEF Locals
  <2>2. EndCloseout(c, "failed") \/ Become(c, l)
    BY <1>19, Zenon DEF Commit
  <2> HIDE DEF l
  <2>3. CASE Become(c, l)
    BY <1>2, <1>4, <2>1, <2>3 DEF ProvenInv, Accepting, Result
  <2> QED
    BY <1>6, <2>2, <2>3, Constants
<1>20. CASE GitFails(c) \/ RecordCommit(c) \/ PushSucceeds(c) \/ PushFails(c)
            \/ RecordPushed(c) \/ Defer(c) \/ Record(c) \/ Settle(c) \/ Crash(c)
  <2>1. \/ EndCloseout(c, "failed") \/ EndCloseout(c, "completed")
        \/ Go(c, "pushing") \/ Go(c, "pushed") \/ Go(c, "recording") \/ Go(c, "settling")
        \/ Become(c, Idle)
    BY <1>20, Zenon DEF GitFails, RecordCommit, PushSucceeds, PushFails, RecordPushed,
       Defer, Record, Settle, Crash
  <2> QED
    BY <1>6, <1>7, <2>1, Constants DEF Accepting
<1>21. CASE Learn(c)
  <2>1. /\ cmd'[c].at = "recording" /\ cmd'[c].kind = cmd[c].kind
        /\ cmd'[c].status = cmd[c].status /\ cmd'[c].state = cmd[c].state
    BY <1>21, FieldsOfLearn
  <2> QED
    BY <1>4, <2>1 DEF ProvenInv, Accepting, Result
<1> QED
  BY <1>8, <1>10, <1>11, <1>12, <1>13, <1>14, <1>15, <1>16, <1>17, <1>18, <1>19, <1>20,
     <1>21 DEF Progress

LEMMA UntouchedStep ==
  TypeInv /\ DeliverInv /\ WorkInv /\ UntouchedInv /\ [Next]_vars => UntouchedInv'
<1> SUFFICES ASSUME TypeInv, DeliverInv, WorkInv, UntouchedInv, [Next]_vars, Untouched'
             PROVE  (RowsInv /\ \A c \in Command : ProvenInv(c))'
  BY DEF UntouchedInv
<1>1. /\ Untouched /\ UNCHANGED <<head, own, stray>>
      /\ RowsInv /\ \A c \in Command : ProvenInv(c)
  BY UntouchedBefore DEF UntouchedInv
<1>2. tree' = tree
  BY <1>1 DEF tree
<1>3. ASSUME NEW c \in Command, Entry(c) \/ Progress(c) \/ Crash(c)
      PROVE  (RowsInv /\ \A d \in Command : ProvenInv(d))'
  <2>1. OnlyForward
    BY <1>1, <1>3, RowsForward
  <2>2. RowsInv'
    BY <1>1, <1>2, <2>1 DEF RowsInv, OnlyForward
  <2>3. ASSUME NEW d \in Command \ {c}
        PROVE  ProvenInv(d)'
    BY <1>1, <1>3, <2>1, LocalsStep, ProvenStays
  <2> QED
    BY <1>1, <1>3, <2>2, <2>3, ProvenStep
<1>4. CASE Edit \/ UserCommit
  BY <1>1, <1>4 DEF Edit, UserCommit, Untouched
<1>5. CASE UNCHANGED vars
  <2>1. UNCHANGED <<run, proof, decision, cmd>>
    BY <1>5 DEF vars, stored
  <2> QED
    BY <1>1, <1>2, <2>1 DEF RowsInv, ProvenInv, Closed, Fresh
<1> QED
  BY <1>3, <1>4, <1>5 DEF Next

(* And what they commit then is what was proven, for an accepted run.           *)
WorkIsProven ==
  [][\A c \in Command :
       (edits = 0 /\ At(c, "committing") /\ cmd'[c].at = "committed" /\ cmd[c].staged # 0) =>
         cmd[c].staged = proof.content /\ decision.verdict = "accepted"]_vars

(* The acceptance is of the content the run's proof was about, and it is that      *)
(* content a command stages.                                                     *)
THEOREM WorkIsProvenHolds == Spec => WorkIsProven
<1>1. TypeInv /\ DeliverInv /\ WorkInv /\ UntouchedInv /\ [Next]_vars =>
        [\A c \in Command :
           (edits = 0 /\ At(c, "committing") /\ cmd'[c].at = "committed" /\ cmd[c].staged # 0) =>
             cmd[c].staged = proof.content /\ decision.verdict = "accepted"]_vars
  <2> SUFFICES ASSUME TypeInv, DeliverInv, WorkInv, UntouchedInv, Next, NEW c \in Command,
                      edits = 0, cmd[c].at = "committing", cmd'[c].at = "committed",
                      cmd[c].staged # 0
               PROVE  cmd[c].staged = proof.content /\ decision.verdict = "accepted"
    BY DEF At, vars, stored
  <2>1. head = cmd[c].expected
    <3>1. ASSUME NEW d \in Command, Entry(d) \/ Progress(d) \/ Crash(d)
          PROVE  head = cmd[c].expected
      <4>1. d = c
        BY <3>1, LocalsStep
      <4> QED
        BY <3>1, <4>1, IntoCommit
    <3>2. ~(Edit \/ UserCommit)
      BY Zenon DEF Edit, UserCommit
    <3> QED
      BY <3>1, <3>2 DEF Next
  <2>2. Untouched /\ own = 1 /\ cmd[c].staged = 1
    BY <2>1 DEF WorkInv, StagedInv, Untouched
  <2>3. cmd[c].kind # "closeout"
    BY DEF DeliverInv, DeliveryInv
  <2>4. Fresh /\ decision.verdict = "accepted" /\ RowsInv
    BY <2>2, <2>3 DEF UntouchedInv, ProvenInv, Accepting
  <2> QED
    BY <2>2, <2>4 DEF RowsInv, Fresh
<1> QED
  BY TypeInit, TypeStep, DeliverInit, DeliverStep, WorkInit, WorkStep, UntouchedInit,
     UntouchedStep, <1>1, PTL DEF Spec, WorkIsProven

(* The branch at origin is a part of the local one, which the push checks, so  *)
(* no push takes a commit away from it, whoever pushes next to whom.           *)
Prefix(branch, longer) == Len(branch) <= Len(longer) /\ SubSeq(longer, 1, Len(branch)) = branch

LEMMA Prefixes ==
  ASSUME NEW b \in Shas, NEW l \in Shas
  PROVE  Prefix(b, l) <=> Len(b) <= Len(l) /\ \A i \in 1..Len(b) : l[i] = b[i]
<1> SUFFICES ASSUME Len(b) <= Len(l)
             PROVE  SubSeq(l, 1, Len(b)) = b <=> \A i \in 1..Len(b) : l[i] = b[i]
  BY DEF Prefix
<1>1. Len(b) \in Nat /\ Len(l) \in Nat
  BY LenProperties DEF Shas
<1>2. \A i \in 1..Len(b) : l[i] \in Commits
  BY <1>1, ElementOfSeq DEF Shas
<1>3. /\ SubSeq(l, 1, Len(b)) \in Shas /\ Len(SubSeq(l, 1, Len(b))) = Len(b)
      /\ \A i \in 1..Len(b) : SubSeq(l, 1, Len(b))[i] = l[i]
  BY <1>1, <1>2, SubSeqProperties DEF Shas
<1> QED
  BY <1>3, SeqEqual DEF Shas

LEMMA PrefixOrder ==
  /\ \A a \in Shas : Prefix(a, a)
  /\ \A a, b, d \in Shas : Prefix(a, b) /\ Prefix(b, d) => Prefix(a, d)
<1>1. \A a \in Shas : Len(a) \in Nat
  BY LenProperties DEF Shas
<1>2. ASSUME NEW a \in Shas
      PROVE  Prefix(a, a)
  BY <1>1, Prefixes
<1>3. ASSUME NEW a \in Shas, NEW b \in Shas, NEW d \in Shas, Prefix(a, b), Prefix(b, d)
      PROVE  Prefix(a, d)
  <2>1. /\ Len(a) <= Len(b) /\ \A i \in 1..Len(a) : b[i] = a[i]
        /\ Len(b) <= Len(d) /\ \A i \in 1..Len(b) : d[i] = b[i]
    BY <1>3, Prefixes
  <2>2. Len(a) <= Len(d) /\ \A i \in 1..Len(a) : d[i] = a[i]
    BY <1>1, <2>1
  <2> QED
    BY <2>2, Prefixes
<1> QED
  BY <1>2, <1>3

LEMMA OriginPrefix ==
  /\ Init => Prefix(remote, head)
  /\ TypeInv /\ Prefix(remote, head) /\ [Next]_vars =>
       Prefix(remote, head)' /\ Prefix(remote, remote')
<1>1. ASSUME Init
      PROVE  Prefix(remote, head)
  BY <1>1, Branches, PrefixOrder DEF Init, NoSha
<1>2. ASSUME TypeInv, Prefix(remote, head), [Next]_vars
      PROVE  Prefix(remote, head)' /\ Prefix(remote, remote')
  <2>1. remote \in Shas /\ head \in Shas /\ head' \in Shas
    BY <1>2, TreeStep DEF TypeInv, TreeOK
  <2>2. Prefix(head, head')
    BY <1>2, <2>1, CommitKept, PrefixOrder DEF Prefix
  <2>3. Prefix(remote, head') /\ Prefix(remote, remote) /\ Prefix(head', head')
    BY <1>2, <2>1, <2>2, PrefixOrder
  <2>4. CASE UNCHANGED remote
    BY <2>3, <2>4 DEF Prefix
  <2>5. CASE remote' = head /\ UNCHANGED head
    BY <1>2, <2>3, <2>5 DEF Prefix
  <2> QED
    BY <1>2, <2>4, <2>5, OriginStep
<1> QED
  BY <1>1, <1>2

(* However commands overlap: a push adds to what origin has and takes nothing   *)
(* of it away, for the branch that is pushed only grows.                        *)
OriginKeepsCommits ==
  [][Len(remote) <= Len(remote') /\ SubSeq(remote', 1, Len(remote)) = remote]_remote

(* Origin is at a commit of the branch, and a push takes it to the head.           *)
THEOREM OriginKeepsCommitsHolds == Spec => OriginKeepsCommits
<1>1. TypeInv /\ Prefix(remote, head) /\ [Next]_vars =>
        [Len(remote) <= Len(remote') /\ SubSeq(remote', 1, Len(remote)) = remote]_remote
  BY OriginPrefix DEF Prefix
<1>2. Init => Prefix(remote, head)
  BY OriginPrefix
<1>3. TypeInv /\ Prefix(remote, head) /\ [Next]_vars => Prefix(remote, head)'
  BY OriginPrefix
<1> QED
  BY TypeInit, TypeStep, <1>1, <1>2, <1>3, PTL DEF Spec, OriginKeepsCommits

-----------------------------------------------------------------------------
(* The finalization as OneDelivery promises it.  Each variable of the promise   *)
(* has one action that changes it, and what that action needs of the promise    *)
(* is in the invariants; one is missing: past the closeout the run is accepted.  *)

Ending == {"learning", "recording", "settling"}
AcceptInv ==
  \A c \in Command :
    (cmd[c].at \in Ending /\ cmd[c].outcome # "refused") => decision.verdict = "accepted"

LEMMA AcceptInit == Init => AcceptInv
BY DEF Init, AcceptInv, Ending, Idle

LEMMA DecisionStep ==
  ASSUME [Next]_vars
  PROVE  UNCHANGED decision \/ \E c \in Command : Decide(c)
<1>1. ASSUME NEW c \in Command, Entry(c) \/ Crash(c)
      PROVE  UNCHANGED decision
  BY <1>1, Zenon DEF Entry, Report, ResentReport, FinalizeAgain, OperatorFinalizes,
     RetryCloseout, Crash, stored
<1>2. ASSUME NEW c \in Command,
             \/ Begin(c) \/ Gates(c) \/ Close(c) \/ Judge(c) \/ Admit(c) \/ Reconcile(c)
             \/ Inspect(c) \/ Stage(c) \/ GitFails(c) \/ Commit(c)
      PROVE  UNCHANGED decision
  BY <1>2, Zenon DEF Begin, Gates, Close, Judge, Admit, Reconcile, Inspect, Stage, GitFails,
     Commit, stored
<1>3. ASSUME NEW c \in Command,
             \/ RecordCommit(c) \/ PushSucceeds(c) \/ PushFails(c) \/ RecordPushed(c)
             \/ Learn(c) \/ Defer(c) \/ Record(c) \/ Settle(c)
      PROVE  UNCHANGED decision
  BY <1>3, Zenon DEF RecordCommit, PushSucceeds, PushFails, RecordPushed, Learn, Defer, Record,
     Settle, stored
<1>4. CASE Edit \/ UserCommit \/ UNCHANGED vars
  BY <1>4, Zenon DEF Edit, UserCommit, vars, stored
<1> QED
  BY <1>1, <1>2, <1>3, <1>4 DEF Next, Progress

LEMMA AskedStep ==
  ASSUME [Next]_vars
  PROVE  \/ UNCHANGED asked
         \/ asked = "no" /\ asked' = "accepted"
         \/ \E c \in Command : Record(c)
<1>1. ASSUME NEW c \in Command, Entry(c) \/ Crash(c)
      PROVE  UNCHANGED asked
  BY <1>1, Zenon DEF Entry, Report, ResentReport, FinalizeAgain, OperatorFinalizes,
     RetryCloseout, Crash
<1>2. ASSUME NEW c \in Command, Judge(c) \/ Decide(c)
      PROVE  UNCHANGED asked \/ (asked = "no" /\ asked' = "accepted")
  BY <1>2 DEF Judge, Decide, Accept
<1>3. ASSUME NEW c \in Command,
             \/ Begin(c) \/ Gates(c) \/ Close(c) \/ Admit(c) \/ Reconcile(c)
             \/ Inspect(c) \/ Stage(c) \/ GitFails(c) \/ Commit(c)
      PROVE  UNCHANGED asked
  BY <1>3, Zenon DEF Begin, Gates, Close, Admit, Reconcile, Inspect, Stage, GitFails, Commit
<1>4. ASSUME NEW c \in Command,
             \/ RecordCommit(c) \/ PushSucceeds(c) \/ PushFails(c) \/ RecordPushed(c)
             \/ Learn(c) \/ Defer(c) \/ Settle(c)
      PROVE  UNCHANGED asked
  BY <1>4, Zenon DEF RecordCommit, PushSucceeds, PushFails, RecordPushed, Learn, Defer, Settle
<1>5. CASE Edit \/ UserCommit \/ UNCHANGED vars
  BY <1>5, Zenon DEF Edit, UserCommit, vars
<1> QED
  BY <1>1, <1>2, <1>3, <1>4, <1>5 DEF Next, Progress

LEMMA FinalizationStep ==
  ASSUME TypeInv, [Next]_vars
  PROVE  \/ run'.finalization = run.finalization
         \/ \E c \in Command : Settle(c)
<1> DEFINE Same == run'.finalization = run.finalization
<1>1. run \in Runs
  BY DEF TypeInv, RowsOK
<1>2. UNCHANGED run => Same
  OBVIOUS
<1>3. ASSUME NEW r \in Runs, r.finalization = run.finalization, run' = Observed(r)
      PROVE  Same
  BY <1>3, ObservedTyped
<1>4. ASSUME NEW c \in Command, NEW request \in Requests, Report(c, request)
      PROVE  Same
  <2> DEFINE q == [run EXCEPT !.status = "active"]
  <2>1. q \in Runs /\ q.finalization = run.finalization
    BY <1>1 DEF Runs, Statuses
  <2>2. run' = Observed(q)
    BY <1>4, Zenon DEF Report
  <2> HIDE DEF q
  <2> QED
    BY <1>3, <2>1, <2>2
<1>5. ASSUME NEW c \in Command,
             \/ ResentReport(c) \/ RetryCloseout(c) \/ Crash(c)
             \/ \E request \in Requests : FinalizeAgain(c, request) \/ OperatorFinalizes(c, request)
      PROVE  UNCHANGED run
  BY <1>5, Zenon DEF ResentReport, FinalizeAgain, OperatorFinalizes, RetryCloseout, Crash, stored
<1>6. ASSUME NEW c \in Command, Begin(c) \/ Reconcile(c)
      PROVE  Same
  <2>1. UNCHANGED run \/ run' = Observed(run)
    BY <1>6, Zenon DEF Begin, Reconcile, Refreshed
  <2> QED
    BY <1>1, <1>2, <1>3, <2>1
<1>7. ASSUME NEW c \in Command, Close(c) \/ Decide(c)
      PROVE  Same
  <2>1. \/ UNCHANGED run
        \/ run' = [run EXCEPT !.state = "CLOSE"]
        \/ run' = [run EXCEPT !.status = "completed"]
        \/ run' = [run EXCEPT !.status = "blocked"]
    BY <1>7, Zenon DEF Close, Decide
  <2> QED
    BY <1>1, <2>1 DEF Runs
<1>8. ASSUME NEW c \in Command,
             \/ Gates(c) \/ Judge(c) \/ Admit(c) \/ Inspect(c) \/ Stage(c) \/ GitFails(c)
             \/ Commit(c)
      PROVE  UNCHANGED run
  BY <1>8, Zenon DEF Gates, Judge, Admit, Inspect, Stage, GitFails, Commit, stored
<1>9. ASSUME NEW c \in Command,
             \/ RecordCommit(c) \/ PushSucceeds(c) \/ PushFails(c) \/ RecordPushed(c)
             \/ Learn(c) \/ Defer(c) \/ Record(c)
      PROVE  UNCHANGED run
  BY <1>9, Zenon DEF RecordCommit, PushSucceeds, PushFails, RecordPushed, Learn, Defer, Record,
     stored
<1>10. ASSUME Edit \/ UserCommit \/ UNCHANGED vars
       PROVE  UNCHANGED run
  BY <1>10, Zenon DEF Edit, UserCommit, vars, stored
<1> HIDE DEF Same
<1>11. ASSUME NEW c \in Command, Entry(c)
       PROVE  Same
  BY <1>2, <1>4, <1>5, <1>11 DEF Entry
<1>12. ASSUME NEW c \in Command, Progress(c), ~Settle(c)
       PROVE  Same
  BY <1>2, <1>6, <1>7, <1>8, <1>9, <1>12 DEF Progress
<1>13. Same \/ \E c \in Command : Settle(c)
  <2>1. ASSUME NEW c \in Command, Entry(c) \/ Progress(c) \/ Crash(c)
        PROVE  Same \/ Settle(c)
    <3>1. CASE Crash(c)
      BY <1>2, <1>5, <3>1
    <3> QED
      BY <1>11, <1>12, <2>1, <3>1
  <2> QED
    BY <1>2, <1>10, <2>1 DEF Next
<1> QED
  BY <1>13 DEF Same

(* A decision that replaces another is an acceptance.                          *)
LEMMA DecideAccepts ==
  ASSUME SafeInv, NEW c \in Command, Decide(c)
  PROVE  decision'.verdict = "accepted"
<1>1. cmd[c].at = "deciding" /\ cmd[c].verdict = "accepted"
  BY DEF Decide, At, SafeInv, CommandInv
<1> QED
  BY <1>1 DEF Decide

(* Behind the closeout comes a command that has gone on or has taken part in it,  *)
(* or whose run was just accepted.                                             *)
LEMMA IntoEnding ==
  ASSUME TypeInv, NEW c \in Command, Entry(c) \/ Progress(c) \/ Crash(c),
         cmd'[c].at \in Ending, cmd'[c].outcome # "refused"
  PROVE  \/ cmd[c].at \in Ending /\ cmd[c].outcome # "refused"
         \/ cmd[c].at \in Closing \ {"judging", "deciding"} /\ cmd[c].kind # "closeout"
         \/ Judge(c) /\ IsFinalizationRetry(c)
         \/ Decide(c) /\ cmd[c].verdict = "accepted"
<1> DEFINE Elsewhere == cmd'[c].at \notin Ending \/ cmd'[c].outcome = "refused"
           Taken == cmd[c].kind # "closeout" \/ Elsewhere
<1>1. LocalsOK /\ cmd[c] \in Locals
  BY DEF TypeInv, LocalsOK
<1>2. ASSUME NEW l, Become(c, l)
      PROVE  cmd'[c] = l
  BY <1>1, <1>2 DEF Become, LocalsOK
<1>3. ASSUME NEW place \in Places \ Ending, Go(c, place)
      PROVE  Elsewhere
  BY <1>1, <1>3, FieldsOfGo
<1>4. ASSUME NEW outcome \in Outcomes, EndCloseout(c, outcome)
      PROVE  Taken
  BY <1>1, <1>4, FieldsOfEndCloseout DEF Ending
<1>5. ASSUME Become(c, Idle)
      PROVE  Elsewhere
  BY <1>1, <1>5, FieldsOfIdle DEF Ending
<1>6. ASSUME Refused(c)
      PROVE  Elsewhere
  BY <1>1, <1>6, ConcludeTyped, Constants DEF Refused
<1>7. CASE Entry(c)
  <2>1. ASSUME NEW k \in Kinds, NEW r \in Requests, Enter(c, k, r)
        PROVE  Elsewhere
    BY <1>1, <2>1, FieldsOfEnter DEF Ending
  <2>2. CASE RetryCloseout(c)
    <3> DEFINE l == [Idle EXCEPT !.at = "reconciling", !.kind = "closeout",
                       !.prior = closeout, !.sha = closeout.sha, !.commit = closeout.sha]
    <3>1. l.at = "reconciling"
      BY IdleTyped DEF Locals
    <3>2. Become(c, l)
      BY <2>2, Zenon DEF RetryCloseout
    <3> HIDE DEF l
    <3> QED
      BY <1>2, <3>1, <3>2 DEF Ending
  <2>3. \/ UNCHANGED cmd /\ cmd[c].at = "idle"
        \/ \E k \in Kinds, r \in Requests : Enter(c, k, r)
        \/ RetryCloseout(c)
    BY <1>7, Constants DEF Entry, Report, ResentReport, FinalizeAgain, OperatorFinalizes,
       TypeInv, RowsOK, At
  <2> QED
    BY <2>1, <2>2, <2>3 DEF Ending
<1>8. CASE Gates(c) \/ Close(c)
  <2>1. Go(c, "closing") \/ Go(c, "judging") \/ Refused(c) \/ Become(c, Idle)
    BY <1>8, Zenon DEF Gates, Close
  <2> QED
    BY <1>3, <1>5, <1>6, <2>1, Constants DEF Ending
<1>9. CASE Judge(c)
  <2> DEFINE verdict == IF run.state = "CLOSE" /\ Fresh THEN "accepted" ELSE "blocked"
             l == [cmd[c] EXCEPT !.at = "deciding", !.revision = run.revision,
                     !.verdict = verdict]
  <2>1. l.at = "deciding"
    BY <1>1 DEF Locals
  <2>2. IsFinalizationRetry(c) \/ Become(c, l)
    BY <1>9, Zenon DEF Judge
  <2> HIDE DEF l
  <2> QED
    BY <1>2, <1>9, <2>1, <2>2 DEF Ending
<1>10. CASE Decide(c)
  <2>1. cmd[c].verdict = "accepted" \/ Refused(c)
    BY <1>10, Zenon DEF Decide
  <2> QED
    BY <1>6, <1>10, <2>1
<1>11. CASE Reconcile(c)
  <2> DEFINE l == [cmd[c] EXCEPT !.seen = own,
                     !.at = IF cmd[c].kind = "closeout" THEN "pushing" ELSE "inspecting"]
  <2>1. l.at \in {"pushing", "inspecting"}
    BY <1>1 DEF Locals
  <2>2. (EndCloseout(c, "failed") \/ Become(c, l)) /\ cmd[c].at = "reconciling"
    BY <1>11, Zenon DEF Reconcile, At
  <2> HIDE DEF l
  <2> QED
    BY <1>2, <1>4, <2>1, <2>2, Constants DEF Ending, Closing
<1>12. CASE Inspect(c)
  <2> DEFINE l == [cmd[c] EXCEPT !.at = "staging", !.expected = head]
  <2>1. l.at = "staging"
    BY <1>1 DEF Locals
  <2>2. /\ cmd[c].at = "inspecting"
        /\ \/ EndCloseout(c, "failed") \/ EndCloseout(c, "skipped") \/ Go(c, "pushing")
           \/ Become(c, l)
    BY <1>12, Zenon DEF Inspect, At
  <2> HIDE DEF l
  <2> QED
    BY <1>2, <1>3, <1>4, <2>1, <2>2, Constants DEF Ending, Closing
<1>13. CASE Stage(c)
  <2> DEFINE l == [cmd[c] EXCEPT !.at = "committing", !.staged = own]
  <2>1. l.at = "committing"
    BY <1>1 DEF Locals
  <2>2. Become(c, l)
    BY <1>13, Zenon DEF Stage
  <2> HIDE DEF l
  <2> QED
    BY <1>2, <2>1, <2>2 DEF Ending
<1>14. CASE Commit(c)
  <2> DEFINE sha == Append(cmd[c].expected, [by |-> "kernel", content |-> cmd[c].staged])
             l == [cmd[c] EXCEPT !.at = "committed", !.commit = sha]
  <2>1. l.at = "committed"
    BY <1>1 DEF Locals
  <2>2. (EndCloseout(c, "failed") \/ Become(c, l)) /\ cmd[c].at = "committing"
    BY <1>14, Zenon DEF Commit, At
  <2> HIDE DEF l
  <2> QED
    BY <1>2, <1>4, <2>1, <2>2, Constants DEF Ending, Closing
<1>15. CASE Admit(c) \/ GitFails(c) \/ PushFails(c) \/ RecordPushed(c)
  <2>1. /\ cmd[c].at \in {"admitting", "staging", "pushing", "pushed"}
        /\ EndCloseout(c, "failed") \/ EndCloseout(c, "completed") \/ Go(c, "reconciling")
    BY <1>15, Zenon DEF Admit, GitFails, PushFails, RecordPushed, At
  <2> QED
    BY <1>3, <1>4, <2>1, Constants DEF Ending, Closing
<1>16. CASE RecordCommit(c) \/ PushSucceeds(c) \/ Settle(c) \/ Crash(c)
  <2>1. Go(c, "pushing") \/ Go(c, "pushed") \/ Become(c, Idle)
    BY <1>16, Zenon DEF RecordCommit, PushSucceeds, Settle, Crash
  <2> QED
    BY <1>3, <1>5, <2>1, Constants DEF Ending
<1>17. CASE Learn(c) \/ Defer(c) \/ Record(c)
  <2>1. /\ cmd[c].at \in Ending
        /\ Learn(c) \/ Go(c, "recording") \/ Go(c, "settling")
    BY <1>17, Zenon DEF Learn, Defer, Record, At, Ending
  <2>2. cmd'[c].outcome = cmd[c].outcome
    BY <1>1, <2>1, FieldsOfLearn, FieldsOfGo, Constants
  <2> QED
    BY <2>1, <2>2
<1>18. CASE Begin(c)
  <2> DEFINE l == [cmd[c] EXCEPT !.at = "gates", !.prior = closeout,
                     !.request = Requested(cmd[c].request), !.chosen = PathsChosen,
                     !.sha = ExistingSha(cmd[c].request),
                     !.commit = ExistingSha(cmd[c].request),
                     !.status = run.status, !.state = run.state]
  <2>1. l.at = "gates"
    BY <1>1 DEF Locals
  <2>2. Become(c, l)
    BY <1>18, Zenon DEF Begin
  <2> HIDE DEF l
  <2> QED
    BY <1>2, <2>1, <2>2 DEF Ending
<1> QED
  BY <1>7, <1>8, <1>9, <1>10, <1>11, <1>12, <1>13, <1>14, <1>15, <1>16, <1>17, <1>18 DEF Progress

LEMMA AcceptStep ==
  TypeInv /\ SafeInv /\ AcceptInv /\ [Next]_vars => AcceptInv'
<1> SUFFICES ASSUME TypeInv, SafeInv, AcceptInv, [Next]_vars, NEW d \in Command,
                    cmd'[d].at \in Ending, cmd'[d].outcome # "refused"
             PROVE  decision'.verdict = "accepted"
  BY DEF AcceptInv
<1>1. ASSUME decision.verdict = "accepted"
      PROVE  decision'.verdict = "accepted"
  BY <1>1, DecisionStep, DecideAccepts
<1>2. ASSUME NEW c \in Command, Entry(c) \/ Progress(c) \/ Crash(c)
      PROVE  decision'.verdict = "accepted"
  <2>1. CASE d = c
    <3>1. CASE Decide(c)
      BY <3>1, DecideAccepts
    <3>2. CASE ~Decide(c)
      <4>1. \/ cmd[c].at \in Ending /\ cmd[c].outcome # "refused"
            \/ cmd[c].at \in Closing \ {"judging", "deciding"} /\ cmd[c].kind # "closeout"
            \/ IsFinalizationRetry(c)
        BY <1>2, <2>1, <3>2, IntoEnding
      <4>2. decision.verdict = "accepted"
        BY <4>1 DEF AcceptInv, SafeInv, CommandInv, IsFinalizationRetry
      <4> QED
        BY <1>1, <4>2
    <3> QED
      BY <3>1, <3>2
  <2>2. CASE d # c
    <3>1. cmd'[d] = cmd[d]
      BY <1>2, <2>2, LocalsStep
    <3> QED
      BY <1>1, <3>1 DEF AcceptInv
  <2> QED
    BY <2>1, <2>2
<1>3. CASE Edit \/ UserCommit \/ UNCHANGED vars
  <2>1. UNCHANGED cmd
    BY <1>3, Zenon DEF Edit, UserCommit, vars
  <2> QED
    BY <1>1, <2>1 DEF AcceptInv
<1> QED
  BY <1>2, <1>3 DEF Next

(* The branch at origin has the Kernel's commits of the local one, or none.     *)
LEMMA OriginHas ==
  ASSUME TypeInv, Prefix(remote, head), OneCommit
  PROVE  ByKernel(remote) = {} \/ ByKernel(remote) = ByKernel(head)
<1>1. remote \in Shas /\ head \in Shas
  BY DEF TypeInv, TreeOK
<1>2. /\ DOMAIN remote = 1..Len(remote) /\ DOMAIN head = 1..Len(head)
      /\ Len(remote) \in Nat /\ Len(head) \in Nat
  BY <1>1, LenProperties DEF Shas
<1>3. Len(remote) <= Len(head) /\ \A i \in 1..Len(remote) : head[i] = remote[i]
  BY <1>1, Prefixes
<1>4. ByKernel(remote) \subseteq ByKernel(head)
  BY <1>2, <1>3 DEF ByKernel
<1> QED
  BY <1>4 DEF OneCommit

LEMMA PromiseInit == Init => Promise!Init
BY Branches DEF Init, Promise!Init, NoSha

(* Steps that the promise does not see.                                        *)
LEMMA PromiseKept ==
  ASSUME decision'.verdict = "accepted" <=> decision.verdict = "accepted",
         ByKernel(head') = ByKernel(head), ByKernel(remote') = ByKernel(remote),
         asked' = "recorded" <=> asked = "recorded",
         run'.finalization = "completed" <=> run.finalization = "completed"
  PROVE  UNCHANGED Promise!vars
BY DEF Promise!vars, ByKernel

LEMMA PromiseStep ==
  ASSUME TypeInv, SafeInv, DeliverInv, AcceptInv, OneCommit, OneCommit', Prefix(remote, head),
         AskInv', [Next]_vars
  PROVE  [Promise!Next]_Promise!vars
<1>1. /\ decision' = decision => (decision'.verdict = "accepted" <=> decision.verdict = "accepted")
      /\ head' = head => ByKernel(head') = ByKernel(head)
      /\ remote' = remote => ByKernel(remote') = ByKernel(remote)
      /\ asked' = asked => (asked' = "recorded" <=> asked = "recorded")
      /\ run' = run => run'.finalization = run.finalization
  OBVIOUS
<1>2. ASSUME NEW c \in Command, Decide(c)
      PROVE  Promise!Accept \/ UNCHANGED Promise!vars
  <2>1. decision'.verdict = "accepted"
    BY <1>2, DecideAccepts
  <2>2. head' = head /\ remote' = remote
    BY <1>2, Zenon DEF Decide, git
  <2>3. asked' = "recorded" <=> asked = "recorded"
    BY <1>2 DEF Decide, Accept
  <2>4. run'.finalization = run.finalization
    BY <1>2 DEF Decide, TypeInv, RowsOK, Runs
  <2>5. CASE decision.verdict = "accepted"
    BY <1>1, <2>1, <2>2, <2>3, <2>4, <2>5, PromiseKept
  <2>6. CASE decision.verdict # "accepted"
    BY <2>1, <2>2, <2>3, <2>4, <2>6 DEF Promise!Accept, ByKernel
  <2> QED
    BY <2>5, <2>6
<1>3. ASSUME NEW c \in Command, Commit(c)
      PROVE  Promise!Commit \/ UNCHANGED Promise!vars
  <2>1. UNCHANGED <<run, decision, remote, asked>> /\ cmd[c].at = "committing"
    BY <1>3, Zenon DEF Commit, stored, At
  <2>2. CASE head' = head
    BY <1>1, <2>1, <2>2, PromiseKept
  <2>3. CASE head' = Append(head, [by |-> "kernel", content |-> cmd[c].staged])
    <3>1. cmd[c].kind # "closeout" /\ ByKernel(head) = {}
      BY <2>1 DEF SafeInv, CommandInv, Kernel
    <3>2. decision.verdict = "accepted"
      BY <2>1, <3>1 DEF SafeInv, CommandInv, Closing
    <3>3. head \in Shas /\ cmd[c].staged \in Contents
      BY DEF TypeInv, TreeOK, LocalsOK, Locals
    <3>4. ByKernel(head') = {Len(head) + 1}
      BY <2>3, <3>1, <3>3, Branches, EntryType
    <3> QED
      BY <2>1, <3>1, <3>2, <3>4 DEF Promise!Commit, ByKernel
  <2>4. CASE ~NoConflict(c)
    BY <1>1, <1>3, <2>1, <2>4, PromiseKept DEF Commit
  <2> QED
    BY <1>3, <2>2, <2>3, <2>4 DEF Commit, NoConflict
<1>4. CASE UserCommit
  <2>1. UNCHANGED <<run, decision, remote, asked>>
    BY <1>4, Zenon DEF UserCommit, stored
  <2>2. ByKernel(head') = ByKernel(head)
    BY <1>4, Branches, EntryType DEF UserCommit, TypeInv, TreeOK
  <2> QED
    BY <1>1, <2>1, <2>2, PromiseKept
<1>5. ASSUME NEW c \in Command, PushSucceeds(c) \/ PushFails(c)
      PROVE  Promise!Deliver \/ UNCHANGED Promise!vars
  <2>1. UNCHANGED <<run, decision, head, asked>> /\ cmd[c].at = "pushing"
    BY <1>5, Zenon DEF PushSucceeds, PushFails, stored, At
  <2>2. remote' = remote \/ (remote' = head /\ head = cmd[c].commit)
    BY <1>5 DEF PushSucceeds, PushFails
  <2>3. CASE ByKernel(remote') = ByKernel(remote)
    BY <1>1, <2>1, <2>3, PromiseKept
  <2>4. CASE ByKernel(remote') # ByKernel(remote)
    <3>1. remote' = head /\ head = cmd[c].commit
      BY <2>2, <2>4
    <3>2. ByKernel(head) # {}
      BY <2>1, <3>1 DEF DeliverInv, DeliveryInv, Kernel
    <3>3. ByKernel(remote) = {}
      BY <2>4, <3>1, OriginHas
    <3> QED
      BY <2>1, <3>1, <3>2, <3>3 DEF Promise!Deliver, ByKernel
  <2> QED
    BY <2>3, <2>4
<1>6. ASSUME NEW c \in Command, Record(c)
      PROVE  Promise!Request \/ UNCHANGED Promise!vars
  <2>1. UNCHANGED <<run, decision, head, remote>> /\ cmd[c].at = "recording"
    BY <1>6, Zenon DEF Record, git, At
  <2>2. asked' = IF Asks(c) /\ cmd[c].outcome # "refused" THEN "recorded" ELSE asked
    BY <1>6, Zenon DEF Record
  <2>3. CASE asked' = "recorded" <=> asked = "recorded"
    BY <1>1, <2>1, <2>3, PromiseKept
  <2>4. CASE ~(asked' = "recorded" <=> asked = "recorded")
    <3>1. /\ asked # "recorded" /\ asked' = "recorded"
          /\ run.finalization # "completed" /\ cmd[c].outcome # "refused"
      BY <2>2, <2>4 DEF Asks
    <3>2. decision.verdict = "accepted"
      BY <2>1, <3>1 DEF AcceptInv, Ending
    <3> QED
      BY <2>1, <3>1, <3>2 DEF Promise!Request, ByKernel
  <2> QED
    BY <2>3, <2>4
<1>7. ASSUME NEW c \in Command, Settle(c)
      PROVE  Promise!Finish \/ Promise!Reopen \/ UNCHANGED Promise!vars
  <2>1. UNCHANGED <<decision, head, remote, asked>> /\ cmd[c].at = "settling"
    BY <1>7, Zenon DEF Settle, git, At
  <2>2. run'.finalization = "completed" => cmd[c].outcome # "refused"
    BY <1>7 DEF Settle, TypeInv, RowsOK, Runs
  <2>3. CASE run'.finalization = "completed" <=> run.finalization = "completed"
    BY <1>1, <2>1, <2>3, PromiseKept
  <2>4. CASE run'.finalization = "completed" /\ run.finalization # "completed"
    <3>1. decision.verdict = "accepted"
      BY <2>1, <2>2, <2>4 DEF AcceptInv, Ending
    <3>2. asked = "recorded" => ByKernel(remote') # {}
      BY <2>1, <2>4 DEF AskInv, RequestRowInv, Kernel, ByKernel
    <3>3. asked = "recorded" => ByKernel(remote) # {}
      BY <2>1, <3>2
    <3> QED
      BY <2>1, <2>4, <3>1, <3>3 DEF Promise!Finish, ByKernel
  <2>5. CASE run'.finalization # "completed" /\ run.finalization = "completed"
    BY <2>1, <2>5 DEF Promise!Reopen, ByKernel
  <2> QED
    BY <2>3, <2>4, <2>5
<1>8. CASE /\ ~\E c \in Command : \/ Decide(c) \/ Commit(c) \/ PushSucceeds(c) \/ PushFails(c)
                                  \/ Record(c) \/ Settle(c)
           /\ ~UserCommit
  <2>1. decision' = decision
    BY <1>8, DecisionStep
  <2>2. head' = head
    BY <1>8, HeadStep
  <2>3. remote' = remote
    BY <1>8, OriginStep
  <2>4. asked' = "recorded" <=> asked = "recorded"
    BY <1>8, AskedStep
  <2>5. run'.finalization = run.finalization
    BY <1>8, FinalizationStep
  <2> QED
    BY <1>1, <2>1, <2>2, <2>3, <2>4, <2>5, PromiseKept
<1> QED
  BY <1>2, <1>3, <1>4, <1>5, <1>6, <1>7, <1>8 DEF Promise!Next

(* Whatever is retried, fails or dies, reports and commands that come one after  *)
(* the other finalize the run as OneDelivery promises.                         *)
THEOREM FinalizationDelivers ==
  ASSUME Serial
  PROVE  Spec => DeliversAsPromised
<1>1. Init => OneCommit
  BY Branches DEF Init, OneCommit, NoSha
<1>2. Init => Prefix(remote, head)
  BY OriginPrefix
<1>3. TypeInv /\ Prefix(remote, head) /\ [Next]_vars => Prefix(remote, head)'
  BY OriginPrefix
<1>4. TypeInv /\ SafeInv /\ DeliverInv /\ AcceptInv /\ OneCommit /\ OneCommit' /\
      Prefix(remote, head) /\ AskInv' /\ [Next]_vars => [Promise!Next]_Promise!vars
  BY PromiseStep
<1> QED
  BY TypeInit, TypeStep, AloneInit, AloneStep, SafeInit, SafeStep, DeliverInit, DeliverStep,
     AskInit, AskStep, AcceptInit, AcceptStep, OneCommitStep, PromiseInit, <1>1, <1>2, <1>3,
     <1>4, PTL DEF Spec, DeliversAsPromised, Promise!Spec

=============================================================================
