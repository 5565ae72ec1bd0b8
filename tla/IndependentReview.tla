-------------------------- MODULE IndependentReview --------------------------
(***************************************************************************)
(* The independent review of one judgment obligation, at one step and plan  *)
(* of a run.  A Host prepares a reviewer turn (dispatchKernelTurn), claims   *)
(* the subject for five minutes, lets a reviewer work, and ingests the       *)
(* verdict: the Kernel compares the reviewer's capsule with the run, writes  *)
(* a receipt and lets the receipt prove the obligation.  Other Hosts, an     *)
(* operator who approves, an agent that edits and reports, and proofs that   *)
(* run again may come between any two of these steps; a Host may die.        *)
(*                                                                         *)
(* The run stays in PROVE.  Every routed reviewer is enforced, of another    *)
(* session and of the frontier class, or its outcome is refused.             *)
(***************************************************************************)
EXTENDS Naturals

CONSTANTS
  Host,         \* calls of dispatchKernelTurn for the obligation
  Operator,     \* operators who approve it
  Content,      \* contents of the worktree (workspace identities)
  Evidence,     \* sets of hard evidence (evidence digests)
  Paths, PathsOf,  \* changed paths each of them names
  MaxRevision,  \* bound: mutation revisions
  MaxOthers, \* bound: approvals, reviews by callers and proofs that run again
  None

Actor == Host \cup Operator
Subject == [revision : 0..MaxRevision, content : Content, evidence : Evidence, paths : Paths]
Verdict == {"pass", "fail"}
Receipt == [subject : Subject, verdict : Verdict, routed : BOOLEAN, shown : Content]

ASSUME ReviewAssumption ==
  /\ Host \cap Operator = {}
  /\ PathsOf \in [Actor -> Paths]
  /\ {MaxRevision, MaxOthers} \subseteq Nat
  /\ None \notin Actor \cup Content \cup Verdict \cup Receipt \cup [by : Host, revision : Nat]

VARIABLES
  tree,      \* content of the worktree
  run,       \* mutation revision, and the content it was counted for
  evidence,  \* hard evidence of the run
  claim,     \* the newest review claim, until it runs out
  receipts,  \* review_receipts of the obligation; `shown' is history: the
             \* content the verdict was formed on
  proof,     \* latest verification of the obligation
  job,       \* what each Host and operator is at
  others,    \* approvals, reviews by callers and proofs so far
  moved      \* history: a change of the worktree was observed by somebody
             \* else while a Host was ingesting a verdict

vars == <<tree, run, evidence, claim, receipts, proof, job, others, moved>>

Working == {"reviewing", "ingested", "recording", "settled"}
Ingesting == {"ingested", "recording"}
Places == {"idle", "prepared", "looked", "approving"} \cup Working

Job == [at : Places,
        revision : 0..MaxRevision, content : Content \cup {None},  \* of the capsule
        found : Content \cup {None},    \* of the run, when recordReview began
        verdict : Verdict \cup {None}, receipt : Receipt \cup {None},
        late : BOOLEAN]                 \* history: its claim ran out
NoJob == [at |-> "idle", revision |-> 0, content |-> None, found |-> None,
          verdict |-> None, receipt |-> None, late |-> FALSE]

ReviewTypeOK ==
  /\ tree \in Content
  /\ run \in [revision : 0..MaxRevision, content : Content]
  /\ evidence \in Evidence
  /\ claim \in [by : Host, revision : 0..MaxRevision] \cup {None}
  /\ receipts \subseteq Receipt
  /\ proof \in [passed : BOOLEAN, revision : 0..MaxRevision, receipt : Receipt] \cup {None}
  /\ job \in [Actor -> Job]
  /\ others \in 0..MaxOthers
  /\ moved \in BOOLEAN

Init ==
  /\ tree \in Content
  /\ run = [revision |-> 0, content |-> tree]
  /\ evidence \in Evidence
  /\ claim = None
  /\ receipts = {}
  /\ proof = None
  /\ job = [a \in Actor |-> NoJob]
  /\ others = 0
  /\ moved = FALSE

-----------------------------------------------------------------------------
(* What the Kernel asks of receipts. *)

IsCurrent(r) ==
  /\ r.subject.revision = run.revision
  /\ r.subject.content = run.content
  /\ r.subject.evidence = evidence

(* findReusableReviewReceipt: it asks for the verdict and the subject only. *)
Reusable == \E r \in receipts : r.verdict = "pass" /\ IsCurrent(r)

(* The obligation is proven: a passing verification of this revision whose     *)
(* receipt passed, was routed (or approved) and is about what is there now.    *)
Satisfied ==
  /\ proof # None
  /\ proof.passed /\ proof.revision = run.revision
  /\ proof.receipt.verdict = "pass" /\ proof.receipt.routed
  /\ IsCurrent(proof.receipt)

(* observeWorkspaceIdentity, by whom. *)
Observes(who) ==
  IF run.content = tree THEN UNCHANGED <<run, moved>>
  ELSE /\ run.revision < MaxRevision
       /\ run' = [revision |-> run.revision + 1, content |-> tree]
       /\ moved' = (moved \/ \E h \in Host \ {who} : job[h].at \in Ingesting)

Go(a, from, to) == job[a].at = from /\ job' = [job EXCEPT ![a].at = to]
Ends(a, from) == job[a].at = from /\ job' = [job EXCEPT ![a] = NoJob]

-----------------------------------------------------------------------------
(* A Host asks for a review. *)

(* prepareHostTurn, unless a receipt makes the review unnecessary: the capsule   *)
(* carries the subject that is on record.                                        *)
Prepare(h) ==
  /\ ~Reusable
  /\ job[h].at = "idle"
  /\ job' = [job EXCEPT ![h].at = "prepared", ![h].revision = run.revision,
                        ![h].content = run.content]
  /\ UNCHANGED <<tree, run, evidence, claim, receipts, proof, others, moved>>

(* The turn is prepared; it looks for a receipt once more. *)
LookAgain(h) ==
  /\ IF Reusable THEN Ends(h, "prepared") ELSE Go(h, "prepared", "looked")
  /\ UNCHANGED <<tree, run, evidence, claim, receipts, proof, others, moved>>

(* claimReviewAttempt, one transaction.  The key of a claim names the revision: *)
(* claims of older ones are in nobody's way.                                    *)
Claimed(h) == claim # None /\ claim.revision = job[h].revision

Claim(h) ==
  /\ IF run.revision # job[h].revision \/ Claimed(h)
     THEN Ends(h, "looked") /\ UNCHANGED claim
     ELSE Go(h, "looked", "reviewing") /\ claim' = [by |-> h, revision |-> job[h].revision]
  /\ UNCHANGED <<tree, run, evidence, receipts, proof, others, moved>>

-----------------------------------------------------------------------------
(* The reviewer works.                                                         *)

(* A transport failed.  Before the next one is tried the subject is compared    *)
(* with the worktree; on a stale one the Host ends and keeps its claim.         *)
FallBack(h) ==
  /\ job[h].content # tree \/ job[h].revision # run.revision \/ run.content # tree
  /\ Ends(h, "reviewing")
  /\ Observes(h)
  /\ UNCHANGED <<tree, evidence, claim, receipts, proof, others>>

(* The last transport failed: releaseReviewClaim, by key and holder. *)
OwnsKey(h) == claim # None /\ claim.revision = job[h].revision  \* mutant: by key only
Owns(h) == claim # None /\ claim.by = h /\ claim.revision = job[h].revision

GiveUp(h) ==
  /\ Ends(h, "reviewing")
  /\ claim' = IF Owns(h) THEN None ELSE claim
  /\ UNCHANGED <<tree, run, evidence, receipts, proof, others, moved>>

(* ingestReviewerOutcome.  A claim that has run out is not asked for; `blocked', *)
(* and a reviewer that ends without a verdict, end the call, claim and all.      *)
ChainAny(h) == TRUE  \* mutant: the capsule's subject is not compared
Chain(h) == run.revision = job[h].revision /\ run.content = job[h].content

Ingest(h, verdict) ==
  /\ IF tree # run.content THEN Ends(h, "reviewing") /\ Observes(h)
     ELSE /\ UNCHANGED <<run, moved>>
          /\ IF ~Chain(h) \/ verdict = None THEN Ends(h, "reviewing")
             ELSE /\ job[h].at = "reviewing"
                  /\ job' = [job EXCEPT ![h].at = "ingested", ![h].verdict = verdict]
  /\ UNCHANGED <<tree, evidence, claim, receipts, proof, others>>

-----------------------------------------------------------------------------
(* recordReview: it reads the run again and no longer knows the capsule. *)

Record(h) ==
  /\ IF tree # run.content THEN Ends(h, "ingested")
     ELSE /\ job[h].at = "ingested"
          /\ job' = [job EXCEPT ![h].at = "recording", ![h].found = run.content]
  /\ Observes(h)
  /\ UNCHANGED <<tree, evidence, claim, receipts, proof, others>>

(* settleReviewReceipt: the first receipt of a subject stays, whatever the      *)
(* verdict of the next one.                                                     *)
AlwaysNew(r) == r  \* mutant: no receipt is adopted
Settled(r) ==
  LET same == {q \in receipts : q.routed /\ q.subject = r.subject}
  IN IF same = {} THEN r ELSE CHOOSE q \in same : TRUE

Settles(a, r) ==
  /\ receipts' = receipts \cup {Settled(r)}
  /\ job' = [job EXCEPT ![a].at = "settled", ![a].receipt = Settled(r)]

(* The second look at the worktree, and the receipt: of the revision, the       *)
(* content and the evidence there are now.                                      *)
Settle(h) ==
  /\ job[h].at = "recording"
  /\ \/ tree # job[h].found /\ Ends(h, "recording") /\ Observes(h) /\ UNCHANGED receipts
     \/ /\ tree = job[h].found
        /\ Settles(h, [subject |-> [revision |-> run.revision, content |-> run.content,
                                    evidence |-> evidence, paths |-> PathsOf[h]],
                       verdict |-> job[h].verdict, routed |-> TRUE, shown |-> job[h].content])
        /\ UNCHANGED <<run, moved>>
  /\ UNCHANGED <<tree, evidence, claim, proof, others>>

(* recordProof: the status is the new verdict's, the receipt may be an older one. *)
Prove(a) ==
  /\ Ends(a, "settled")
  /\ proof' = [passed |-> job[a].verdict = "pass", revision |-> run.revision,
               receipt |-> job[a].receipt]
  /\ UNCHANGED <<tree, run, evidence, claim, receipts, others, moved>>

-----------------------------------------------------------------------------
(* Other ways to a judgment. *)

(* approveObligation, of an obligation that is outstanding; a change of the      *)
(* worktree is observed and does not stop it.                                    *)
Approve(o) ==
  /\ job[o].at = "idle"
  /\ others < MaxOthers
  /\ others' = others + 1
  /\ ~Satisfied \/ tree # run.content
  /\ Observes(o)
  /\ job' = [job EXCEPT ![o].at = "approving", ![o].revision = run'.revision,
                        ![o].content = run'.content, ![o].verdict = "pass"]
  /\ UNCHANGED <<tree, evidence, claim, receipts, proof>>

SettleApproval(o) ==
  /\ job[o].at = "approving"
  /\ Settles(o, [subject |-> [revision |-> job[o].revision, content |-> job[o].content,
                              evidence |-> evidence, paths |-> PathsOf[o]],
                 verdict |-> "pass", routed |-> TRUE, shown |-> job[o].content])
  /\ UNCHANGED <<tree, run, evidence, claim, proof, others, moved>>

(* recordReview by a caller that routed no reviewer. *)
CallerReviews(verdict, p) ==
  LET r == [subject |-> [revision |-> run.revision, content |-> tree,
                         evidence |-> evidence, paths |-> p],
            verdict |-> verdict, routed |-> FALSE, shown |-> tree]
  IN /\ tree = run.content
     /\ others < MaxOthers
     /\ others' = others + 1
     /\ receipts' = receipts \cup {r}
     /\ proof' = [passed |-> verdict = "pass", revision |-> run.revision, receipt |-> r]
     /\ UNCHANGED <<tree, run, evidence, claim, job, moved>>

-----------------------------------------------------------------------------
(* What happens around them. *)

Edit ==
  /\ \E c \in Content \ {tree} : tree' = c
  /\ UNCHANGED <<run, evidence, claim, receipts, proof, job, others, moved>>

ReportObserves ==
  /\ tree # run.content
  /\ Observes(None)
  /\ UNCHANGED <<tree, evidence, claim, receipts, proof, job, others>>

ProofRuns ==
  /\ others < MaxOthers
  /\ others' = others + 1
  /\ \E e \in Evidence \ {evidence} : evidence' = e
  /\ UNCHANGED <<tree, run, claim, receipts, proof, job, moved>>

(* From then on it is as if there were no claim: the next one clears it. *)
ClaimExpires ==
  /\ claim # None
  /\ claim' = None
  /\ job' = [job EXCEPT ![claim.by].late = (job[claim.by].at \in Working)]
  /\ UNCHANGED <<tree, run, evidence, receipts, proof, others, moved>>

(* A Host or an operator's command dies, or throws (recordProof does when the   *)
(* run has left PROVE).                                                         *)
Crash(a) ==
  /\ job[a].at # "idle"
  /\ Ends(a, job[a].at)
  /\ UNCHANGED <<tree, run, evidence, claim, receipts, proof, others, moved>>

Dispatch(h) ==
  \/ Prepare(h) \/ LookAgain(h) \/ Claim(h) \/ FallBack(h) \/ GiveUp(h)
  \/ \E verdict \in Verdict \cup {None} : Ingest(h, verdict)
  \/ Record(h) \/ Settle(h)

Next ==
  \/ \E h \in Host : Dispatch(h)
  \/ \E o \in Operator : Approve(o) \/ SettleApproval(o)
  \/ \E a \in Actor : Prove(a) \/ Crash(a)
  \/ \E verdict \in Verdict, p \in Paths : CallerReviews(verdict, p)
  \/ Edit \/ ReportObserves \/ ProofRuns \/ ClaimExpires

Spec == Init /\ [][Next]_vars

-----------------------------------------------------------------------------
(* Properties. *)

(* Two reviewers are not at work on one subject, however claims run out, are    *)
(* taken over, given back late and taken again, unless the claim of one of      *)
(* them has run out: a late release does not free the claim of the Host that    *)
(* took over (work-attempt-store.ts:662).                                       *)
AtWork(h) == job[h].at \in Working /\ ~job[h].late
OneReviewer ==
  \A g, h \in Host :
    (AtWork(g) /\ AtWork(h) /\ job[g].revision = job[h].revision) => g = h

(* What proves the obligation is a verdict on the content the run is at, late    *)
(* and repeated reviews, adopted receipts and approvals included, unless a       *)
(* change was observed by somebody else between the comparison with the capsule  *)
(* and the receipt (control-plane.ts:3286, 3007).                                *)
VerdictOnSubject ==
  (Satisfied /\ ~moved) => proof.receipt.shown = run.content

(* No subject that failed its review is proven by reviewing it again: whoever    *)
(* reviews or approves the same subject adopts the first receipt of it           *)
(* (trust-store.ts:500).                                                         *)
FirstVerdictStands ==
  Satisfied => \A r \in receipts :
    (r.routed /\ r.subject = proof.receipt.subject) => r.verdict = "pass"

(* Whoever routes a reviewer, takes over from one, approves, dies or comes late:  *)
(* a subject is judged once, its verdict stays, and no proof rests on a verdict   *)
(* that is not on record.  (A receipt of a caller that routed nobody is no        *)
(* judgement.)                                                                   *)
Judged ==
  {[subject |-> r.subject, verdict |-> r.verdict] : r \in {q \in receipts : q.routed}}
Resting ==
  IF proof # None /\ proof.receipt.routed
    THEN [subject |-> proof.receipt.subject, verdict |-> proof.receipt.verdict]
    ELSE None
First == INSTANCE FirstVerdict WITH judged <- Judged, resting <- Resting
SubjectsAreJudgedOnce == First!Spec

=============================================================================
