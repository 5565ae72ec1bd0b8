---------------------------- MODULE Finalization ----------------------------
(***************************************************************************)
(* How a run whose work is done becomes finished (finalizeRun): the gates,  *)
(* the transition to CLOSE, the completion decision, the Git closeout       *)
(* (commit, push), the knowledge and the finalization receipt.  Each is a   *)
(* write of its own; between any two of them the process can die, and       *)
(* another command, an edit or a commit of the user's can come.             *)
(*                                                                         *)
(* One run and one worktree.  A branch is the sequence of its commits since *)
(* the run began and stands for the sha of the last one.  `own' is the      *)
(* content of the run's paths, 0 when they are as in HEAD; `stray' says     *)
(* that some other path is dirty.  The triple stands for the workspace      *)
(* identity.  The states before PROVE are folded into PROVE.                *)
(***************************************************************************)
EXTENDS Naturals, Sequences

CONSTANTS
  Command,           \* command processes
  Asked,             \* closeout requests that are made, with a report key or plain
  Stray,             \* may another path be dirty when the run begins?
  KnowledgeRequired, \* taskContract.flags.knowledgeRequired
  Operator,          \* does an operator use `kernel finalize' and `git-closeout'?
  MaxEdits,          \* bound: edits and commits of the user
  MaxCrashes         \* bound: command processes that die

ASSUME FinalizationAssumption ==
  /\ Asked \subseteq {"keyed", "plain"}
  /\ Stray \subseteq BOOLEAN
  /\ KnowledgeRequired \in BOOLEAN
  /\ Operator \in BOOLEAN
  /\ MaxEdits \in Nat
  /\ MaxCrashes \in Nat

VARIABLES
  run,        \* row of runs
  proof,      \* the evidence: its mutation revision and what it was run on
  decision,   \* row of completion_decisions
  closeout,   \* row of git_closeout_receipts
  receipt,    \* row of finalization_receipts
  journal,    \* closeout request of a checkpointed report, "no" when it is settled
  head,       \* the branch
  remote,     \* the branch at origin
  own, stray, \* the worktree
  cmd,        \* locals of each command
  asked,      \* history: how far a closeout request for the unfinished run got
  edits, crashes

stored == <<run, proof, decision, closeout, receipt, journal>>
git == <<head, remote, own, stray>>
vars == <<stored, git, cmd, asked, edits, crashes>>

Contents == 0..2
Requests == {"none"} \cup Asked
NoSha == <<>>
NoCloseout == [status |-> "none", sha |-> NoSha, key |-> FALSE]
NoReceipt == [request |-> "none", chosen |-> FALSE, sha |-> NoSha]
Idle == [at |-> "idle", kind |-> "finalize", request |-> "none", chosen |-> FALSE,
         prior |-> NoCloseout, sha |-> NoSha, status |-> "active",
         state |-> "PROVE", verdict |-> "none", revision |-> 0,
         expected |-> NoSha, commit |-> NoSha, staged |-> 0, seen |-> 0,
         outcome |-> "skipped", learned |-> FALSE]

tree == [head |-> head, own |-> own, stray |-> stray]
Fresh == proof.revision = run.revision

Init ==
  /\ head = <<>> /\ remote = <<>>
  /\ own = 1 /\ stray \in Stray
  /\ run = [status |-> "active", state |-> "PROVE", revision |-> 1,
            known |-> tree, finalization |-> "pending"]
  /\ proof = [revision |-> 0, content |-> 0]
  /\ decision = [verdict |-> "none", revision |-> 0]
  /\ closeout = NoCloseout
  /\ receipt = NoReceipt
  /\ journal = "no"
  /\ cmd = [c \in Command |-> Idle]
  /\ asked = "no" /\ edits = 0 /\ crashes = 0

-----------------------------------------------------------------------------
(* What the steps are made of.                                               *)

(* observeWorkspaceIdentity: the revision moves when the identity does. *)
Observed(r) ==
  IF r.known = tree THEN r
  ELSE [r EXCEPT !.known = tree, !.revision = @ + 1]

(* isAuthorizedCloseoutWorkspace: a clean worktree at that commit. *)
CleanAt(sha) == sha # NoSha /\ head = sha /\ own = 0 /\ ~stray

Delivering == {"commit_created", "undelivered", "completed"}

(* refreshFinalizationWorkspaceIdentity: the HEAD that the Kernel's own       *)
(* commit made is no drift.                                                   *)
Refreshed(prior) ==
  IF prior.status \in Delivering /\ CleanAt(prior.sha) THEN run ELSE Observed(run)

(* assertCompletionProvenance: decision and evidence are of this revision. *)
ProvenanceCurrent ==
  decision.verdict = "accepted" /\ decision.revision = run.revision /\ Fresh

(* What is passed to the closeout: a request and the paths it selects, restored *)
(* from the last receipt when they are not repeated, and the commit that an    *)
(* interrupted closeout has made already.                                      *)
AsRepeated(request) == request                  \* mutant: P0-7 undone
Requested(request) == IF request = "none" THEN receipt.request ELSE request
PathsChosen == own # 0 \/ receipt.chosen
UnfinishedSha == IF closeout.status = "completed" THEN NoSha ELSE closeout.sha
ExistingSha(request) ==
  IF Requested(request) = "none" THEN NoSha
  ELSE IF request = "none" /\ receipt.sha # NoSha THEN receipt.sha
  ELSE UnfinishedSha

At(c, place) == cmd[c].at = place
Become(c, locals) == cmd' = [cmd EXCEPT ![c] = locals]
Go(c, place) == cmd' = [cmd EXCEPT ![c].at = place]
Enter(c, kind, request) ==
  Become(c, [Idle EXCEPT !.at = "begin", !.kind = kind, !.request = request])

(* The rest of finalizeRun needs these locals only. *)
Conclude(c, place, outcome) ==
  Become(c, [Idle EXCEPT !.at = place, !.kind = cmd[c].kind, !.request = cmd[c].request,
    !.chosen = cmd[c].chosen, !.sha = cmd[c].sha, !.outcome = outcome])

(* The Git closeout is over: `git-closeout' ends here, finalizeRun goes on. *)
EndCloseout(c, outcome) ==
  IF cmd[c].kind = "closeout" THEN Become(c, Idle) ELSE Conclude(c, "learning", outcome)

-----------------------------------------------------------------------------
(* Commands that begin.  Reports run under the run lease, one at a time;       *)
(* `kernel finalize' and `git-closeout' take no lease.                         *)

Leased == {"report", "finalize"}
LeaseFree(c) == \A d \in Command \ {c} : At(d, "idle") \/ cmd[d].kind \notin Leased

(* A report whose checks pass: it observes the worktree, runs the proof,       *)
(* writes the checkpoint and finalizes in PROVE.  In CLOSE it only observes.   *)
Report(c, request) ==
  /\ At(c, "idle") /\ LeaseFree(c) /\ run.status # "completed"
  /\ LET r == Observed([run EXCEPT !.status = "active"]) IN
       /\ run' = r
       /\ IF run.state = "PROVE"
          THEN /\ proof' = [revision |-> r.revision, content |-> own]
               /\ journal' = request
               /\ Enter(c, "report", request)
          ELSE UNCHANGED <<proof, journal, cmd>>
  /\ UNCHANGED <<decision, closeout, receipt, git, asked, edits, crashes>>

(* The report sent again after its process died: it goes on from the           *)
(* checkpoint when neither run nor worktree moved, the Kernel's commit apart.  *)
ResentReport(c) ==
  /\ At(c, "idle") /\ LeaseFree(c) /\ journal # "no" /\ Fresh
  /\ \/ run.state = "PROVE"
     \/ run.status = "completed"
  /\ \/ run.known = tree
     \/ /\ closeout.key /\ journal = "keyed"
        /\ closeout.status \in Delivering /\ CleanAt(closeout.sha)
  /\ Enter(c, "report", journal)
  /\ UNCHANGED <<stored, git, asked, edits, crashes>>

(* Any other report of an accepted run whose finalization is not completed. *)
FinalizeAgain(c, request) ==
  /\ At(c, "idle") /\ LeaseFree(c)
  /\ run.status = "completed" /\ run.finalization # "completed"
  /\ Enter(c, "finalize", request)
  /\ UNCHANGED <<stored, git, asked, edits, crashes>>

(* `kernel finalize' looks at nothing first. *)
OperatorFinalizes(c, request) ==
  /\ At(c, "idle") /\ Operator
  /\ Enter(c, "operator", request)
  /\ UNCHANGED <<stored, git, asked, edits, crashes>>

(* `git-closeout', retryGitCloseout. *)
RetryCloseout(c) ==
  /\ At(c, "idle") /\ Operator
  /\ closeout.status \in {"commit_created", "undelivered"} /\ ProvenanceCurrent
  /\ Become(c, [Idle EXCEPT !.at = "reconciling", !.kind = "closeout",
                            !.prior = closeout, !.sha = closeout.sha,
                            !.commit = closeout.sha])
  /\ UNCHANGED <<stored, git, asked, edits, crashes>>

-----------------------------------------------------------------------------
(* finalizeRun.                                                               *)

(* What was left by earlier attempts is read, the workspace identity refreshed *)
(* (twice in the code, nothing in between depends on the first).               *)
Begin(c) ==
  /\ At(c, "begin")
  /\ LET request == cmd[c].request IN
       Become(c, [cmd[c] EXCEPT
         !.at = "gates", !.prior = closeout, !.request = Requested(request),
         !.chosen = PathsChosen, !.sha = ExistingSha(request),
         !.commit = ExistingSha(request),
         !.status = run.status, !.state = run.state])
  /\ run' = Refreshed(closeout)
  /\ UNCHANGED <<proof, decision, closeout, receipt, journal, git, asked,
                 edits, crashes>>

(* Step 1: the gates, before CLOSE.  A refusal goes straight to the receipt. *)
RefusedAsSkipped(c) == Conclude(c, "recording", "skipped")  \* mutant
Refused(c) == Conclude(c, "recording", "refused")

Gates(c) ==
  /\ At(c, "gates")
  /\ IF Fresh THEN Go(c, "closing") ELSE Refused(c)
  /\ UNCHANGED <<stored, git, asked, edits, crashes>>

(* transition(CLOSE) throws for a run that is completed, or in CLOSE by now. *)
Close(c) ==
  /\ At(c, "closing")
  /\ IF cmd[c].state = "CLOSE" \/ cmd[c].status = "completed"
     THEN Go(c, "judging") /\ UNCHANGED run
     ELSE IF run.status # "completed" /\ run.state = "PROVE"
     THEN Go(c, "judging") /\ run' = [run EXCEPT !.state = "CLOSE"]
     ELSE Become(c, Idle) /\ UNCHANGED run
  /\ UNCHANGED <<proof, decision, closeout, receipt, journal, git, asked,
                 edits, crashes>>

(* Step 2: an accepted decision stays, otherwise the run is evaluated again. *)
IsFinalizationRetry(c) == decision.verdict = "accepted" /\ cmd[c].status = "completed"

Asks(c) == cmd[c].request # "none" /\ run.finalization # "completed"

Accept(c) ==
  /\ asked' = IF Asks(c) /\ asked = "no" THEN "accepted" ELSE asked
  /\ IF cmd[c].request = "none" THEN Conclude(c, "learning", "skipped")
     ELSE Become(c, [cmd[c] EXCEPT !.at = "admitting", !.status = "completed",
                       !.state = "CLOSE", !.verdict = "accepted", !.revision = 0])

Judge(c) ==
  /\ At(c, "judging")
  /\ IF IsFinalizationRetry(c) THEN Accept(c)
     ELSE /\ Become(c, [cmd[c] EXCEPT !.at = "deciding", !.revision = run.revision,
              !.verdict = IF run.state = "CLOSE" /\ Fresh THEN "accepted" ELSE "blocked"])
          /\ UNCHANGED asked
  /\ UNCHANGED <<stored, git, edits, crashes>>

Decide(c) ==
  /\ At(c, "deciding")
  /\ decision' = [verdict |-> cmd[c].verdict, revision |-> cmd[c].revision]
  /\ IF cmd[c].verdict = "accepted"
     THEN run' = [run EXCEPT !.status = "completed"] /\ Accept(c)
     ELSE run' = [run EXCEPT !.status = "blocked"] /\ Refused(c) /\ UNCHANGED asked
  /\ UNCHANGED <<proof, closeout, receipt, journal, git, edits, crashes>>

-----------------------------------------------------------------------------
(* Step 3: the Git closeout.  An error in it is an outcome, never a stop.     *)

(* Provenance must be current; a closeout that an earlier process of the same *)
(* report completed is taken over.                                            *)
NeverRecovered(c) == FALSE  \* mutant: a completed closeout is run again
Recovered(c) ==
  LET prior == cmd[c].prior IN
    prior.status = "completed" /\ prior.key /\ cmd[c].request = "keyed" /\ CleanAt(prior.sha)

Admit(c) ==
  /\ At(c, "admitting")
  /\ IF ~ProvenanceCurrent THEN EndCloseout(c, "failed")
     ELSE IF Recovered(c) THEN EndCloseout(c, "completed")
     ELSE Go(c, "reconciling")
  /\ UNCHANGED <<stored, git, asked, edits, crashes>>

(* reconcileWorkspaceBeforeCloseout: the worktree must be the one the run     *)
(* knows, or clean at the commit made before.                                 *)
AnyWorktree(c) == TRUE  \* mutant: no comparison with the known identity
Undrifted(c) == run.known = tree \/ CleanAt(cmd[c].sha)

Reconcile(c) ==
  /\ At(c, "reconciling")
  /\ IF Undrifted(c)
     THEN /\ Become(c, [cmd[c] EXCEPT !.seen = own,
               !.at = IF cmd[c].kind = "closeout" THEN "pushing" ELSE "inspecting"])
          /\ UNCHANGED <<run, closeout>>
     ELSE /\ run' = Observed(run)
          /\ closeout' = [status |-> "stale", sha |-> cmd[c].sha, key |-> FALSE]
          /\ EndCloseout(c, "failed")
  /\ UNCHANGED <<proof, decision, receipt, journal, git, asked, edits, crashes>>

(* The selected paths must still be dirty (in a worktree that is clean nothing *)
(* is asked of them); without paths and commit there is nothing to close out.  *)
Inspect(c) ==
  /\ At(c, "inspecting")
  /\ IF cmd[c].chosen /\ own = 0 /\ stray
     THEN EndCloseout(c, "failed") /\ UNCHANGED closeout
     ELSE IF cmd[c].sha # NoSha
     THEN Go(c, "pushing") /\ UNCHANGED closeout
     ELSE IF ~cmd[c].chosen
     THEN EndCloseout(c, "skipped")
          /\ closeout' = [NoCloseout EXCEPT !.status = "skipped"]
     ELSE /\ Become(c, [cmd[c] EXCEPT !.at = "staging", !.expected = head])
          /\ UNCHANGED closeout
  /\ UNCHANGED <<run, proof, decision, receipt, journal, git, asked,
                 edits, crashes>>

(* createGitCloseoutCommit: a tree from the selected paths as they are now ... *)
Stage(c) ==
  /\ At(c, "staging")
  /\ Become(c, [cmd[c] EXCEPT !.at = "committing", !.staged = own])
  /\ UNCHANGED <<stored, git, asked, edits, crashes>>

GitFails(c) ==
  /\ At(c, "staging")
  /\ EndCloseout(c, "failed")
  /\ UNCHANGED <<stored, git, asked, edits, crashes>>

(* ... and update-ref, a compare-and-set on the branch; the working files stay. *)
Overwrite(c) == TRUE  \* mutant: update-ref without the old value
NoConflict(c) == head = cmd[c].expected

Commit(c) ==
  /\ At(c, "committing")
  /\ IF NoConflict(c)
     THEN LET sha == Append(cmd[c].expected, [by |-> "kernel", content |-> cmd[c].staged])
          IN /\ head' = sha
             /\ own' = IF own = cmd[c].staged THEN 0 ELSE own
             /\ Become(c, [cmd[c] EXCEPT !.at = "committed", !.commit = sha])
     ELSE EndCloseout(c, "failed") /\ UNCHANGED <<head, own>>
  /\ UNCHANGED <<stored, remote, stray, asked, edits, crashes>>

(* The commit is put on record before the push. *)
RecordCommit(c) ==
  /\ At(c, "committed")
  /\ closeout' = [status |-> "commit_created", sha |-> cmd[c].commit,
                  key |-> cmd[c].request = "keyed"]
  /\ Go(c, "pushing")
  /\ UNCHANGED <<run, proof, decision, receipt, journal, git, asked,
                 edits, crashes>>

(* pushGitCloseoutCommit and the parity check. *)
PushSucceeds(c) ==
  /\ At(c, "pushing") /\ head = cmd[c].commit
  /\ remote' = cmd[c].commit
  /\ Go(c, "pushed")
  /\ UNCHANGED <<stored, head, own, stray, asked, edits, crashes>>

(* Refused before it begins when HEAD is another commit, which leaves no       *)
(* receipt; otherwise push_failed, or parity_failed after a push.              *)
PushFails(c) ==
  /\ At(c, "pushing")
  /\ IF head = cmd[c].commit
     THEN /\ closeout' = [status |-> "undelivered", sha |-> cmd[c].commit,
                          key |-> cmd[c].kind # "closeout" /\ cmd[c].request = "keyed"]
          /\ remote' \in {remote, cmd[c].commit}
     ELSE UNCHANGED <<closeout, remote>>
  /\ EndCloseout(c, "failed")
  /\ UNCHANGED <<run, proof, decision, receipt, journal, head, own, stray,
                 asked, edits, crashes>>

RecordPushed(c) ==
  /\ At(c, "pushed")
  /\ closeout' = [status |-> "completed", sha |-> cmd[c].commit,
                  key |-> IF cmd[c].kind = "closeout" THEN cmd[c].prior.key
                          ELSE cmd[c].request = "keyed"]
  /\ EndCloseout(c, "completed")
  /\ UNCHANGED <<run, proof, decision, receipt, journal, git, asked,
                 edits, crashes>>

-----------------------------------------------------------------------------
(* Steps 4 and 5: the knowledge commit, the receipt, the finalization status. *)

(* The knowledge is committed, or there is none. *)
Learn(c) ==
  /\ At(c, "learning")
  /\ Become(c, [cmd[c] EXCEPT !.at = "recording", !.learned = TRUE])
  /\ UNCHANGED <<stored, git, asked, edits, crashes>>

(* The review fails or errs, or the commit loses every compare-and-set. *)
Defer(c) ==
  /\ At(c, "learning")
  /\ Go(c, "recording")
  /\ UNCHANGED <<stored, git, asked, edits, crashes>>

(* A refusal (blockedReceipt) replaces the receipt and with it the request. *)
Record(c) ==
  /\ At(c, "recording")
  /\ receipt' = IF cmd[c].outcome = "refused" THEN NoReceipt
                ELSE [request |-> cmd[c].request, chosen |-> cmd[c].chosen,
                      sha |-> cmd[c].sha]
  /\ asked' = IF Asks(c) /\ cmd[c].outcome # "refused" THEN "recorded" ELSE asked
  /\ Go(c, "settling")
  /\ UNCHANGED <<run, proof, decision, closeout, journal, git, edits, crashes>>

(* partial: the closeout failed, was asked for and is not completed, or the   *)
(* contract requires knowledge that is not settled.                           *)
Unfinished(c) ==
  \/ cmd[c].outcome = "failed"
  \/ cmd[c].request # "none" /\ cmd[c].outcome # "completed"
  \/ KnowledgeRequired /\ ~cmd[c].learned

Settle(c) ==
  /\ At(c, "settling")
  /\ run' = [run EXCEPT !.finalization =
       IF cmd[c].outcome = "refused" THEN "blocked"
       ELSE IF Unfinished(c) THEN "partial" ELSE "completed"]
  /\ journal' = IF cmd[c].kind = "report" THEN "no" ELSE journal
  /\ Become(c, Idle)
  /\ UNCHANGED <<proof, decision, closeout, receipt, git, asked, edits, crashes>>

-----------------------------------------------------------------------------
(* What else happens.                                                         *)

Crash(c) ==
  /\ ~At(c, "idle") /\ crashes < MaxCrashes
  /\ crashes' = crashes + 1
  /\ Become(c, Idle)
  /\ UNCHANGED <<stored, git, asked, edits>>

(* The user works in the worktree, or commits all of it. *)
Edit ==
  /\ edits < MaxEdits
  /\ \/ own' \in Contents \ {own} /\ UNCHANGED stray
     \/ stray' = ~stray /\ UNCHANGED own
  /\ edits' = edits + 1
  /\ UNCHANGED <<stored, head, remote, cmd, asked, crashes>>

UserCommit ==
  /\ edits < MaxEdits
  /\ own # 0 \/ stray
  /\ head' = Append(head, [by |-> "user", content |-> own])
  /\ own' = 0 /\ stray' = FALSE
  /\ edits' = edits + 1
  /\ UNCHANGED <<stored, remote, cmd, asked, crashes>>

Entry(c) ==
  \/ \E request \in Requests : Report(c, request)
  \/ ResentReport(c)
  \/ \E request \in Requests \ {"keyed"} :
       FinalizeAgain(c, request) \/ OperatorFinalizes(c, request)
  \/ RetryCloseout(c)

(* What a command in progress does, the outcome of Git and knowledge apart. *)
Progress(c) ==
  \/ Begin(c) \/ Gates(c) \/ Close(c) \/ Judge(c) \/ Decide(c)
  \/ Admit(c) \/ Reconcile(c) \/ Inspect(c) \/ Stage(c) \/ GitFails(c)
  \/ Commit(c) \/ RecordCommit(c) \/ PushSucceeds(c) \/ PushFails(c)
  \/ RecordPushed(c) \/ Learn(c) \/ Defer(c) \/ Record(c) \/ Settle(c)

Next ==
  \/ \E c \in Command : Entry(c) \/ Progress(c) \/ Crash(c)
  \/ Edit \/ UserCommit

Spec == Init /\ [][Next]_vars

(* A command that runs goes on; an agent whose run is not finished reports     *)
(* again; Git, origin and the knowledge commit do not fail for ever.           *)
Fairness ==
  \A c \in Command :
    /\ WF_vars(Progress(c))
    /\ WF_vars(Report(c, "none"))
    /\ WF_vars(FinalizeAgain(c, "none"))
    /\ SF_vars(Stage(c)) /\ SF_vars(PushSucceeds(c)) /\ SF_vars(Learn(c))

FairSpec == Spec /\ Fairness

-----------------------------------------------------------------------------
(* Properties. *)

Commits == [by : {"kernel", "user"}, content : Contents]
IsBranch(b) == b \in Seq(Commits)

FinTypeOK ==
  /\ run.status \in {"active", "blocked", "completed"}
  /\ run.state \in {"PROVE", "CLOSE"} /\ run.revision \in Nat
  /\ run.finalization \in {"pending", "blocked", "partial", "completed"}
  /\ proof.revision \in 0..run.revision /\ proof.content \in Contents
  /\ decision.verdict \in {"none", "accepted", "blocked"}
  /\ decision.revision \in 0..run.revision
  /\ closeout.status \in {"none", "skipped", "stale"} \cup Delivering
  /\ IsBranch(closeout.sha) /\ IsBranch(receipt.sha)
  /\ receipt.request \in Requests /\ journal \in Requests \cup {"no"}
  /\ IsBranch(head) /\ IsBranch(remote)
  /\ own \in Contents /\ stray \in BOOLEAN
  /\ asked \in {"no", "accepted", "recorded"}
  /\ edits \in 0..MaxEdits /\ crashes \in 0..MaxCrashes

ByKernel(branch) == {i \in DOMAIN branch : branch[i].by = "kernel"}

(* However often a closeout is retried, interrupted and resumed, the Kernel    *)
(* makes at most one commit for the run.                                       *)
OneCommit == \A i, j \in ByKernel(head) : i = j

(* No step of the Kernel takes a commit off the branch: whoever commits while  *)
(* it stages keeps the commit, and the Kernel's closeout fails.                *)
NoLostCommit ==
  [][Len(head) <= Len(head') /\ SubSeq(head', 1, Len(head)) = head]_head

(* The Kernel commits what was proven, for a run that is accepted, unless the  *)
(* paths were edited after the worktree was compared for the last time.        *)
CommitIsProven ==
  [][\A c \in Command :
       (At(c, "committing") /\ cmd'[c].at = "committed" /\ cmd[c].staged = cmd[c].seen) =>
         cmd[c].staged = proof.content /\ decision.verdict = "accepted"]_vars

(* A run that finished after a closeout request was put into its receipt has    *)
(* been delivered: a failed closeout never turns into a clean completion.       *)
Delivered == ByKernel(remote) # {}
FinishedIsDelivered ==
  (run.finalization = "completed" /\ asked = "recorded") => Delivered

(* What the finalization promises is what the code does, one command after the  *)
(* other or however many processes report: a commit once the run is accepted and *)
(* never a second, that commit at origin and nothing else of the Kernel's, no    *)
(* request put on record but for an accepted run that is not finished, and no    *)
(* finish before the delivery that was asked for.                              *)
Promise == INSTANCE OneDelivery WITH
  accepted <- decision.verdict = "accepted",
  commits <- ByKernel(head), delivered <- ByKernel(remote),
  requested <- asked = "recorded", finished <- run.finalization = "completed"
DeliversAsPromised == Promise!Spec

(* control-plane.ts: a partial finalization stays retryable, so an accepted run   *)
(* finishes when its reports are repeated and Git and knowledge work in the end.  *)
AcceptedFinishes == run.status = "completed" ~> run.finalization = "completed"

(* It does without crashes, where nobody touches the worktree once the run is    *)
(* accepted and a closeout that is asked for has something to commit.            *)
Intact ==
  run.status = "completed" =>
    \/ run.known = tree /\ (asked = "no" \/ own # 0)
    \/ ByKernel(head) # {} /\ own = 0 /\ ~stray
Finishes == []Intact => AcceptedFinishes

=============================================================================
