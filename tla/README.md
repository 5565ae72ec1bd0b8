# Moonshot Relay Kernel: TLA+ models, checks and proofs

Moonshot Relay's *Kernel* lets several AI hosts (Claude Code, Codex, Qwen, a
CLI) work on one Git worktree under a durable record of what is being done: a
**Run** with a task contract, steps, proof obligations, reviews, a completion
decision, a Git closeout and a knowledge commit. Everything durable is in one
SQLite database per runtime home. Nobody is resident: every command is a
process (or an async call in a long-lived host) that opens the database, reads,
does slow things outside it (observe the worktree, run trusted proofs, call
`git`), and writes. So the hard part of the system is not any single
transaction; it is what is read before one transaction and used in the next,
while another session, a crashed predecessor or an operator command changes the
rows in between. That is what these modules are about.

All source paths below are relative to the repository; the Kernel is
`src/kernel/`, the hosts are `src/host/kernel/` (in `PROJECT.json` the same
paths carry the prefix `src/` of the checkout).

## 1. Inventory

| Component | State it keeps | Operations | What is hard about it | What makes it correct |
|---|---|---|---|---|
| **Run lifecycle** (`state-store.ts`, `persistence/work-lifecycle-store.ts`) | `runs.status`, `finalization_status`, `successor_key`; owner binding of a session; worktree mutation lease | create, bind, adopt, reactivate, block, resume, complete, abandon, retire, roll back, create successor, terminal reconciliation | reads before the transaction that writes (`markRunBlocked`, `resumeBlockedRun`, `finalizeRun`), several ways to end a run, each of which must free what the run held | one writer run per worktree, no lease outlives its run, ownership never moves between sessions, lineage never dangles, ended runs stay ended |
| **Run lease** (`leases` table) | holder string, owner pid, fencing token, expiry | acquire, check, release, expiry, takeover of a dead process's lease | acquire is a read and a separate upsert; holder strings can be shared; the row (and its token) is deleted by release | two commands do not finalize one run; a superseded command is recognised; a dead command does not lock the run for ever |
| **Owner Delivery** (workspace mutation lock V2, `mutation-guard.ts`, `parallel-dispatcher.ts`) | lock row with fencing token, `project_workspaces.mutation_epoch`, `runs.mutation_revision` and workspace identity, the physical worktree | acquire, renew, assert, `git apply`, record by compare-and-set, release, block for recovery | check-then-act against a file system: the fence can be lost between the last check and the write; the apply can be cut off half-way | tokens are never reissued; two deliveries from one snapshot never both succeed; bytes that were changed and not recorded never go unnoticed |
| **Completion and finalization** (`run/finalization.ts`, `proof/trust-authority.ts`, `proof/completion-provenance.ts`) | `runs.state` (FRAME/EXECUTE/PROVE/CLOSE), completion decision, finalization receipt | settlement gates, transition to CLOSE, decision, Git closeout, knowledge review and commit, retries | a crash between any two of its writes; a retry must repeat nothing and skip nothing | completed only with proof of the current revision; a half-done finalization can be finished |
| **Step attempts and reports** (`persistence/work-attempt-store.ts`, `run/run-step-ledger.ts`, `run/work-cursor.ts`, `run/report-identity.ts`) | `run_steps`, `run_step_attempts`, report outcomes and checkpoints | claim a step, report, verify, fail, expire, replay | two hosts claim one step; a lost answer is sent again; the plan or the revision moved meanwhile | one writer per step, a step passes in the order of the plan and on recorded proof, a replay returns the first outcome and applies nothing |
| **Review** (`host/kernel/turn-dispatcher.ts`, `control-plane.ts`, `proof/review-receipt.ts`, `persistence/trust-store.ts`, claims in `persistence/work-attempt-store.ts`) | review claims with an expiry, review receipts, the verification of the obligation | prepare, claim, fall back, release, take over an expired claim, ingest, record, approve | a late reviewer after a take-over; the worktree moves between comparison and receipt; a review asked for again after it failed | one reviewer per subject, a verdict proves only what was reviewed, a failed subject is not reviewed until it passes |
| **Git closeout** (`git/closeout.ts`) | closeout receipt; commits and remote refs outside the database | stage, commit, push, retry, recovery of an interrupted commit | a crash after the commit and before the receipt | one commit per completion; push retried without a second commit |
| **Knowledge** (`knowledge/*`, `persistence/knowledge-lifecycle-store.ts`, the end of `run/finalization.ts`) | the project's records and their revision; candidates, review and commit receipt of each run | observe, review, commit by compare-and-set (3 attempts), supersede, defer, recover by another run's finalization, import, retire the run | the revision moves between review and commit; two processes bring in one run's knowledge; a run's rows are deleted and its knowledge must not be | a fact is in force once, what was verified is on record when the run is gone, one successor of a replaced record |
| **Invocation resolver** (`run/invocation-resolver.ts`, `run/run-locator.ts`) | none (decides from the database) | start, continue, revise, successor, archive a blocked run, report a conflict | decides from un-transactional reads, acts later | its writes keep the rules of the run life cycle however old its reads are; a new task takes up no existing run; it never archives a run that has been resumed meanwhile (it does: section 7) |
| **Task contract and plan revisions** (`task/*`, `run/contract-preflight.ts`, `run/step-planner.ts`, `run/obligation-compiler.ts`) | contract and plan revision of the run, obligations | compile, revise atomically | verifications of an older contract | a revision invalidates the evidence it must |
| **Project and workspace identity** (`project-identity*.ts`, `state-store.ts` registration, merges) | projects, worktrees, workspaces, aliases | register, merge, migrate | merge of two histories with live leases | nothing is attributed to two projects |
| **Schema and migrations** (`persistence/schema*.ts`, `sqlite-adapter.ts`) | the tables | create, migrate | migration of a live database | constraints the other components rely on |
| **Control plane** (`control-plane.ts`) | none of its own | the commands: start, next, report, resume, abandon, ... | the composition of all of the above | each command leaves a state from which the next one can go on |
| **Host dispatchers** (`src/host/kernel/turn-dispatcher.ts`, `parallel-dispatcher.ts`, `host-turn.ts`, Codex App Server) | worker worktrees, sessions | dispatch, integrate, deliver, settle | worker death, late results | see Owner Delivery, Step attempts |
| **Model routing, prompts, capsules, context** | route decisions, usage receipts | select, render | pure functions mostly | out of scope |
| **Installer, profiles, packaging, CLI, standalone tools, evaluation tooling, legacy phase runner, skills, documents** | files | copy, render, report | I/O | out of scope |

How they interact: every command of the control plane opens the store (which
runs terminal reconciliation), checks authority (binding, worktree lease), takes
the Run lease, works through Step attempts and proofs, and, when all is settled,
calls finalization, which ends the run and so releases binding, worktree lease
and workspace lock in one transaction. Dispatchers write workers' results to
the owner worktree through Owner Delivery and then report them. All of it meets
in the database; there are no messages between processes.

## 2. Modules

| Module | Models | State | Theorems |
|---|---|---|---|
| `LeaseMutex` | abstract: a resource and at most one holder | `holder` | |
| `RunLifecycle` | the life of runs, bindings and worktree leases in the store; several processes | one variable per column or table, `pend` for what a process has read and not yet used, `ended` (history) | `RunLifecycle_proofs` |
| `Invocation` | `kernel next` with a task contract: `resolveBoundInvocation` and what it makes of its answer, over `RunLifecycle` | `job`: what each invocation asked for and has read so far | `RunLifecycle_proofs` |
| `WorkspaceFence` | `workspace_mutation_locks_v2` and the epoch it mints tokens from | lock rows, epochs, phase of each run, `issued` (history) | `OwnerDelivery_proofs` |
| `OwnerDelivery` | extends `WorkspaceFence` with dispatchers that deliver into directories | directory contents, what the run knows of them, revisions, where each dispatcher is | `OwnerDelivery_proofs` |
| `OneDelivery` | abstract: what the finalization of a run promises | accepted, commits, what of them is at origin, whether the delivery is asked for, finished | |
| `Finalization` | `finalizeRun`, the Git closeout and their callers | run, decision, receipts, index, branch, remote, worktree, where each command is | `Finalization_proofs` |
| `OneOutcome` | abstract: what a report operation promises its caller | payload, outcome and answers of each operation | |
| `ReportOperation` | an owner's report: `report`, `reportUnderLease`, `settleVerifiedReport` | step ledger, attempts, worktree and what the run knows of it, run lease, where each command is | `ReportOperation_proofs` |
| `StepClaims` | Hosts that dispatch the steps of one run side by side | step ledger, attempts, run, where each Host is with each step | `StepClaims_proofs` |
| `Extrema` | `find` and `at(-1)` on rows in order | | `ReportOperation_proofs`, `StepClaims_proofs` |
| `RunLease` | the lease commands take on a run | the row, where each command is | `RunLease_proofs` |
| `KnowledgeBook` | abstract: what the ledger promises its readers | revision, the fact of each entry, the entries that ended | |
| `KnowledgeLedger` | the knowledge part of finalizations and recoveries, imports, retirement of settled runs | records in order, revision, ledger, the rows of each run, where each worker is | `KnowledgeLedger_proofs` |
| `FirstVerdict` | abstract: what reviews promise | the judgements, the one the obligation rests on | |
| `IndependentReview` | reviews and approvals of one obligation by Hosts, operators and callers | worktree, run, claim, receipts, the proof, where each Host and operator is | `IndependentReview_proofs` |

`MC_*.tla` give the constants values, one `.cfg` per question.

**From code to model.** A `db.transaction` is one action; so is a statement
outside a transaction. What code reads before such a step and uses in it is
kept in a variable of the model (`pend`, `expect`, `seen`, the local state of a
command), so that everything that can come between really does. A thrown error
or an early return that changes nothing is a guard. Where a function ends in a
refresh, a reconciliation or a receipt, the action has it too: `Decide` in
`RunLifecycle` is `persistCompletionDecision` with the terminal reconciliation
inside it. `PROJECT.json` names, for every definition, the lines it stands for.

*RunLifecycle.* One project; a workspace and its worktree are one element of
`Worktree`. `pend[p]` is the command process `p` is in the middle of and what it
has read for it: the read and the write of `markRunBlocked`,
`resumeBlockedRun`, a report and a finalization are separate. The Run lease is
deliberately no exclusion here, since operator commands do not take it and
since it can be lost (see *RunLease*). `ended` remembers which runs were ever
completed or abandoned. Taking the worktree lease anew (`ClaimLease`) is
reachable only for runs that were resurrected after their end.

*Invocation.* Extends `RunLifecycle`: each read of the resolver is an action that
changes `job` alone, each write an action of `RunLifecycle` (`AbandonRun` of the run in
the way, then `StartRun`, `ReactivateOwner`, `AdoptOwner` or `CreateSuccessor`), and
between any two of them all other processes go on (`Others`). What the code compares
goals and contracts by is text: whether a run pursues another goal than the invocation,
and whether a completed run was given the same contract, may come out either way.
`updated_at` is not kept, so the latest run of a worktree is any run of it. Only a
blocked run that holds the worktree lease is archived, so the loop over them is one run.
A thrown error, a crash and the end of the command are one action (`Return`), possible
anywhere on the way. The processes in `Invoker` run invocations and nothing else, save
the steps that follow the creation of a run.

*WorkspaceFence.* Time is only whether `expires_at` has passed, and it may pass
in any step. A run locks its own workspace or that of a worker step. `issued`
remembers every credential handed out, since the processes that got them keep
them for as long as they live, and the question is which still pass.

*OwnerDelivery.* Each look that `materializeOwnerDelivery` takes at fence, run
or directory, and each thing it writes, is an action. Content is the set of
changes made since the run began: equal sets, equal identities. A torn apply
leaves a change of its own. `excused` notes runs for which an editor, a crash or
an operator's resumption came in between, so that properties blame the code only
for what the code did.

*Finalization.* One run, one worktree. A branch is its sequence of commits; the
content of the run's own paths is a number, `stray` says that another path is
dirty. The writes of `finalizeRun`, `executeKernelGitCloseout` and
`createGitCloseoutCommit` are separate actions in the order of the code, and
`Crash` may come between any two. A report proves the current content and
observes it; reports exclude each other (the Run lease, assumed to hold here and
examined in *RunLease*); `kernel finalize` and `git-closeout` take no lease and
interleave. A report that arrives when the run is in CLOSE and not accepted only
observes. Knowledge is here only learnt or deferred; what that takes is
*KnowledgeLedger*.

*ReportOperation.* A report is a command in its own process, an attempt is known
by its row number and that number is also its report key. Between two writes of
the code there is always a step of another command, a crash or an edit possible:
`Observe`, `Open`, `Bind` and `Advance` are four writes the code makes one after
the other, `Mark`, `Verdict` and `Unlock` three more, `Journal` and `Close` the last
two. The proof itself is its verdict; what it was about (revision, content) is in
the checkpoint. `Targets` is `resolveReportStep`, with several answers only where
the code decides by path lists. The session repeats a report whenever it likes, with
the key it was told or without. The lease is one value here: `Admits` lets a
command in when it is free, run out (`Expire`) or left behind by a dead process.
The two writes `reported` and `verifying` of `settleStep` are one, for nothing reads
them apart. Finalization is its effect on the run.

*StepClaims.* `dispatchKernelParallel` of several Hosts: `Select`, `Claim` (whose
directive may have been read at any time since the selection), then, when all
workers are back, `GatherFailure` and `GatherResult` in the order of steps, `Deliver`
or `GiveUp`, and per step `Resolve`, `Mark`, `Close`, `FailRejected`. `job[h].outcome`
is the Host's memory of each step. The delivery is *OwnerDelivery* in one step, the
proof of a settlement *ReportOperation* in two. `trespass` remembers that a Host
failed a step that was not its own, which `failStepAttempt` allows (section 7); the
properties say what holds until then.

*KnowledgeLedger.* A fact is a record's identity (type, statement, scope); further
evidence for a record in force changes nothing but its revision. An imported record is
known by its source and statement, so an import may write over one that was superseded
(`Revivable`); what a run commits has an id of its own. Every transaction is
an action, so is the choice of a deferred run; a review and the rows it writes are one
step, and so is a commit that is refused together with the look at the new revision,
for revisions only grow. Verdicts are inputs, except that a promotion or feedback
whose target no longer holds is rejected. Finalizations of one run exclude each other
(*RunLease*); observing, recovery and retirement take no lease. `disturbed`,
the runs whose knowledge two workers were at or to which something was added after it
was settled, is history. Ontology constraints do not
appear: what commits and imports store keeps severity and pattern one level deeper
than `evaluateOntologyConstraints` looks, so none ever applies.

*IndependentReview.* One obligation, one step and one plan of a run that stays in
PROVE. `Prepare`, `LookAgain` and `Claim` are the three looks a Host takes before a
reviewer starts; `FallBack`, `GiveUp` and `Ingest` are how its work ends; `Record`,
`Settle` and `Prove` are the two observations of `recordReview` and its two
transactions. `ingestReviewerOutcome` compares the capsule with the run and hands
over to `recordReview`, which knows only the run: that the worktree may move in
between is the point of the model. A claim is its holder and the revision in its key;
the attempt row that carries it is left out. `ClaimExpires` drops the claim when its
300 seconds are over, since nobody looks at an expired one except to clear it. A review
recorded by a caller without a route is one step. History: `shown`, the content a
verdict was formed on; `late`, that a Host's claim ran out; `moved`, that somebody
else observed a change of the worktree while a Host was ingesting.

*RunLease.* The row, read and written by separate statements. Commands of one
process take turns only where the code awaits; those of different processes come
anywhere. The two statements of `releaseLease` are two actions too.

## 3. Abstract specifications

`LeaseMutex` is what the worktree mutation lease promises: a worktree is taken
when free and given back by its holder. `RunLifecycle` implements it under the
mapping `holder <- lease` (`LeaseIsMutex`), checked in `lifecycle` and proved in
`LeaseRefinesMutex`. `OneOutcome` is what a report promises: an operation is bound to
one payload, has at most one outcome, and every answer ever given for it is that
outcome. `ReportOperation` implements it (`OneAnswer`) with an attempt as the
operation; checked in `report_operation`, proved in `OneAnswerHolds`. `KnowledgeBook` is
what the ledger promises its readers: no entry is taken out or gets another fact, each
publication is the next revision, and it opens (newly, or again) only entries of facts
that none in force has, each fact once. `KnowledgeLedger` implements it with `book <-
Facts` and `ended <- Over` (`LedgerIsABook`), checked in `knowledge`, proved in
`LedgerRefinesBook`. `FirstVerdict` is what reviews promise: a subject is judged once, and
what the obligation rests on is a judgement that was made. `IndependentReview` implements
it (`SubjectsAreJudgedOnce`) with the routed receipts as judgements; checked in `review`,
proved in `ReviewRefinesFirstVerdict`. `OneDelivery` is what a finalization promises: a
commit of accepted work and never a second, that commit and no other of the Kernel's at
origin, a delivery asked for only of an accepted run that is not finished, and no finish
before it. `Finalization` implements it (`DeliversAsPromised`) with the Kernel's commits on
the branch and at origin, the request on record and the finalization status; checked in
`finalization`, proved under `Serial` in `FinalizationDelivers`. It has a `Reopen`, since
a finished run can be finalized again (section 7). The Run lease has no such refinement: acquires that cross and
leases that run out let two commands work on one run; `OneFinalizer` states what
is left, that nothing else does, and `lease_superseded` that a command which lost
its lease is not always recognised.

`RunLifecycle` is in turn what `Invocation` implements (`KeepsLifecycle`): the resolver
decides from rows that have changed by the time it writes, and all the same every step
of it is one the life cycle allows, since the transactions look again at what they rest
on. Checked in `invocation`, proved in `InvocationKeepsLifecycle`; with it
every safety theorem about `RunLifecycle` holds of a store with resolvers at work.

## 4. Runs

A passing run explores its instance completely; a run marked *violated* is about
one sentence of the documentation, the comments or the tests that the code does
not keep (section 7). There is one run for each module and question; where a
question needs another instance of the same module (fairness, the smallest
counterexample) it is a run of its own. Where a theorem says more than a larger
instance would, the run is left out: `NoLostCommit` is checked with one
command and proved for any number of them, and `TypeOK`, `LeaseTypeOK`, `InvocationTypeOK`, `FenceTypeOK`, `FinTypeOK`, `ReviewTypeOK`,
`LeaseLostOnlyAtEnd`, `OneRecordPerFact`, `FirstVerdictStands` and four properties of overlapping
finalizations (section 6) are only proved.

| Run | Instance | Shows |
|---|---|---|
| `lifecycle` | 2 runs, 1 worktree, 2 sessions, 2 processes | the worktree lease is a mutex, is held by every run that can write, is lost only at the end of a run, and never stays with an ended run; a session owns one live run per worktree and a run never changes its owner; the heir named on a closed binding exists and was made from that run, through successor, retirement, rollback |
| `invocation` | 2 runs, 1 worktree, 1 session, 1 resolver and 1 other process | whatever happens between its reads and its writes, every step of the resolver is one of `RunLifecycle`, so a run that has completed meanwhile is not archived; an invocation for a new task that names no run takes up none that exists |
| `fence_tokens` | 2 runs, 2 workspaces, 2 sessions, tokens to 3 | no fencing token is issued twice; a superseded credential never passes again |
| `owner_delivery` | 1 run, 2 dispatchers of 2 sessions, tokens to 3, revisions to 2 | two deliveries of one snapshot are never both recorded; what is recorded is what was integrated; unrecorded bytes of an apply leave the run pending; applies exclude each other until an operator intervenes |
| `finalization` | 1 command at a time, 2 edits, 2 crashes, every request, stray files, knowledge required | one commit, of proven content, on top of everything committed before; a recorded request is never finished undelivered; all of it as `OneDelivery` promises |
| `finalization_finishes` | fair, 2 edits, requests with a report key, knowledge required | an accepted run in an untouched worktree finishes |
| `report_operation` | 2 steps, the second after the first, 2 commands, 2 reports (one that names the second step, one that names none), 2 attempts, 1 edit, 1 crash or expiry | every attempt is for one payload and every answer is its one outcome; a passed step has its proof on record; steps follow the plan, an attempt passes only with its step, and a passed step stays so while leases last, unless a process died between a step's passing and the unlocking (section 7) |
| `step_claims` | 2 Hosts, a batch of 2 steps, 3 attempts, revisions to 2, 1 crash or block | no two workers at a step, no patch on a run that moved on, a passed step holds a delivered result and stays passed, unless a Host failed a step that was another's |
| `run_lease` | 2 reports of one session in 2 processes and a resume of another session in one of them, tokens to 3, fair | no report leaves a lease behind; only a crossed acquire or an expiry lets two commands finalize; no session is locked out for ever |
| `lease_superseded` | 2 reports | *violated* |
| `knowledge` | 2 runs with a fact in common, 2 workers, 3 finalizations or recordings, 2 attempts to commit, 2 imports, 1 crash, 4 of all these together | the ledger is a book that is only written on, whichever way commits, recoveries and imports cross, and a fact is in force once; a retired run leaves every fact verified in it on record, unless two workers were at its knowledge or some came late |
| `review` | 2 Hosts, 1 operator, 2 contents, 2 sets of evidence, revisions to 1, 1 approval, caller's review or proof that runs again | two reviewers are at one subject only when a claim ran out; what proves the obligation is a verdict on the content that is there; a subject is judged once, so no failed one is proven by another review |

**Why the bounds are enough.** The races are between a read and a write, so two
processes reach every pair of them, and a third party is present as an operator
command, an editor, a crash or an expiry. Runs come in twos because every
conflict is about a worktree, a session or a lineage that two runs share (`HeirCorrect`
covers longer lineages). In
`invocation` the other process does all that can come between two reads of the resolver. Tokens to 3 allow issue, supersession and one
more issue, which is what reuse needs. Two edits and two crashes in
`finalization` allow a first finalization to be cut off, its retry to be cut off
too, and both the proven and the committed content to be overtaken. In
`report_operation` two attempts let a step fail and be tried again or both steps
be worked on, one edit lets proof and worktree part, and a single crash is enough
because its victim's whole remaining state is in the rows; in `step_claims` the third
attempt is the one a step gets after it was failed under somebody. The bounds
(`MaxEpoch`, `MaxRevision`, `MaxToken`, `MaxEdits`, `MaxCrashes`, `MaxAttempts`,
`MaxFaults`, `MaxCommands`, `MaxImports`, `MaxEvents`, `MaxOthers`) are guards of
the actions that count and of nothing else. In `knowledge` three commands are a
finalization of each run and a retry, or a third party at one of them; two imports
suffice to supersede an imported record and bring it back; commands, imports and crashes
are four at most (`MaxEvents`), so two commands meet two of the others; two attempts
to commit (the code has three) already contain a miss, a success after it and a last
miss. In `review` one revision past the first separates a stale subject from the
current one, and contents may come back under a new revision. Symmetry is used only over sets the module treats alike
and only with safety properties.

Deadlock is checked in `finalization`; elsewhere the
system may really stop (all runs retired, all dispatchers gone, all processes
ended, a finite number of commands done).

Every property of a passing run has a mutant: a variant of one definition with a
plausible bug, under which TLC finds that property violated (`PROJECT.json`,
`mutants`). The variants stand next to the definitions they replace.

## 5. Fairness

Safety properties assume none. In `Finalization`, a command that runs goes on
(WF on `Progress`: it is a process between two of its own statements), hosts
report again on a run that is not finished and operators or hosts retry an
accepted run (WF on `Report` and `FinalizeAgain` without a request; that is what
the `finalization-incomplete` answer asks of the host), and Git, the push and the
knowledge commit succeed now and then if tried again and again (SF on `Stage`,
`PushSucceeds`, `Learn`). Nothing is assumed of crashes, edits or operator
commands. `Finishes` has two premises: nobody touches the worktree any more once
the run is accepted, and a requested closeout has something to commit. Without
the first the code refuses for ever by design (the proof is stale); without the
second see section 7.

In `RunLease`, time passes (WF on `Expire`: the TTLs are 10 and 15 minutes), and a
begun command goes on while its process lives. Nobody is assumed to begin one:
`LeaseComesFree` excuses only executions in which commands are begun for ever, for
a session that renews without end does keep others out.

## 6. Proofs

All theorems hold for every value of the constants that satisfies the named
assumptions of their modules (`NoneAssumption`, `EpochAssumption`, `AbsentAssumption`,
`DeliveryAssumption`, `LeaseAssumption`, `ReportAssumption`, `ClaimsAssumption`,
`ReviewAssumption`, `LedgerAssumption`, `InvokerAssumption`: types of the constants, null values that are not
values, a finite number of facts, and that resolvers are processes).

*RunLifecycle_proofs.* `TypeCorrect` is inductive. `LeaseHolderMutable` (no ended
run keeps a lease) and `MutableRunHoldsLease` (a live run holds its worktree) are
inductive only together and with `RowsConsistent` (a lease names an existing run
of that worktree): `LeaseInv`. The step that matters is a claim: with
`LeaseHolderMutable` a claim never displaces a holder (`ClaimFindsFree`), which
also gives `LeaseRefinesMutex` and `LeaseLossCorrect`. Lemmas for *the end of a
run*, *a write that keeps it mutable* and *a new run* cover all actions.
`HeirCorrect` rests on `LineageInv`: the heir's successor key names its
predecessor, and rows an heir stands in are not removed. `OneOwnedCorrect` and
`OwnershipCorrect` follow from types and the guard that `uq_project_session_
workspace_active_owner` puts on every binding.

The same module ends with the resolver. `ResolveAllowed` goes through its actions and
finds each a step of `RunLifecycle` or a stutter, by the guards of the transactions and
not by what the resolver has read, of which it needs only that it knows its worktree:
`InvocationKeepsLifecycle`, and with it `InvocationLeaseCorrect`, which is `LeaseInv`
carried over. `JobInv` is the resolver's inductive invariant: jobs keep their shape
(`InvocationTypeCorrect`), and an invocation for a new task has found no mutable run, or
archived the one it found, when it chooses, so it is answered with `resume` only for a
run it named (`ResolveKeepsJobs`): `NewTaskCorrect`.

*OwnerDelivery_proofs.* Of the fence: `FenceInv` says that every issued token is at most the
epoch of its workspace, also while a merge moves epochs, and that the lock in
force has the greatest token issued for its workspace. From it
`NewestOnlyCorrect` (only the newest credential passes) and `TokenFreshness`.

Of the deliveries, in the same module: `DeliveryInv`: a recorded delivery saw exactly its
snapshot and its own whole change (`ExactInv`) and has moved the run past its
snapshot (`PastInv`), while mutation revisions only grow. Then of two dispatchers
with one snapshot the second compare-and-set fails: `OneDeliveryCorrect`,
`DeliveredExactlyCorrect`. No use is made of the fence: the compare-and-set alone
carries these two, so they hold for dispatchers of one session, too, for whom the
fence is re-entrant.

`DeliveryUsesFence`: `OwnerDelivery` implements the fence's specification. A dispatcher
releases only what was issued to it (`HolderInv`). `ApplyExclusiveCorrect` needs that
every dispatcher has a session of its own: whoever applies holds the fence (`KeepsInv`),
for nobody takes it from under an apply (`LockStays`). Without that assumption it is
false: of two dispatchers of one session the one that ends gives back the fence while
the other still applies, and a third may come in. `UnrecordedIsPendingCorrect` is about
a run that is alone in its workspace and undisturbed (`Calm`, which begins with the run
and is never restored). What an observed delivery is about to record is still there, or
another dispatcher is in between apply and record (`SeenInv`), and when that one gets
further the compare-and-set refuses the first (`Outdated`).

*RunLease_proofs.* `LeaseTypeCorrect` needs that a token about to be written is in
bounds. `LeaseInUseCorrect` is inductive with the types: whoever wrote the row
last reads back its own token, so it is also the one whose release finds it.
`OneFinalizerCorrect` assumes that no process has two commands of one session. Its
`ExclusionInv` speaks of the time before an acquire is crossed or a lease runs out
(`raced`, `expired`): a command at work is the writer of the row, and a command about
to write found nobody in its way and still does not. `HistoryStep` and `DeadStep`
are what all steps have in common; `ExclusiveStep` has a step per action.

*Finalization_proofs.* `FinTypeCorrect` and `NoLostCommitHolds` are for any number of
commands at a time: the type invariant says that an index still names a commit the
branch has, and then a commit is on top of all before it or `NoConflict` refuses it.
Nor is exclusion needed for `DeliverInv`: a receipt that says committed or
delivered is of a commit of the Kernel's, and of what the remote has. It gives
`RecordedIsDeliveredHolds`; and since the remote is at a commit of the branch, which
only grows, `OriginKeepsCommitsHolds`.

`CommitIsProvenHolds`, `OneCommitHolds` and `FinishedDelivered` assume `Serial`: that no
operator's command is at work next to another, so that there are only reports, of any
number of processes (the Run lease is between those), or one command at a time. Without
it they are false (section 7). `Alone` says that then at most one command is at work.
`SafeInv` has a part for the run (a worktree seen with a Kernel commit is never fresh;
fresh means that the content known is the content proven) and one for the command (past
the gates the evidence is fresh; about to commit, there is no Kernel commit yet and the
content seen is proven): `CommitIsProvenHolds`, `OneCommitHolds`. `FinishedDelivered`
needs `DeliverInv` and `AskInv` (a request that is on record stays in the receipt and
with the command at work). `FinalizationDelivers` takes all of these, `OneCommit` and that
origin is at a commit of the branch, and one more: a command behind the closeout that was
not refused has an accepted run (`AcceptInv`; where such a command can come from is
`IntoEnding`). Each variable of the promise is moved by one action: the decision by
`Decide`, the branch by `Commit`, origin by the pushes, the request by `Record`, the status
by `Settle` (`DecisionStep`, `HeadStep`, `OriginStep`, `AskedStep`, `FinalizationStep`);
`PromiseStep` is a case for each of these and one for all other steps, which stutter.

What is left of them when commands do overlap, and nobody else touches the worktree:
`WorkCommittedOnceHolds` (there is at most one commit of the Kernel's with anything in
it) rests on `WorkInv`: the work is in the worktree as long as no commit has it, and a
command that has it staged after that has an old head and fails at the branch.
`WorkIsProvenHolds` (that commit is what was proven, for an accepted run) adds
`UntouchedInv`: rows only go forward, and a command past the gates has evidence that no
other command can make worse.

*ReportOperation_proofs.* `IInv` ties a command at each place to the rows: what it
has read of its attempt still holds, because payload, checkpoint and result are
written once (`Grows`). `PassedProven` and `OneAnswerHolds` need no exclusion at
all: they hold when leases run out and commands overlap. The refinement has a lemma
per kind of step: a bind is `Submit`, an early rejection `DecideAndAnswer`, the journal
`Decide`, a replay and a close `Answer`, everything else a stutter.

The other three speak of the time before a lease runs out under a live command
(`Exclusive`). Then whoever is past the acquire has the lease (`LeaseInv`), so nobody
else touches a step while a command works (`StepsLeft`), and where it stands says in
which state its step is (`PositionInv`): `PassedStaysCorrect`. A result says `passed` only of a
step that has (`ResultsInv`): `FinishedAgreesCorrect`. `PlanFollowed` is for plans that name
what a step depends on before the step (`PlanIsOrdered`; no code
demands it, section 7), while nobody died between a step's passing and the unlocking
(`faults.stranded`). The invariant is `PlanInv`: with such a plan the first step that
has not passed is current, or somebody is about to unlock it (`SomeStepCurrent`),
so a report is never resolved to a step that is still planned (`TargetNotPlanned`).

*StepClaims_proofs.* All steps of a Host are one of a few kinds (lemma `Kinds`). `ClaimInv`
(types; what is a Host's own is an attempt of that step and of nobody else; an attempt
was opened at the snapshot or later; a Host that settles delivered one revision after
its snapshot) is inductive by itself and gives `PatchOnItsBaseHolds`. `SafeInv`, while
nobody has trespassed, adds that the Host that works at a step has its latest
attempt (`Held`), that a Host told of a lost claim has none (`Lost`), and what a passed
step holds (`Placed`): `OneWriterHolds`, `PassedDelivered`, `PassedStaysHolds`.

*IndependentReview_proofs.* Three invariants, each inductive with the types alone.
`RecordInv`: a subject has at most one routed receipt, and what a call has settled and
what proves the obligation is a receipt on record; with it `FirstVerdictHolds`, and
`ReviewRefinesFirstVerdict`: a receipt that is settled is a `Judge` or adopted, a
verification is a `Rest` (`Kinds`, `JudgedStep`), everything else a stutter.
`ClaimInv`: a reviewer whose claim has not run out holds the claim of its revision, or
the run is past that revision, and no later claim can name that revision again; most
steps are `Calm`, and for those it is proved once: `OneReviewerHolds`. `ShownInv`: as
long as `moved` is false, a Host that ingests holds the content the run is at, and a
receipt names the content its verdict was formed on; with `RecordInv` it gives
`VerdictHolds`.

What `First` and `Last` of a set of numbers are, with which `ReportOperation_proofs` and
`StepClaims_proofs` begin, comes from the library's least-element principle for naturals.

*KnowledgeLedger_proofs.* `Entered`: a transaction leaves every record's fact on record,
adds its own, and keeps each in force once, as what it adds or revives is not in force
(`Opens`). `SetToSeq` lists a finite set once (`Listed`, by the pigeonhole principle);
that is why `Fact` is assumed to be finite. `OneRecordHolds` follows: every step is of
this kind (`Tables`). `LedgerRefinesBook` needs the same two invariants, `TablesInv` and
`OneRecordPerFact`: such a transaction is a `Publish` (lemma `Published`), everything else
a stutter. `KnowledgeTypeHolds` is inductive with the shapes of rows and locals (`Shaped`)
and with the runs a worker at each place must be at (`Working`); that `written` lists a run
exactly when it has a receipt (`Receipts`) comes from what `RemoveFirst` leaves of a list
without repetition. For `RetiredKeepsHolds`, `Kept` says that where a receipt settles a run, or a
recovery is about to write that it does, all that was verified in it is on record,
unless the run is disturbed, and that runs at which two workers are count as disturbed.
Most steps are `Steady`, and for those it is proved once; what remains are the review,
the two transactions, and the retirement, which is let through only by such a receipt.

*Only model-checked:* liveness (`Finishes`, `LeaseComesFree`), which is out of the
prover's reach.

## 7. Where code and text disagree

This is a run that TLC finds violated; `PROJECT.json` quotes the sentence.

1. `lease_superseded`: the fencing token starts again with every release, and a
   paused runner is not recognised as superseded.

The models also show the following, for which no run is kept:

- a late blocker report makes an abandoned run blocked (`markRunBlocked` refuses only a
  completed one, `state-store.ts:1195`); its session reactivates it without the worktree
  lease (1242), and it is active next to the run that has it, against the test
  `tests/kernel-runtime-ownership-contract.test.ts:151` ("rejects concurrent mutable
  Runs"); the resolver then answers every command with a conflict
  (`invocation-resolver.ts:296`);
- a blocked run is in the way of a new task, and after the resolver has listed it and
  before it abandons it the run's own session takes it up again: the resolver archives
  an active run, for `abandonRun` refuses ended runs only (`state-store.ts:3313`). The
  test `tests/kernel-session-run-lifecycle.test.ts:133` says that a new task fails closed
  against an active run and preserves its holder;
- a knowledge commit refused for a stale revision takes the new one and is made without
  another review, so two records that were each to replace the same one both enter
  (`docs/public/roadmaps/kernel-project-knowledge-lifecycle-2026-07-23/TRACEABILITY_MATRIX.md:34`);
- a review receipt names the evidence of the time it is recorded, not what the reviewer
  was shown (the comment at `review-receipt.ts:419` speaks of the evidence a verdict was
  formed against), and between the comparison of the capsule and the receipt the subject
  may move to what a report has observed meanwhile;
- `findReusableReviewReceipt` asks for a receipt and not for the proof, so a crash
  between receipt and proof, a contrary verdict that comes late and adopts the first
  receipt, or a passing receipt of a caller that routed nobody makes every further
  request end as a duplicate while the obligation is not proven;
- an operator's approval adopts the failed receipt of the same subject and has no
  effect; an approval that was begun before a change may displace a newer proof;
- a claim is kept after the verdict, a stale subject and a blocked reviewer until it runs
  out; a reviewer whose claim was taken over records its verdict all the same;
- opening a control plane deletes a live lock on a worker workspace, taken for a lock
  with an invalid owner (`state-store.ts:764`; the comment at 2285 speaks of stale locks);
- a Host that is refused for a stale directive fails the step by its id
  (`parallel-dispatcher.ts:1036`), and so the attempt of the Host that has it, or a step
  that has passed, even of a completed run; only a lost claim is spared, as the
  comment above says. A settlement that fails does the same (1243), and a provider that fails
  late after its step has passed (`turn-dispatcher.ts:1636`). The table
  `STEP_TRANSITIONS` that forbids `passed` to `failed` is not consulted;
- two Hosts that split a batch between them both answer `parallel_step_claim_conflict` and
  leave their steps running; so does a Host that gives up its delivery. No code takes
  such a step back but a direct report;
- after a crash past the checkpoint and an edit of the files, the open attempt with its
  old checkpoint is taken up again, `checkpointStepReport` throws
  `REPORT_CHECKPOINT_CONFLICT`, and the recovery is stale for ever, until a replan.
  `docs/decomplexification/kernel-authority-refactor-status.md:23` says that the same
  payload after a repair runs as a new attempt;
- a crash between the opening of an attempt and `updateOwnerAttemptMutationRevision`
  (`control-plane.ts:4788`-`4840`), or a second payload after an edit, leaves an attempt
  whose revision is behind the run: every later report of it is refused for its lineage;
- a proof that may not run leaves its attempt open, against the comment at
  `control-plane.ts:4771`; a report that reopens a passed step always ends in
  `REPORT_CHECKPOINT_STALE` (`work-cursor.ts:712` and `971`);
- a crash between a step's passing and `unlockDependentSteps` leaves no step current, and
  a report that names any step of the plan is taken for it, whatever that step depends on
  (`work-cursor.ts:723`; the comment at 640 says that an explicit step must be the live
  one). The same holds without a crash for a plan whose `dependsOn` is cyclic or names
  what is not there, which nothing refuses (`step-planner.ts:136`);
- a command overtaken after its lease ran out writes `verifying`, and then its own verdict,
  over a step that has passed;
- terminal reconciliation closes the bindings of completed and blocked runs only: a
  binding taken on an abandoned run stays; and a completion closes the owner binding
  at once, which a comment says is kept for the successor;
- a run blocked and resumed while `git apply` runs lets a second session apply at
  the same time (the compare-and-set refuses one of the two);
- a crash between the completion decision and the finalization receipt forgets the
  closeout request, which the receipt was to carry (`finalization.ts:796`; the comment at
  451 relies on it); a closeout that completed for a request without a report key is not
  recognised by the retry for knowledge (554; the comment at `control-plane.ts:4356`);
- a finalization tried again whose review does not pass overwrites the receipt of a
  commit already made with `deferred` (`finalization.ts:677`; only the other branch
  looks at the prior receipt);
- knowledge that is observed, or verified, after the run's receipt says `committed` or
  `no_change` is never committed, and is deleted with the run
  (`docs/public/roadmaps` promises ephemeral work, persistent knowledge);
- a recovery that runs while the run it recovers is reviewed again commits what is
  verified at that moment, often nothing: it writes `no_change`, and the run's own
  finalization then takes its knowledge for settled;
- a run whose knowledge another run has brought in keeps `deferred` in its own
  finalization receipt: if that was completed, the run is never settled and never
  retired. The oldest deferred run is the only one looked at: one that can never
  commit keeps all others waiting. So do 64 older runs that were deferred by their
  review, for only then is it asked which are to be tried again
  (`knowledge-lifecycle-store.ts:1417`; the model has no such number of runs);
- the review checks supersessions only of promotions and feedback, the commit makes
  those of explicit observations too; an observation that restates the record it is to
  supersede leaves none in force;
- a crash after the transition to CLOSE, then an edit, leaves a run that can be
  neither proven nor finished; a crash between the commit and its receipt makes every
  retry take the Kernel's own commit for drift;
- a report that died after the decision can be sent again when another report has finished
  the run: it goes on from its checkpoint into `finalizeRun` (`control-plane.ts:4395`), which
  does not ask whether the run is finished, and after an edit in between writes `blocked`
  over `completed` and an empty receipt over the one of the delivery
  (`finalization.ts:377`). Commit and delivery stay (`OneDelivery`'s `Reopen`);
- `kernel finalize` next to a report may overwrite a completed status, make a
  second, empty commit, or drop a request; and when an operator's command observes an edit
  between the last comparison of a report's proof and the comparison before its closeout
  (`git/closeout.ts:178`, which is with the identity on record and not with the proof's),
  the report commits the edit unproven, against the comment at `finalization.ts:402`. What
  remains true is proved: see `WorkCommittedOnceHolds`, `WorkIsProvenHolds`;
- importing a statement again from the same source after its record was superseded writes
  over that record, which is in force again; that it had been superseded, and by what
  revision, is lost (`knowledge-lifecycle-store.ts:643`);
- two processes whose acquires cross both get the Run lease and both finalize;
- a closeout requested when nothing is left to commit is `skipped` and the run stays
  partial; a stray dirty file makes a failed push unretryable; `resume` keeps its
  lease for 15 minutes, so another process of the same session is refused while the
  first lives.

## 8. Plan

Done: (1) `RunLifecycle`, `LeaseMutex`; (2) `WorkspaceFence`, `OwnerDelivery`; (3)
`Finalization`,
`OneDelivery`; (4) `RunLease`; (5) `ReportOperation`, `OneOutcome`, `StepClaims`; (6)
`KnowledgeLedger`; (7) `IndependentReview`; (8) `Invocation`; with proofs for all.

Worth doing next:

9. Composition of `Finalization` with `RunLease` in place of the assumed exclusion.
10. Pure algorithms as operators against reference definitions: the transition
   graph, merge of closeout receipts, step planning, successor keys.

## 9. Not modelled

Several projects in one store; migration of legacy bindings and databases; expiry
of session bindings and continuity of workspaces; worktree authority beyond the
lease; a HEAD that is detached or moved by the user's reset; closeout modes other
than `commit_and_push`, a pre-staged index, an index refresh that fails after the
branch has moved; approvals of a closeout; reviews of several steps, plans or
obligations side by side, the rules of session independence and model class, the
transports of a reviewer; replanning (plan revisions and superseded steps),
stagnation, Host-owned workers with held-back reports, the guarded parallel variant; the assessment that decides whether obligations are
met (its verdict is an input); the content of knowledge, its projection into files and
its ontology constraints; reuse of process ids;
prompts, model routing, packaging and everything else that is text or files. The
reasons stand with the components in `PROJECT.json`.
