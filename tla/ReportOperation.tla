--------------------------- MODULE ReportOperation ---------------------------
(***************************************************************************)
(* The report of a session that does the work itself (report,              *)
(* reportUnderLease, settleVerifiedReport).  Each report is a command in a *)
(* process of its own; it finds or opens an attempt, binds its payload to  *)
(* it, proves, writes a checkpoint, settles the step, unlocks what depends *)
(* on it, may complete the run, and records the answer as the attempt's    *)
(* result.  The process may die between any two of these, the answer may   *)
(* be lost, the report is sent again, with or without its key, the files   *)
(* are edited meanwhile, and a lease that ran out lets a second command in.*)
(*                                                                         *)
(* A plan has steps 1 .. Steps, in the order of the ledger.  A report is   *)
(* [step, claim]: the step it names, 0 for none, and the rest of its       *)
(* payload.  An attempt is known by its row number.                        *)
(***************************************************************************)
EXTENDS Naturals, FiniteSets, Extrema

CONSTANTS
  Command,      \* processes that report
  Steps,        \* number of steps of the plan
  Needs,        \* the steps a step depends on
  Report,       \* what may be reported
  Content,      \* contents of the worktree
  Start,        \* the content the run began with
  None,
  MaxAttempts,  \* bound: attempts
  MaxRevision,  \* bound: mutation revisions
  MaxEdits,     \* bound: edits of the worktree
  MaxFaults     \* bound: processes that die, and leases that run out under
                \* a live command

Step == 1..Steps
Attempt == 1..MaxAttempts

ASSUME ReportAssumption ==
  /\ {Steps, MaxAttempts, MaxRevision, MaxEdits, MaxFaults} \subseteq Nat
  /\ Needs \in [Step -> SUBSET Step]
  /\ \A r \in Report : r.step \in Step \cup {0}
  /\ Start \in Content

VARIABLES
  step,      \* run_steps: state and, once passed, what it passed with
  attempt,   \* run_step_attempts
  tree,      \* content of the worktree
  known,     \* runs.current_workspace_identity
  revision,  \* runs.mutation_revision
  proved,    \* the run has reached PROVE
  completed, \* the run is completed and finalized
  lease,     \* the command that holds the run lease, or None
  at,        \* where each command is
  job,       \* what it works on
  answers,   \* history: the results handed out
  faults     \* how many edits, crashes and expiries there were, and whether a
             \* process died between a step's passing and the unlocking

ledger == <<step, attempt>>
run == <<tree, known, revision, proved, completed>>
vars == <<ledger, run, lease, at, job, answers, faults>>

Stamp == [revision : 0..MaxRevision, content : Content]
Checkpoint == [revision : 0..MaxRevision, content : Content, ok : BOOLEAN]
Result == [verdict : {"passed", "failed", "rejected"}, next : 0..Steps]

ASSUME AbsentAssumption == None \notin Report \cup Command \cup Stamp \cup Checkpoint \cup Result

NoAttempt == [step |-> 0, revision |-> 0, payload |-> None, checkpoint |-> None,
              result |-> None, status |-> "none"]
NoJob == [report |-> None, key |-> 0, attempt |-> 0, step |-> 0, base |-> 0,
          content |-> Start, moved |-> FALSE, check |-> None, passed |-> FALSE,
          next |-> 0]

Places == {"idle", "sent", "inspected", "leased", "resolved", "observed", "opened",
           "bound", "proving", "proved", "settling", "marking", "marked",
           "unlocking", "settled", "journaling", "closing"}

StepRow ==
  [state : {"planned", "ready", "running", "verifying", "passed", "failed"},
   stamp : Stamp \cup {None}]
AttemptRow ==
  [step : 0..Steps, revision : 0..MaxRevision, payload : Report \cup {None},
   checkpoint : Checkpoint \cup {None}, result : Result \cup {None},
   status : {"none", "open", "passed", "failed"}]
Job ==
  [report : Report \cup {None}, key : Attempt \cup {0}, attempt : Attempt \cup {0},
   step : 0..Steps, base : 0..MaxRevision, content : Content, moved : BOOLEAN,
   check : Checkpoint \cup {None}, passed : BOOLEAN, next : 0..Steps]

ReportTypeOK ==
  /\ step \in [Step -> StepRow]
  /\ attempt \in [Attempt -> AttemptRow]
  /\ tree \in Content /\ known \in Content
  /\ revision \in 0..MaxRevision
  /\ proved \in BOOLEAN /\ completed \in BOOLEAN
  /\ lease \in Command \cup {None}
  /\ at \in [Command -> Places]
  /\ job \in [Command -> Job]
  /\ answers \subseteq [operation : Attempt, outcome : Result]
  /\ faults \in [edits : 0..MaxEdits, crashes : 0..MaxFaults,
                expiries : 0..MaxFaults, stranded : BOOLEAN]

Satisfied(s) == \A d \in Needs[s] : step[d].state = "passed"

Init ==
  /\ step = [s \in Step |-> [state |-> IF Needs[s] = {} THEN "ready" ELSE "planned",
                             stamp |-> None]]
  /\ attempt = [a \in Attempt |-> NoAttempt]
  /\ tree = Start /\ known = Start /\ revision = 0
  /\ proved = FALSE /\ completed = FALSE
  /\ lease = None
  /\ at = [c \in Command |-> "idle"]
  /\ job = [c \in Command |-> NoJob]
  /\ answers = {}
  /\ faults = [edits |-> 0, crashes |-> 0, expiries |-> 0, stranded |-> FALSE]

-----------------------------------------------------------------------------
(* The step ledger and the attempt store. *)

UnderWay == {s \in Step : step[s].state \in {"running", "verifying"}}
Executable == {s \in Step : step[s].state \in {"ready", "failed"} /\ Satisfied(s)}
CurrentStep == IF UnderWay # {} THEN First(UnderWay) ELSE First(Executable)
AllPassed == \A s \in Step : step[s].state = "passed"

OpenAttempt(s) == Last({a \in Attempt : attempt[a].step = s /\ attempt[a].status = "open"})
Unused == {a \in Attempt : attempt[a].status = "none"}

(* inspectReportOperation: the attempt a report is about: the one of its key,  *)
(* or the latest one with this payload whose verified content is the live one. *)
LiveContent(a) == attempt[a].checkpoint.content = tree

Retransmitted(r) ==
  Last({a \in Attempt : attempt[a].payload = r /\ attempt[a].checkpoint # None
                          /\ LiveContent(a)})
InspectedAttempt(c) ==
  IF job[c].key # 0 THEN job[c].key ELSE Retransmitted(job[c].report)

Conflicts(c, a) == attempt[a].payload \notin {None, job[c].report}
Replays(c, a) == attempt[a].payload = job[c].report /\ attempt[a].result # None

-----------------------------------------------------------------------------
(* A command's way through a report. *)

Go(c, where) == at[c] # where /\ at' = [at EXCEPT ![c] = where]

(* finally: the lease is given back, if it is still this command's. *)
Leave(c) ==
  /\ Go(c, "idle")
  /\ job' = [job EXCEPT ![c] = NoJob]
  /\ lease' = IF lease = c THEN None ELSE lease

Told(a, result) == answers \cup {[operation |-> a, outcome |-> result]}

(* finishStepAttemptWithReportResult, one transaction. *)
VerdictAsStatus(result) == result.verdict  \* mutant: a status of its own
Status(result) == IF result.verdict = "passed" THEN "passed" ELSE "failed"
StatusAfter(a, result) ==
  IF attempt[a].result = None \/ attempt[a].status = "open" THEN Status(result)
  ELSE attempt[a].status
Finish(a, result) ==
  attempt' = [attempt EXCEPT ![a].result = result, ![a].status = StatusAfter(a, result)]

(* settleDurableReportReplay, and the stored result as the answer. *)
Replay(c, a) ==
  /\ Finish(a, attempt[a].result)
  /\ answers' = Told(a, attempt[a].result)
  /\ Leave(c)
  /\ UNCHANGED <<step, run, faults>>

Refuse(c) == Leave(c) /\ UNCHANGED <<ledger, run, answers, faults>>

Keys == {0} \cup {a \in Attempt : attempt[a].payload # None}

(* The session sends a report: a new one, or one it had no answer to, with the *)
(* key it was told or without one.                                             *)
Send(c, r, k) ==
  /\ at[c] = "idle"
  /\ k \in Keys
  /\ Go(c, "sent")
  /\ job' = [job EXCEPT ![c] = [NoJob EXCEPT !.report = r, !.key = k]]
  /\ UNCHANGED <<ledger, run, lease, answers, faults>>

(* report: the first look, before the lease is asked for. *)
Inspect(c) ==
  /\ at[c] = "sent"
  /\ LET a == InspectedAttempt(c) IN
       \/ a # 0 /\ Conflicts(c, a) /\ Refuse(c)
       \/ a # 0 /\ Replays(c, a) /\ Replay(c, a)
       \/ /\ IF a = 0 THEN TRUE ELSE ~Conflicts(c, a) /\ ~Replays(c, a)
          /\ IF completed /\ (IF a = 0 THEN TRUE ELSE attempt[a].checkpoint = None)
             THEN Refuse(c)
             ELSE /\ Go(c, "inspected")
                  /\ UNCHANGED <<ledger, run, lease, job, answers, faults>>

(* acquireRunLease: free, run out, or left behind by a process that is gone. *)
AdmitsAll(c) == TRUE  \* mutant: reports do not exclude each other
Admits(c) == lease = None \/ at[lease] = "idle" \/ lease = c

Acquire(c) ==
  /\ at[c] = "inspected"
  /\ IF Admits(c)
     THEN /\ lease' = c
          /\ Go(c, "leased")
          /\ UNCHANGED <<ledger, run, job, answers, faults>>
     ELSE Refuse(c)

(* The verified report of an attempt may be taken up where it stopped. *)
Resumable(check) == check.revision = revision /\ tree = known

(* resolveReportStep: which step this report answers; several answers only     *)
(* where the decision is about paths.                                          *)
LineageHolds(s) ==
  OpenAttempt(s) # 0 => attempt[OpenAttempt(s)].revision = revision
Answerable(s) ==
  /\ step[s].state # "passed"
  /\ CurrentStep \in {0, s} \/ OpenAttempt(s) # 0
  /\ LineageHolds(s)
Reopens(s) == step[s].state = "passed" /\ CurrentStep = 0 /\ tree # known
FollowsUp(s) == step[s].state = "passed" /\ CurrentStep = 0 /\ proved /\ ~completed
Targets(r) ==
  IF r.step # 0
  THEN {s \in {r.step} : Answerable(s) \/ Reopens(s)} \cup
       {z \in {0} : FollowsUp(r.step) /\ ~Reopens(r.step)}
  ELSE IF CurrentStep = 0 THEN {0}
  ELSE {s \in {CurrentStep} : Cardinality(Executable) <= 1 /\ LineageHolds(s)}

(* reportUnderLease: the second look; then recovery from the checkpoint, or    *)
(* the step, the revision and the content this report starts from.             *)
Resolve(c) ==
  /\ at[c] = "leased"
  /\ LET a == InspectedAttempt(c) IN
       \/ a # 0 /\ Conflicts(c, a) /\ Refuse(c)
       \/ a # 0 /\ Replays(c, a) /\ Replay(c, a)
       \/ /\ a # 0 /\ ~Conflicts(c, a) /\ ~Replays(c, a)
          /\ attempt[a].checkpoint # None
          /\ IF Resumable(attempt[a].checkpoint)
             THEN /\ job' = [job EXCEPT ![c].attempt = a, ![c].step = attempt[a].step,
                                        ![c].check = attempt[a].checkpoint]
                  /\ Go(c, "settling")
                  /\ UNCHANGED <<ledger, run, lease, answers, faults>>
             ELSE Refuse(c)
       \/ /\ IF a = 0 THEN TRUE ELSE /\ ~Conflicts(c, a) /\ ~Replays(c, a)
                                      /\ attempt[a].checkpoint = None
          /\ \/ \E s \in Targets(job[c].report) :
                  /\ job' = [job EXCEPT ![c].step = s, ![c].base = revision,
                               ![c].content = tree]
                  /\ Go(c, "resolved")
                  /\ UNCHANGED <<ledger, run, lease, answers, faults>>
             \/ /\ Targets(job[c].report) \subseteq {0}
                /\ job[c].report.step # 0
                /\ Refuse(c)
             \/ /\ Targets(job[c].report) = {}
                /\ job[c].report.step = 0
                /\ Refuse(c)

(* observeWorkspaceIdentity: a content the run does not know is a mutation. *)
Observe(c) ==
  /\ at[c] = "resolved"
  /\ LET moved == job[c].content # known IN
       /\ moved => revision < MaxRevision
       /\ known' = job[c].content
       /\ revision' = IF moved THEN revision + 1 ELSE revision
       /\ job' = [job EXCEPT ![c].moved = moved]
  /\ Go(c, "observed")
  /\ UNCHANGED <<ledger, tree, proved, completed, lease, answers, faults>>

(* The step's open attempt, or a new one, opened with the revision read before *)
(* the observation; the step runs.                                             *)
Open(c) ==
  /\ at[c] = "observed"
  /\ LET s == job[c].step
         a == IF s = 0 THEN 0 ELSE OpenAttempt(s)
     IN IF s = 0
        THEN Go(c, "proving") /\ UNCHANGED <<ledger, job>>
        ELSE /\ Go(c, "opened")
             /\ IF a # 0
                THEN job' = [job EXCEPT ![c].attempt = a] /\ UNCHANGED ledger
                ELSE /\ Unused # {}
                     /\ job' = [job EXCEPT ![c].attempt = First(Unused)]
                     /\ attempt' = [attempt EXCEPT ![First(Unused)] =
                          [NoAttempt EXCEPT !.step = s, !.revision = job[c].base,
                                            !.status = "open"]]
                     /\ step' = [step EXCEPT ![s].state =
                          IF @ \in {"planned", "ready", "failed"} THEN "running" ELSE @]
  /\ UNCHANGED <<run, lease, answers, faults>>

(* bindStepAttemptReportOperation: an attempt answers one payload. *)
BindsAny(c, a) == TRUE  \* mutant: COALESCE without the comparison
Binds(c, a) == ~Conflicts(c, a)

Bind(c) ==
  /\ at[c] = "opened"
  /\ LET a == job[c].attempt IN
       IF ~Binds(c, a) THEN Refuse(c)
       ELSE IF Replays(c, a) THEN Replay(c, a)
       ELSE /\ attempt' = [attempt EXCEPT ![a].payload = job[c].report]
            /\ Go(c, "bound")
            /\ UNCHANGED <<step, run, lease, job, answers, faults>>

(* updateOwnerAttemptMutationRevision, when the observation moved the run. *)
Advance(c) ==
  /\ at[c] = "bound"
  /\ LET a == job[c].attempt IN
       IF ~job[c].moved THEN Go(c, "proving") /\ UNCHANGED <<attempt, job, lease>>
       ELSE IF attempt[a].revision = job[c].base
       THEN /\ attempt' = [attempt EXCEPT ![a].revision = job[c].base + 1]
            /\ Go(c, "proving")
            /\ UNCHANGED <<job, lease>>
       ELSE Leave(c) /\ UNCHANGED attempt
  /\ UNCHANGED <<step, run, answers, faults>>

(* A rejection before any proof is this attempt's result (settleEarlyAttempt-  *)
(* Result) ...                                                                 *)
RejectEarly(c) ==
  /\ at[c] = "proving"
  /\ LET a == job[c].attempt
         result == [verdict |-> "rejected", next |-> CurrentStep]
     IN IF a # 0 /\ attempt[a].result = None
        THEN Finish(a, result) /\ answers' = Told(a, result)
        ELSE UNCHANGED <<attempt, answers>>
  /\ Leave(c)
  /\ UNCHANGED <<step, run, faults>>

(* ... a proof that may not run blocks the run and leaves the attempt open ... *)
ProofRefused(c) ==
  /\ at[c] = "proving"
  /\ Refuse(c)

(* ... and a proof that ran is in the checkpoint, with what it was about. *)
Prove(c) ==
  /\ at[c] = "proving"
  /\ ~completed
  /\ proved' = TRUE
  /\ \E ok \in BOOLEAN :
       job' = [job EXCEPT ![c].check =
         [revision |-> revision, content |-> job[c].content, ok |-> ok]]
  /\ Go(c, "proved")
  /\ UNCHANGED <<ledger, tree, known, revision, completed, lease, answers, faults>>

(* checkpointStepReport: written once, before step and cursor move. *)
Rewrites(c, a) == TRUE  \* mutant: a second proof replaces the first
Checkpoints(c, a) == attempt[a].checkpoint \in {None, job[c].check}

WriteCheckpoint(c) ==
  /\ at[c] = "proved"
  /\ LET a == job[c].attempt IN
       IF a = 0
       THEN Go(c, "settling") /\ UNCHANGED <<attempt, job, lease>>
       ELSE IF Checkpoints(c, a)
       THEN /\ attempt' = [attempt EXCEPT ![a].checkpoint = job[c].check]
            /\ Go(c, "settling")
            /\ UNCHANGED <<job, lease>>
       ELSE Leave(c) /\ UNCHANGED attempt
  /\ UNCHANGED <<step, run, answers, faults>>

-----------------------------------------------------------------------------
(* settleVerifiedReport, entered with a fresh checkpoint or a recovered one.   *)

StampOf(check) == [revision |-> check.revision, content |-> check.content]

(* settleStep reads the evidence, which must be of the current revision, and   *)
(* the step; a step that passed before must have passed with this very report. *)
SettleRead(c) ==
  /\ at[c] = "settling"
  /\ LET s == job[c].step
         check == job[c].check
         passed == check.ok /\ check.revision = revision
     IN IF s = 0 THEN Go(c, "settled") /\ UNCHANGED <<job, lease>>
        ELSE IF step[s].state # "passed"
        THEN Go(c, "marking") /\ job' = [job EXCEPT ![c].passed = passed]
             /\ UNCHANGED lease
        ELSE IF passed /\ step[s].stamp = StampOf(check)
        THEN Go(c, "unlocking") /\ job' = [job EXCEPT ![c].passed = TRUE]
             /\ UNCHANGED lease
        ELSE Leave(c)
  /\ UNCHANGED <<ledger, run, answers, faults>>

(* reported, then verifying. *)
Mark(c) ==
  /\ at[c] = "marking"
  /\ step' = [step EXCEPT ![job[c].step].state = "verifying"]
  /\ Go(c, "marked")
  /\ UNCHANGED <<attempt, run, lease, job, answers, faults>>

(* completeStep or failStep. *)
Verdict(c) ==
  /\ at[c] = "marked"
  /\ LET s == job[c].step IN
       IF job[c].passed
       THEN /\ step' = [step EXCEPT ![s] =
                 [state |-> "passed", stamp |-> StampOf(job[c].check)]]
            /\ Go(c, "unlocking")
       ELSE /\ step' = [step EXCEPT ![s].state = "failed"]
            /\ Go(c, "settled")
  /\ UNCHANGED <<attempt, run, lease, job, answers, faults>>

(* unlockDependentSteps. *)
Unlock(c) ==
  /\ at[c] = "unlocking"
  /\ step' = [s \in Step |->
       IF step[s].state = "planned" /\ Satisfied(s)
       THEN [step[s] EXCEPT !.state = "ready"] ELSE step[s]]
  /\ Go(c, "settled")
  /\ UNCHANGED <<attempt, run, lease, job, answers, faults>>

(* With every step passed and nothing outstanding the run is finalized, if the *)
(* lease is still held; the answer is put together.                            *)
Finalize(c) ==
  /\ at[c] = "settled"
  /\ \/ /\ completed' = completed
        /\ IF job[c].step = 0
           THEN Leave(c)
           ELSE /\ Go(c, "journaling")
                /\ job' = [job EXCEPT ![c].next = CurrentStep]
                /\ UNCHANGED lease
     \/ /\ AllPassed /\ job[c].check.ok /\ (proved \/ completed)
        /\ IF lease # c
           THEN completed' = completed /\ Leave(c)
           ELSE /\ completed' = TRUE
                /\ IF job[c].step = 0
                   THEN Leave(c)
                   ELSE /\ Go(c, "journaling")
                        /\ job' = [job EXCEPT ![c].next = CurrentStep]
                        /\ UNCHANGED lease
  /\ UNCHANGED <<ledger, tree, known, revision, proved, answers, faults>>

AnswerOf(c) == [verdict |-> IF job[c].passed THEN "passed" ELSE "failed",
               next |-> job[c].next]

(* setStepAttemptReportResult: once, or the same again; another is an error. *)
JournalsAny(c, a) == TRUE  \* mutant: a plain UPDATE
Journals(c, a) == attempt[a].result \in {None, AnswerOf(c)}

Journal(c) ==
  /\ at[c] = "journaling"
  /\ LET a == job[c].attempt IN
       IF Journals(c, a)
       THEN /\ attempt' = [attempt EXCEPT ![a].result = AnswerOf(c)]
            /\ Go(c, "closing")
            /\ UNCHANGED <<job, lease>>
       ELSE Leave(c) /\ UNCHANGED attempt
  /\ UNCHANGED <<step, run, answers, faults>>

(* The attempt is finished and the answer goes out. *)
Close(c) ==
  /\ at[c] = "closing"
  /\ LET a == job[c].attempt IN
       /\ Journals(c, a)
       /\ Finish(a, AnswerOf(c))
       /\ answers' = Told(a, AnswerOf(c))
  /\ Leave(c)
  /\ UNCHANGED <<step, run, faults>>

-----------------------------------------------------------------------------
(* What happens to a command and around it.                                    *)

(* The process dies; what it wrote stays, its lease included. *)
Crash(c) ==
  /\ at[c] # "idle"
  /\ faults.crashes + faults.expiries < MaxFaults
  /\ faults' = [faults EXCEPT !.crashes = @ + 1,
                              !.stranded = @ \/ at[c] = "unlocking"]
  /\ Go(c, "idle")
  /\ job' = [job EXCEPT ![c] = NoJob]
  /\ UNCHANGED <<ledger, run, lease, answers>>

(* The lease of a command that still runs runs out. *)
Expire ==
  /\ lease # None
  /\ faults.crashes + faults.expiries < MaxFaults
  /\ faults' = [faults EXCEPT !.expiries = @ + 1]
  /\ lease' = None
  /\ UNCHANGED <<ledger, run, at, job, answers>>

(* The session goes on editing the worktree, or takes an edit back. *)
Edit ==
  /\ faults.edits < MaxEdits
  /\ faults' = [faults EXCEPT !.edits = @ + 1]
  /\ tree' \in Content \ {tree}
  /\ UNCHANGED <<ledger, known, revision, proved, completed, lease, at, job, answers>>

Work(c) ==
  \/ Inspect(c) \/ Acquire(c) \/ Resolve(c) \/ Observe(c) \/ Open(c) \/ Bind(c)
  \/ Advance(c) \/ RejectEarly(c) \/ ProofRefused(c) \/ Prove(c)
  \/ WriteCheckpoint(c) \/ SettleRead(c) \/ Mark(c) \/ Verdict(c) \/ Unlock(c)
  \/ Finalize(c) \/ Journal(c) \/ Close(c)

Next ==
  \/ \E c \in Command :
       \/ \E r \in Report, k \in Attempt \cup {0} : Send(c, r, k)
       \/ Work(c)
       \/ Crash(c)
  \/ Expire
  \/ Edit

Spec == Init /\ [][Next]_vars

-----------------------------------------------------------------------------
(* Properties. *)

Promise == INSTANCE OneOutcome WITH
  Operation <- Attempt, Payload <- Report, Outcome <- Result,
  submitted <- [a \in Attempt |-> attempt[a].payload],
  outcome <- [a \in Attempt |-> attempt[a].result],
  answered <- answers

(* However often a report is sent, with its key or without, by commands that   *)
(* overlap, die half-way and resume from the checkpoint: an attempt is bound   *)
(* to one payload, gets one outcome, and every answer is that outcome.         *)
OneAnswer == Promise!Spec

(* A step is passed only on the word of a checkpoint of one of its own         *)
(* attempts, with the very revision and content that were proved: a second     *)
(* proof, a recovery or a late command never leaves a passed step behind whose *)
(* evidence is gone or was about something else, even after a lost lease.      *)
PassedIsProven ==
  \A s \in Step : step[s].state = "passed" =>
    \E a \in Attempt :
      /\ attempt[a].step = s
      /\ attempt[a].checkpoint # None
      /\ attempt[a].checkpoint.ok
      /\ step[s].stamp = StampOf(attempt[a].checkpoint)

(* No lease ran out under a live command.  When one does, the overtaken        *)
(* command's `verifying' may come after its successor's `passed'.              *)
Exclusive == faults.expiries = 0

(* Work never runs ahead of the plan: a step is made ready, attempted or       *)
(* settled only when everything it depends on has passed, wherever a process   *)
(* died, but for one place: between a step's passing and the unlocking of its  *)
(* dependents.  Then no step is current, and a report may name any.            *)
WorkFollowsPlan ==
  Exclusive /\ ~faults.stranded => \A s \in Step, d \in Step :
    (step[s].state # "planned" /\ d \in Needs[s]) => step[d].state = "passed"

(* An attempt is finished as passed only when its step is passed by then: a    *)
(* recovered or repeated report does not answer for a step that another report *)
(* failed in the meantime.                                                     *)
FinishedAgrees ==
  [][\A a \in Attempt :
       (Exclusive /\ attempt[a].status # "passed" /\ attempt'[a].status = "passed") =>
         step'[attempt[a].step].state = "passed"]_vars

(* A passed step stays passed: no report that is repeated, recovered or        *)
(* reopened takes it back.                                                     *)
PassedStays ==
  [][\A s \in Step : Exclusive /\ step[s].state = "passed" => step'[s].state = "passed"]_vars

=============================================================================
