----------------------------- MODULE StepClaims -----------------------------
(***************************************************************************)
(* Hosts that dispatch the same run (dispatchKernelParallel): each takes   *)
(* the executable steps as a batch, claims every step before its worker    *)
(* starts, lets the workers run, records what they did, delivers the       *)
(* recorded results as one patch and settles the delivered steps.          *)
(*                                                                         *)
(* A Host in another process may stand anywhere in the same sequence; the  *)
(* run may be blocked, resumed, completed or changed by its owner between  *)
(* any two steps; a Host may die.  The delivery itself is OwnerDelivery,   *)
(* the proof behind a settlement ReportOperation: here they are one step.  *)
(***************************************************************************)
EXTENDS Naturals, FiniteSets, Extrema

CONSTANTS
  Host,         \* dispatching processes
  Steps,        \* number of steps, independent of each other
  Width,        \* most steps in a batch (maxWorkers)
  MaxAttempts,  \* bound: attempts
  MaxRevision,  \* bound: mutation revisions
  MaxFaults     \* bound: how often the run is blocked or a Host dies

Step == 1..Steps
Attempt == 1..MaxAttempts

ASSUME ClaimsAssumption ==
  {Steps, Width, MaxAttempts, MaxRevision, MaxFaults} \subseteq Nat

VARIABLES
  step,      \* run_steps: state, and the attempt whose receipt it holds
  attempt,   \* run_step_attempts
  run,       \* status and mutation revision
  job,       \* what each Host is at
  delivered, \* history: attempts whose patch went into the owner's workspace
  trespass,  \* history: a Host failed a step that was another's, or had passed
             \* by it, and it had not been told that the step is claimed
  faults     \* how often the run was blocked or a Host died

vars == <<step, attempt, run, job, delivered, trespass, faults>>

Outcomes == {"none", "todo", "stale", "taken", "working", "dropped",
             "conflict", "recorded", "settled", "rejected"}
Job == [at : {"idle", "dispatching", "settling", "proving", "closing"},
        snapshot : 0..MaxRevision,
        outcome : [Step -> Outcomes],
        mine : [Step -> Attempt \cup {0}]]
NoJob == [at |-> "idle", snapshot |-> 0, outcome |-> [s \in Step |-> "none"],
          mine |-> [s \in Step |-> 0]]

StepRow == [state : {"ready", "running", "failed", "passed"}, result : Attempt \cup {0}]
AttemptRow == [step : 0..Steps, revision : 0..MaxRevision,
               status : {"none", "started", "failed", "passed"}]

ClaimsTypeOK ==
  /\ step \in [Step -> StepRow]
  /\ attempt \in [Attempt -> AttemptRow]
  /\ run \in [status : {"active", "blocked", "completed"}, revision : 0..MaxRevision]
  /\ job \in [Host -> Job]
  /\ delivered \subseteq Attempt
  /\ trespass \in BOOLEAN
  /\ faults \in 0..MaxFaults

Init ==
  /\ step = [s \in Step |-> [state |-> "ready", result |-> 0]]
  /\ attempt = [a \in Attempt |-> [step |-> 0, revision |-> 0, status |-> "none"]]
  /\ run = [status |-> "active", revision |-> 0]
  /\ job = [h \in Host |-> NoJob]
  /\ delivered = {}
  /\ trespass = FALSE
  /\ faults = 0

-----------------------------------------------------------------------------
(* The stores. *)

Active == run.status = "active"
Executable == {s \in Step : step[s].state \in {"ready", "failed"}}
Batch == {s \in Executable : Cardinality({t \in Executable : t < s}) < Width}

Unused == {a \in Attempt : attempt[a].status = "none"}
Latest(s) == Last({a \in Attempt : attempt[a].step = s})
OpenAttempt(s) == Last({a \in Attempt : attempt[a].step = s /\ attempt[a].status = "started"})

(* failStepAttempt: by step, not by attempt: the open attempt of the step,     *)
(* whoever's it is, or else the latest one, and the step, whatever its state.  *)
ToFail(s) == IF OpenAttempt(s) # 0 THEN OpenAttempt(s) ELSE Latest(s)

Others(h, s) ==
  step[s].state \in {"running", "passed"} /\ Latest(s) # job[h].mine[s]

FailStepAttempt(h, s, told) ==
  LET a == ToFail(s) IN
    /\ attempt' = [b \in Attempt |->
         IF b = a THEN [attempt[b] EXCEPT !.status = "failed"] ELSE attempt[b]]
    /\ step' = [step EXCEPT ![s].state = "failed"]
    /\ trespass' = (trespass \/ (~told /\ Others(h, s)))

Now(h, s, outcome) == job' = [job EXCEPT ![h].outcome[s] = outcome]
Lets(h, s, outcome) ==
  job' = [job EXCEPT ![h].outcome[s] = outcome, ![h].mine[s] = 0]
At(h, s, outcome) == job[h].at = "dispatching" /\ job[h].outcome[s] = outcome

-----------------------------------------------------------------------------
(* A batch is selected, and its steps are claimed and worked on side by side.  *)

Select(h) ==
  /\ job[h].at = "idle"
  /\ Active
  /\ Cardinality(Batch) >= 2
  /\ job' = [job EXCEPT ![h] =
       [NoJob EXCEPT !.at = "dispatching", !.snapshot = run.revision,
                     !.outcome = [s \in Step |-> IF s \in Batch THEN "todo" ELSE "none"]]]
  /\ UNCHANGED <<step, attempt, run, delivered, trespass, faults>>

(* bindStepAttempt has read the run at some moment since the selection;        *)
(* recordStepAttempt claims the step in one transaction, if the run is still    *)
(* the one that was read and the step can still be claimed.                     *)
ClaimableAny(s) == TRUE  \* mutant: UPDATE run_steps without the state
Claimable(s) == step[s].state \in {"ready", "failed"}

Claim(h, s) ==
  /\ At(h, s, "todo")
  /\ \E seen \in job[h].snapshot..run.revision :
       IF ~Active \/ seen # run.revision
       THEN Now(h, s, "stale") /\ UNCHANGED <<step, attempt>>
       ELSE IF ~Claimable(s)
       THEN Now(h, s, "taken") /\ UNCHANGED <<step, attempt>>
       ELSE /\ Unused # {}
            /\ step' = [step EXCEPT ![s].state = "running"]
            /\ attempt' = [attempt EXCEPT ![First(Unused)] =
                 [step |-> s, revision |-> seen, status |-> "started"]]
            /\ job' = [job EXCEPT ![h].outcome[s] = "working",
                                  ![h].mine[s] = First(Unused)]
  /\ UNCHANGED <<run, delivered, trespass, faults>>

-----------------------------------------------------------------------------
(* When all are back their outcomes are gone through in the order of steps.    *)
(* That a worker ends is no step of its own: nobody looks before all have.     *)

Out(h) == {s \in Step : job[h].outcome[s] = "todo"}
Back(h) == {s \in Step : job[h].outcome[s] \in {"stale", "taken", "working"}}
Gathers(h, s) == job[h].at = "dispatching" /\ Out(h) = {} /\ Back(h) # {} /\ s = First(Back(h))

(* A Host that lost a claim leaves the step to the winner. *)
SparesNone(outcome) == FALSE  \* mutant: every failure fails the step
Spares(outcome) == outcome = "taken"

GatherFailure(h, s) ==
  /\ Gathers(h, s)
  /\ IF Spares(job[h].outcome[s])
     THEN UNCHANGED <<step, attempt, trespass>>
     ELSE FailStepAttempt(h, s, job[h].outcome[s] = "taken")
  /\ Lets(h, s, IF job[h].outcome[s] = "taken" THEN "conflict" ELSE "dropped")
  /\ UNCHANGED <<run, delivered, faults>>

(* recordStepResult: the receipt of the step's latest attempt, while the step   *)
(* has not passed with another; a refusal fails the step like a failed worker.  *)
Recordable(h, s) ==
  LET a == job[h].mine[s] IN
    /\ a = Latest(s)
    /\ step[s].state = "passed" => step[s].result \in {0, a}

GatherResult(h, s) ==
  /\ Gathers(h, s)
  /\ job[h].outcome[s] = "working"
  /\ IF Recordable(h, s)
     THEN /\ step' = [step EXCEPT ![s].result = job[h].mine[s]]
          /\ Now(h, s, "recorded")
          /\ UNCHANGED <<attempt, trespass>>
     ELSE FailStepAttempt(h, s, FALSE) /\ Lets(h, s, "dropped")
  /\ UNCHANGED <<run, delivered, faults>>

-----------------------------------------------------------------------------
(* Delivery of the recorded results, unless a claim of the batch was lost.     *)

Recorded(h) == {s \in Step : job[h].outcome[s] = "recorded"}
Gathered(h) == job[h].at = "dispatching" /\ Out(h) = {} /\ Back(h) = {}

(* The Owner's fence admits the snapshot the batch was selected at. *)
FreshAny(h) == Active  \* mutant: the delivery does not compare the revision
Fresh(h) == Active /\ run.revision = job[h].snapshot

Deliver(h) ==
  /\ Gathered(h)
  /\ Recorded(h) # {}
  /\ \A s \in Step : job[h].outcome[s] # "conflict"
  /\ Fresh(h)
  /\ run.revision < MaxRevision
  /\ run' = [run EXCEPT !.revision = @ + 1]
  /\ delivered' = delivered \cup {job[h].mine[s] : s \in Recorded(h)}
  /\ job' = [job EXCEPT ![h].at = "settling"]
  /\ UNCHANGED <<step, attempt, trespass, faults>>

(* Nothing to deliver, a lost claim, a failed verification, a stale snapshot:  *)
(* the Host returns and leaves its steps as they are.                          *)
GiveUp(h) ==
  /\ Gathered(h)
  /\ job' = [job EXCEPT ![h] = NoJob]
  /\ UNCHANGED <<step, attempt, run, delivered, trespass, faults>>

-----------------------------------------------------------------------------
(* Settlement, one delivered step after the other (settleParallelResult).      *)

Settles(h, s) == s = First(Recorded(h))

(* The run lease keeps two settlements apart, but no failStepAttempt.  A        *)
(* settlement may also be refused for a receipt or a worktree that differs.     *)
LeaseFree(h) == \A g \in Host \ {h} : job[g].at \notin {"proving", "closing"}

Settleable(h, s) ==
  /\ Active
  /\ run.revision = job[h].snapshot + 1
  /\ step[s].state # "passed"
  /\ attempt[job[h].mine[s]].status = "started"
  /\ attempt[job[h].mine[s]].revision = job[h].snapshot

Resolve(h, s) ==
  /\ job[h].at = "settling" /\ Settles(h, s)
  /\ \A t \in Step : job[h].outcome[t] # "rejected"
  /\ \/ Settleable(h, s) /\ LeaseFree(h) /\ job' = [job EXCEPT ![h].at = "proving"]
     \/ Now(h, s, "rejected")
  /\ UNCHANGED <<step, attempt, run, delivered, trespass, faults>>

(* The proof ran meanwhile; settleStep looks at the step again, and throws when *)
(* it has passed already.                                                       *)
Mark(h, s) ==
  /\ job[h].at = "proving" /\ Settles(h, s)
  /\ IF step[s].state = "passed"
     THEN job' = [job EXCEPT ![h] = NoJob] /\ UNCHANGED step
     ELSE \E ok \in BOOLEAN :
            LET passed == ok /\ run.revision = job[h].snapshot + 1 IN
              /\ step' = [step EXCEPT ![s].state = IF passed THEN "passed" ELSE "failed"]
              /\ job' = [job EXCEPT ![h].at = "closing",
                   ![h].outcome[s] = IF passed THEN "settled" ELSE "rejected"]
  /\ UNCHANGED <<attempt, run, delivered, trespass, faults>>

(* With the last step passed the run may be completed; the attempt is finished *)
(* by its row, whatever became of it.                                          *)
Closing(h) == Last({s \in Step : job[h].outcome[s] \in {"settled", "rejected"}})

StatusAsIs(outcome) == outcome  \* mutant: the outcome is stored in the place of a status
Status(outcome) == IF outcome = "settled" THEN "passed" ELSE "failed"

Close(h) ==
  /\ job[h].at = "closing"
  /\ LET s == Closing(h) IN
       attempt' = [attempt EXCEPT ![job[h].mine[s]].status = Status(job[h].outcome[s])]
  /\ \/ run' = run
     \/ /\ Active /\ \A s \in Step : step[s].state = "passed"
        /\ run' = [run EXCEPT !.status = "completed"]
  /\ job' = [job EXCEPT ![h].at = "settling"]
  /\ UNCHANGED <<step, delivered, trespass, faults>>

(* What did not pass is failed once more, by its step. *)
FailRejected(h, s) ==
  /\ job[h].at = "settling"
  /\ job[h].outcome[s] = "rejected"
  /\ FailStepAttempt(h, s, FALSE)
  /\ Lets(h, s, "dropped")
  /\ UNCHANGED <<run, delivered, faults>>

Finish(h) ==
  /\ job[h].at = "settling"
  /\ \A s \in Step : job[h].outcome[s] \notin {"recorded", "rejected"}
  /\ job' = [job EXCEPT ![h] = NoJob]
  /\ UNCHANGED <<step, attempt, run, delivered, trespass, faults>>

-----------------------------------------------------------------------------
(* What happens around the Hosts. *)

Block ==
  /\ Active /\ faults < MaxFaults
  /\ run' = [run EXCEPT !.status = "blocked"]
  /\ faults' = faults + 1
  /\ UNCHANGED <<step, attempt, job, delivered, trespass>>

Resume ==
  /\ run.status = "blocked"
  /\ run' = [run EXCEPT !.status = "active"]
  /\ UNCHANGED <<step, attempt, job, delivered, trespass, faults>>

(* The owner's own work moves the revision. *)
Mutate ==
  /\ Active /\ run.revision < MaxRevision
  /\ run' = [run EXCEPT !.revision = @ + 1]
  /\ UNCHANGED <<step, attempt, job, delivered, trespass, faults>>

Crash(h) ==
  /\ job[h].at # "idle" /\ faults < MaxFaults
  /\ job' = [job EXCEPT ![h] = NoJob]
  /\ faults' = faults + 1
  /\ UNCHANGED <<step, attempt, run, delivered, trespass>>

Dispatch(h) ==
  \/ \E s \in Step :
       \/ Claim(h, s)
       \/ GatherFailure(h, s) \/ GatherResult(h, s)
       \/ Resolve(h, s) \/ Mark(h, s) \/ FailRejected(h, s)
  \/ Select(h) \/ Deliver(h) \/ GiveUp(h) \/ Close(h) \/ Finish(h)

Next ==
  \/ \E h \in Host : Dispatch(h) \/ Crash(h)
  \/ Block \/ Resume \/ Mutate

Spec == Init /\ [][Next]_vars

-----------------------------------------------------------------------------
(* Properties. *)

(* A delivered patch was made on the revision it is applied to: however long    *)
(* ago the batch was selected and whenever its steps were claimed, no worker's  *)
(* result reaches the workspace of a run that has moved on since.               *)
PatchOnItsBase ==
  [][\A a \in delivered' \ delivered :
       attempt[a].step \in Step /\ attempt[a].revision = run.revision]_vars

(* Two workers are never at one step: a Host that lost the claim does not free  *)
(* the step for a third.                                                        *)
OneWriter ==
  ~trespass => \A s \in Step, g, h \in Host :
    (job[g].outcome[s] = "working" /\ job[h].outcome[s] = "working") => g = h

(* A step that passed passed with the result it holds, and that result is in    *)
(* the workspace: a Host that comes late does not put its own in its place.     *)
PassedIsDelivered ==
  ~trespass => \A s \in Step : step[s].state = "passed" =>
    /\ step[s].result \in delivered
    /\ attempt[step[s].result].step = s
    /\ attempt[step[s].result].status # "failed"

(* A passed step stays passed, unless a Host fails it that was refused for a    *)
(* stale revision or whose own settlement failed.                               *)
PassedStays ==
  [][\A s \in Step : (step[s].state = "passed" /\ ~trespass') => step'[s].state = "passed"]_vars

=============================================================================
