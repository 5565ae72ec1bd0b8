------------------------ MODULE ReportOperation_proofs ------------------------
(***************************************************************************)
(* Proofs about ReportOperation: types, that a passed step has its         *)
(* evidence, and that every attempt has one answer (the refinement of      *)
(* OneOutcome), for any plan, any number of commands, edits, crashes and   *)
(* leases that run out; and, while no lease runs out under a live command, *)
(* that what passed stays passed, that attempts agree with their steps,    *)
(* and that work follows the plan.                                         *)
(***************************************************************************)
EXTENDS ReportOperation, WellFoundedInduction, TLAPS

(* What First and Last return: the CHOOSEs have something to choose. *)

LEMMA LessIsWellFounded == IsWellFoundedOn({p \in Nat \X Nat : p[1] < p[2]}, Nat)
BY NatLessThanWellFounded DEF OpToRel

LEMMA Least ==
  ASSUME NEW S \in SUBSET Nat, S # {}
  PROVE  \E n \in S : \A m \in S : n <= m
<1> DEFINE R == {p \in Nat \X Nat : p[1] < p[2]}
<1>1. IsWellFoundedOn(R, Nat)
  BY LessIsWellFounded
<1>2. PICK n \in S : \A m \in S : ~(<<m, n>> \in R)
  <2> HIDE DEF R
  <2> QED BY <1>1, WFMin
<1>3. \A m \in S : ~(m < n)
  BY <1>2
<1> QED BY <1>3

LEMMA Greatest ==
  ASSUME NEW k \in Nat, NEW S \in SUBSET (1..k), S # {}
  PROVE  \E n \in S : \A m \in S : m <= n
<1> DEFINE T == {k - n : n \in S}
<1>1. T \in SUBSET Nat
  OBVIOUS
<1>2. T # {}
  <2>1. PICK n \in S : TRUE
    OBVIOUS
  <2>2. k - n \in T
    BY <2>1
  <2> QED BY <2>2
<1>3. PICK t \in T : \A u \in T : t <= u
  <2> HIDE DEF T
  <2> QED BY <1>1, <1>2, Least
<1>4. PICK n \in S : t = k - n
  BY <1>3
<1> SUFFICES ASSUME NEW m \in S PROVE m <= n
  BY <1>4
<1>5. t <= k - m
  BY <1>3
<1> QED BY <1>4, <1>5

LEMMA FirstOrNone ==
  ASSUME NEW k \in Nat, NEW S \in SUBSET (1..k)
  PROVE  /\ First(S) \in S \cup {0} /\ First(S) \in 0..k
         /\ S # {} => First(S) \in S /\ \A m \in S : First(S) <= m
<1>1. CASE S = {}
  BY <1>1 DEF First
<1>2. CASE S # {}
  <2>1. \E n \in S : \A m \in S : n <= m
    BY <1>2, Least
  <2>2. First(S) = CHOOSE n \in S : \A m \in S : n <= m
    BY <1>2 DEF First
  <2>3. First(S) \in S /\ \A m \in S : First(S) <= m
    BY <2>1, <2>2
  <2>4. \A n \in S : n \in 0..k
    OBVIOUS
  <2> QED BY <1>2, <2>3, <2>4
<1> QED BY <1>1, <1>2

LEMMA LastOrNone ==
  ASSUME NEW k \in Nat, NEW S \in SUBSET (1..k)
  PROVE  /\ Last(S) \in S \cup {0} /\ Last(S) \in 0..k
         /\ S # {} => Last(S) \in S /\ \A m \in S : m <= Last(S)
<1>1. CASE S = {}
  BY <1>1 DEF Last
<1>2. CASE S # {}
  <2>1. \E n \in S : \A m \in S : m <= n
    BY <1>2, Greatest
  <2>2. Last(S) = CHOOSE n \in S : \A m \in S : m <= n
    BY <1>2 DEF Last
  <2>3. Last(S) \in S /\ \A m \in S : m <= Last(S)
    BY <2>1, <2>2
  <2>4. \A n \in S : n \in 0..k
    OBVIOUS
  <2> QED BY <1>2, <2>3, <2>4
<1> QED BY <1>1, <1>2

-----------------------------------------------------------------------------

(* What ReportAssumption says of the constants. *)
LEMMA Constants ==
  /\ Steps \in Nat /\ MaxAttempts \in Nat /\ MaxRevision \in Nat
  /\ MaxEdits \in Nat /\ MaxFaults \in Nat
  /\ Needs \in [Step -> SUBSET Step]
  /\ \A r \in Report : r.step \in Step \cup {0}
  /\ Start \in Content
  /\ None \notin Report \cup Command \cup Stamp \cup Checkpoint \cup Result
BY ReportAssumption, AbsentAssumption

LEMMA CurrentStepType == CurrentStep \in 0..Steps
<1>1. UnderWay \in SUBSET (1..Steps) /\ Executable \in SUBSET (1..Steps)
  BY DEF UnderWay, Executable, Step
<1> QED BY <1>1, FirstOrNone, Constants DEF CurrentStep

LEMMA OpenAttemptIs ==
  ASSUME NEW s \in Step
  PROVE  \/ OpenAttempt(s) = 0
         \/ /\ OpenAttempt(s) \in Attempt
            /\ attempt[OpenAttempt(s)].step = s
            /\ attempt[OpenAttempt(s)].status = "open"
<1> DEFINE S == {a \in Attempt : attempt[a].step = s /\ attempt[a].status = "open"}
<1>1. S \in SUBSET (1..MaxAttempts)
  BY DEF Attempt
<1>2. Last(S) \in S \cup {0}
  <2> HIDE DEF S
  <2> QED BY <1>1, LastOrNone, Constants
<1> QED BY <1>2 DEF OpenAttempt

LEMMA UnusedIs ==
  ASSUME Unused # {}
  PROVE  First(Unused) \in Attempt /\ attempt[First(Unused)].status = "none"
<1>1. Unused \in SUBSET (1..MaxAttempts)
  BY DEF Unused, Attempt
<1>2. First(Unused) \in Unused
  BY <1>1, FirstOrNone, Constants
<1> QED BY <1>2 DEF Unused

LEMMA RetransmittedIs ==
  ASSUME NEW r
  PROVE  \/ Retransmitted(r) = 0
         \/ /\ Retransmitted(r) \in Attempt
            /\ attempt[Retransmitted(r)].payload = r
            /\ attempt[Retransmitted(r)].checkpoint # None
<1> DEFINE S == {a \in Attempt : attempt[a].payload = r /\ attempt[a].checkpoint # None
                                   /\ LiveContent(a)}
<1>1. S \in SUBSET (1..MaxAttempts)
  BY DEF Attempt
<1>2. Last(S) \in S \cup {0}
  <2> HIDE DEF S
  <2> QED BY <1>1, LastOrNone, Constants
<1> QED BY <1>2 DEF Retransmitted

LEMMA InspectedIs ==
  ASSUME ReportTypeOK, NEW c \in Command
  PROVE  InspectedAttempt(c) \in Attempt \cup {0}
<1>1. job[c].key \in Attempt \cup {0}
  BY DEF ReportTypeOK, Job
<1> QED BY <1>1, RetransmittedIs DEF InspectedAttempt

-----------------------------------------------------------------------------
(***************************************************************************)
(* The inductive invariant.  RowsInv: what has not been opened is empty,   *)
(* and whatever an attempt was given, it was given after its payload.      *)
(* JobInv: what a command that is under way knows about its attempt.       *)
(***************************************************************************)
Faults == [edits : 0..MaxEdits, crashes : 0..MaxFaults, expiries : 0..MaxFaults,
           stranded : BOOLEAN]

RowsInv ==
  \A a \in Attempt :
    /\ IF attempt[a].status = "none" THEN attempt[a] = NoAttempt ELSE attempt[a].step # 0
    /\ attempt[a].checkpoint # None => attempt[a].payload # None
    /\ attempt[a].result # None => attempt[a].payload # None

Attending == {"opened", "bound", "proving", "proved", "settling", "marking", "marked",
              "unlocking", "settled", "journaling", "closing"}
Settling == {"settling", "marking", "marked", "unlocking", "settled", "journaling",
             "closing"}

JobInv(c) ==
  LET j == job[c]
      row == attempt[job[c].attempt]
  IN /\ at[c] # "idle" => j.report # None
     /\ j.base <= revision
     /\ (at[c] \in {"observed", "opened", "bound"} /\ j.moved) => j.base < revision
     /\ at[c] \in {"opened", "bound", "marking", "marked", "unlocking", "journaling",
                   "closing"} => j.step # 0
     /\ (at[c] \in Attending /\ j.step # 0) =>
          j.attempt \in Attempt /\ row.status # "none" /\ row.step = j.step
     /\ (at[c] \in Attending \ {"opened"} /\ j.step # 0) => row.payload # None
     /\ j.attempt # 0 => at[c] \in Attending /\ j.step # 0
     /\ at[c] \in Settling \cup {"proved"} => j.check # None
     /\ (at[c] \in Settling /\ j.step # 0) => row.checkpoint = j.check
     /\ (at[c] \in {"marking", "marked"} /\ j.passed) => j.check.ok

IInv == ReportTypeOK /\ RowsInv /\ \A c \in Command : JobInv(c)

(* What no step takes back. *)
Grows ==
  /\ revision <= revision'
  /\ \A a \in Attempt : attempt[a].status # "none" =>
       /\ attempt'[a].step = attempt[a].step
       /\ attempt'[a].status # "none"
       /\ attempt[a].checkpoint # None => attempt'[a].checkpoint = attempt[a].checkpoint
       /\ attempt[a].payload # None => attempt'[a].payload = attempt[a].payload

-----------------------------------------------------------------------------
(***************************************************************************)
(* Types.                                                                  *)
(***************************************************************************)
LEMMA NullsTyped == NoAttempt \in AttemptRow /\ NoJob \in Job
BY Constants DEF NoAttempt, NoJob, AttemptRow, Job

LEMMA LeaveTyped ==
  ASSUME ReportTypeOK, NEW c \in Command, Leave(c)
  PROVE  /\ at' \in [Command -> Places] /\ job' \in [Command -> Job]
         /\ lease' \in Command \cup {None}
BY NullsTyped DEF ReportTypeOK, Leave, Go, Places

LEMMA FinishTyped ==
  ASSUME ReportTypeOK, NEW a \in Attempt, NEW result \in Result, Finish(a, result)
  PROVE  attempt' \in [Attempt -> AttemptRow]
<1>1. StatusAfter(a, result) \in {"none", "open", "passed", "failed"}
  BY DEF ReportTypeOK, AttemptRow, Status, StatusAfter
<1> DEFINE row == [attempt[a] EXCEPT !.result = result, !.status = StatusAfter(a, result)]
<1>2. row \in AttemptRow
  <2>1. attempt[a] \in AttemptRow
    BY DEF ReportTypeOK
  <2> QED BY <1>1, <2>1 DEF AttemptRow
<1>3. attempt' = [attempt EXCEPT ![a] = row]
  BY DEF ReportTypeOK, AttemptRow, Finish
<1> QED BY <1>2, <1>3 DEF ReportTypeOK

LEMMA ToldTyped ==
  ASSUME ReportTypeOK, NEW a \in Attempt, NEW result \in Result
  PROVE  Told(a, result) \subseteq [operation : Attempt, outcome : Result]
BY DEF ReportTypeOK, Told

LEMMA ReplayTyped ==
  ASSUME ReportTypeOK, NEW c \in Command, NEW a \in Attempt, Replays(c, a), Replay(c, a)
  PROVE  ReportTypeOK'
<1>1. attempt[a].result \in Result
  BY DEF ReportTypeOK, Replays, AttemptRow
<1>2. attempt' \in [Attempt -> AttemptRow]
  BY <1>1, FinishTyped DEF Replay
<1>3. answers' \subseteq [operation : Attempt, outcome : Result]
  BY <1>1, ToldTyped DEF Replay
<1>4. /\ at' \in [Command -> Places] /\ job' \in [Command -> Job]
      /\ lease' \in Command \cup {None}
  BY LeaveTyped DEF Replay
<1> QED BY <1>2, <1>3, <1>4 DEF ReportTypeOK, Replay, run

LEMMA RefuseTyped ==
  ASSUME ReportTypeOK, NEW c \in Command, Refuse(c)
  PROVE  ReportTypeOK'
<1>1. /\ at' \in [Command -> Places] /\ job' \in [Command -> Job]
      /\ lease' \in Command \cup {None}
  BY LeaveTyped DEF Refuse
<1> QED BY <1>1 DEF ReportTypeOK, Refuse, run, ledger

LEMMA TypeStep == IInv /\ [Next]_vars => ReportTypeOK'
<1> SUFFICES ASSUME IInv, [Next]_vars
             PROVE  ReportTypeOK'
  OBVIOUS
<1> USE DEF IInv
<1>1. CASE UNCHANGED vars
  BY <1>1 DEF ReportTypeOK, vars, ledger, run
<1>2. CASE Expire
  <2>1. faults' \in Faults
    BY <1>2, Constants DEF ReportTypeOK, Expire, Faults
  <2> QED BY <1>2, <2>1 DEF ReportTypeOK, Expire, Faults, ledger, run
<1>3. CASE Edit
  <2>1. faults' \in Faults
    BY <1>3, Constants DEF ReportTypeOK, Edit, Faults
  <2> QED BY <1>3, <2>1 DEF ReportTypeOK, Edit, Faults, ledger
<1>4. ASSUME NEW c \in Command PROVE Crash(c) => ReportTypeOK'
  <2> SUFFICES ASSUME Crash(c) PROVE ReportTypeOK'
    OBVIOUS
  <2>1. faults' \in Faults
    <3> DEFINE stranded == faults.stranded \/ at[c] = "unlocking"
    <3>1. faults' = [faults EXCEPT !.crashes = @ + 1, !.stranded = stranded]
      BY DEF Crash
    <3>2. stranded \in BOOLEAN
      OBVIOUS
    <3>3. /\ faults \in Faults /\ faults.crashes + 1 \in 0..MaxFaults
      BY Constants DEF ReportTypeOK, Crash, Faults
    <3> HIDE DEF stranded
    <3> QED BY <3>1, <3>2, <3>3 DEF Faults
  <2>2. at' \in [Command -> Places] /\ job' \in [Command -> Job]
    BY NullsTyped DEF ReportTypeOK, Crash, Go, Places
  <2> QED BY <2>1, <2>2 DEF ReportTypeOK, Crash, Faults, ledger, run
<1>5. ASSUME NEW c \in Command, NEW r \in Report, NEW k \in Attempt \cup {0}, Send(c, r, k)
      PROVE  ReportTypeOK'
  <2>1. [NoJob EXCEPT !.report = r, !.key = k] \in Job
    BY NullsTyped DEF Job
  <2>2. job' \in [Command -> Job] /\ at' \in [Command -> Places]
    BY <1>5, <2>1 DEF ReportTypeOK, Send, Go, Places
  <2> QED BY <1>5, <2>2 DEF ReportTypeOK, Send, ledger, run
<1>6. ASSUME NEW c \in Command, Work(c)
      PROVE  ReportTypeOK'
  <2> USE <1>6
  <2> DEFINE a == job[c].attempt
  <2>0. /\ job[c] \in Job /\ a \in Attempt \cup {0} /\ job[c].step \in 0..Steps
        /\ JobInv(c)
    BY DEF ReportTypeOK, Job
  <2>1. CASE Inspect(c)
    <3> DEFINE b == InspectedAttempt(c)
    <3>1. b \in Attempt \cup {0}
      BY InspectedIs
    <3>2. CASE Refuse(c)
      BY <3>2, RefuseTyped
    <3>3. CASE b # 0 /\ Replays(c, b) /\ Replay(c, b)
      BY <3>1, <3>3, ReplayTyped
    <3>4. CASE Go(c, "inspected") /\ UNCHANGED <<ledger, run, lease, job, answers, faults>>
      BY <3>4 DEF ReportTypeOK, Go, Places, ledger, run
    <3> QED BY <2>1, <3>2, <3>3, <3>4 DEF Inspect
  <2>2. CASE Acquire(c)
    <3>1. CASE Refuse(c)
      BY <3>1, RefuseTyped
    <3>2. CASE lease' = c /\ Go(c, "leased") /\ UNCHANGED <<ledger, run, job, answers, faults>>
      BY <3>2 DEF ReportTypeOK, Go, Places, ledger, run
    <3> QED BY <2>2, <3>1, <3>2 DEF Acquire
  <2>3. CASE Resolve(c)
    <3> DEFINE b == InspectedAttempt(c)
    <3>1. b \in Attempt \cup {0}
      BY InspectedIs
    <3>2. CASE Refuse(c)
      BY <3>2, RefuseTyped
    <3>3. CASE b # 0 /\ Replays(c, b) /\ Replay(c, b)
      BY <3>1, <3>3, ReplayTyped
    <3>4. CASE /\ b # 0 /\ attempt[b].checkpoint # None
               /\ job' = [job EXCEPT ![c].attempt = b, ![c].step = attempt[b].step,
                                     ![c].check = attempt[b].checkpoint]
               /\ Go(c, "settling")
               /\ UNCHANGED <<ledger, run, lease, answers, faults>>
      <4>1. attempt[b] \in AttemptRow /\ b \in Attempt
        BY <3>1, <3>4 DEF ReportTypeOK
      <4>2. [job[c] EXCEPT !.attempt = b, !.step = attempt[b].step,
                           !.check = attempt[b].checkpoint] \in Job
        BY <2>0, <4>1 DEF Job, AttemptRow
      <4>3. job' \in [Command -> Job]
        BY <3>4, <4>2 DEF ReportTypeOK
      <4> QED BY <3>4, <4>3 DEF ReportTypeOK, Go, Places, ledger, run
    <3>5. ASSUME NEW s \in Targets(job[c].report),
                 /\ job' = [job EXCEPT ![c].step = s, ![c].base = revision,
                                       ![c].content = tree]
                 /\ Go(c, "resolved")
                 /\ UNCHANGED <<ledger, run, lease, answers, faults>>
          PROVE  ReportTypeOK'
      <4>1. s \in 0..Steps
        <5>1. job[c].report \in Report \cup {None}
          BY <2>0 DEF Job
        <5>2. \A t \in Targets(job[c].report) : t \in {job[c].report.step, 0, CurrentStep}
          BY Zenon DEF Targets
        <5>3. job[c].report \in Report => job[c].report.step \in 0..Steps
          BY Constants DEF Step
        <5>4. job[c].report # None
          <6>1. at[c] = "leased"
            BY <2>3, Zenon DEF Resolve
          <6> QED BY <2>0, <6>1 DEF JobInv
        <5>5. s \in {job[c].report.step, 0, CurrentStep}
          BY <5>2
        <5>6. job[c].report.step \in 0..Steps /\ 0 \in 0..Steps
          BY <5>1, <5>3, <5>4, Constants
        <5> QED BY <5>5, <5>6, CurrentStepType
      <4>2. [job[c] EXCEPT !.step = s, !.base = revision, !.content = tree] \in Job
        BY <2>0, <4>1 DEF Job, ReportTypeOK
      <4>3. job' \in [Command -> Job]
        BY <3>5, <4>2 DEF ReportTypeOK
      <4> QED BY <3>5, <4>3 DEF ReportTypeOK, Go, Places, ledger, run
    <3>6. \/ Refuse(c)
          \/ b # 0 /\ Replays(c, b) /\ Replay(c, b)
          \/ /\ b # 0 /\ attempt[b].checkpoint # None
             /\ job' = [job EXCEPT ![c].attempt = b, ![c].step = attempt[b].step,
                                   ![c].check = attempt[b].checkpoint]
             /\ Go(c, "settling")
             /\ UNCHANGED <<ledger, run, lease, answers, faults>>
          \/ \E s \in Targets(job[c].report) :
               /\ job' = [job EXCEPT ![c].step = s, ![c].base = revision,
                                     ![c].content = tree]
               /\ Go(c, "resolved")
               /\ UNCHANGED <<ledger, run, lease, answers, faults>>
      BY <2>3, Zenon DEF Resolve
    <3> QED BY <3>2, <3>3, <3>4, <3>5, <3>6, Zenon
  <2>4. CASE Observe(c)
    <3> DEFINE moved == job[c].content # known
    <3>1. [job[c] EXCEPT !.moved = moved] \in Job
      BY <2>0 DEF Job
    <3>2. job' \in [Command -> Job]
      BY <2>4, <3>1 DEF ReportTypeOK, Observe
    <3>3. revision' \in 0..MaxRevision /\ known' \in Content
      BY <2>0, <2>4, Constants DEF ReportTypeOK, Observe, Job
    <3> QED BY <2>4, <3>2, <3>3 DEF ReportTypeOK, Observe, Go, Places, ledger
  <2>5. CASE Open(c)
    <3> DEFINE s == job[c].step
    <3>1. at' \in [Command -> Places]
      BY <2>5 DEF ReportTypeOK, Open, Go, Places
    <3>2. CASE UNCHANGED <<ledger, job>>
      BY <2>5, <3>1, <3>2 DEF ReportTypeOK, Open, ledger, run
    <3>3. CASE s # 0 /\ OpenAttempt(s) # 0
      <4>1. s \in Step /\ OpenAttempt(s) \in Attempt
        BY <2>0, <3>3, OpenAttemptIs, Constants DEF Step
      <4>2. [job[c] EXCEPT !.attempt = OpenAttempt(s)] \in Job
        BY <2>0, <4>1 DEF Job
      <4>3. job' \in [Command -> Job] /\ UNCHANGED ledger
        BY <2>5, <3>3, <4>2 DEF ReportTypeOK, Open
      <4> QED BY <2>5, <3>1, <4>3 DEF ReportTypeOK, Open, ledger, run
    <3>4. CASE s # 0 /\ OpenAttempt(s) = 0
      <4>1. Unused # {} /\ s \in Step
        BY <2>0, <2>5, <3>4, Constants DEF Open, Step
      <4> DEFINE b == First(Unused)
                 row == [NoAttempt EXCEPT !.step = s, !.revision = job[c].base,
                                          !.status = "open"]
      <4>2. b \in Attempt
        BY <4>1, UnusedIs
      <4>3. row \in AttemptRow /\ [job[c] EXCEPT !.attempt = b] \in Job
        BY <2>0, <4>1, <4>2, NullsTyped DEF AttemptRow, Job
      <4>4. attempt' = [attempt EXCEPT ![b] = row] /\ job' = [job EXCEPT ![c].attempt = b]
        BY <2>5, <3>4 DEF Open
      <4>5. attempt' \in [Attempt -> AttemptRow] /\ job' \in [Command -> Job]
        <5> HIDE DEF b, row
        <5> QED BY <4>2, <4>3, <4>4 DEF ReportTypeOK
      <4>6. step' \in [Step -> StepRow]
        BY <2>5, <3>4, <4>1 DEF ReportTypeOK, Open, StepRow
      <4> QED BY <2>5, <3>1, <4>5, <4>6 DEF ReportTypeOK, Open, ledger, run
    <3> QED BY <2>5, <3>2, <3>3, <3>4 DEF Open
  <2>6. CASE Bind(c)
    <3>1. CASE Refuse(c)
      BY <3>1, RefuseTyped
    <3>2. CASE Replays(c, a) /\ Replay(c, a)
      <4>1. a \in Attempt
        BY <2>0, <2>6 DEF Bind, JobInv, Attending
      <4> QED BY <3>2, <4>1, ReplayTyped
    <3>3. CASE /\ attempt' = [attempt EXCEPT ![a].payload = job[c].report]
               /\ Go(c, "bound")
               /\ UNCHANGED <<step, run, lease, job, answers, faults>>
      <4>1. attempt[a] \in AttemptRow => [attempt[a] EXCEPT !.payload = job[c].report] \in AttemptRow
        BY <2>0 DEF AttemptRow, Job
      <4>2. attempt' \in [Attempt -> AttemptRow]
        BY <3>3, <4>1 DEF ReportTypeOK
      <4> QED BY <3>3, <4>2 DEF ReportTypeOK, Go, Places, run
    <3> QED BY <2>6, <3>1, <3>2, <3>3 DEF Bind
  <2>7. CASE Advance(c)
    <3>1. CASE Go(c, "proving") /\ UNCHANGED <<attempt, job, lease>>
      BY <2>7, <3>1 DEF ReportTypeOK, Advance, Go, Places, run
    <3>2. CASE /\ job[c].moved
               /\ attempt' = [attempt EXCEPT ![a].revision = job[c].base + 1]
               /\ Go(c, "proving")
               /\ UNCHANGED <<job, lease>>
      <4>1. job[c].base + 1 \in 0..MaxRevision
        <5>1. at[c] = "bound"
          BY <2>7 DEF Advance
        <5> QED BY <2>0, <3>2, <5>1, Constants DEF JobInv, ReportTypeOK, Job
      <4>2. attempt[a] \in AttemptRow => [attempt[a] EXCEPT !.revision = job[c].base + 1] \in AttemptRow
        BY <4>1 DEF AttemptRow
      <4>3. attempt' \in [Attempt -> AttemptRow]
        BY <3>2, <4>2 DEF ReportTypeOK
      <4> QED BY <2>7, <3>2, <4>3 DEF ReportTypeOK, Advance, Go, Places, run
    <3>3. CASE Leave(c) /\ UNCHANGED attempt
      BY <2>7, <3>3, LeaveTyped DEF ReportTypeOK, Advance, run
    <3> QED BY <2>7, <3>1, <3>2, <3>3 DEF Advance
  <2>8. CASE RejectEarly(c)
    <3> DEFINE result == [verdict |-> "rejected", next |-> CurrentStep]
    <3>1. result \in Result
      BY CurrentStepType DEF Result
    <3>2. CASE UNCHANGED <<attempt, answers>>
      BY <2>8, <3>2, LeaveTyped DEF ReportTypeOK, RejectEarly, run
    <3>3. CASE a # 0 /\ Finish(a, result) /\ answers' = Told(a, result)
      <4>1. /\ attempt' \in [Attempt -> AttemptRow]
            /\ answers' \subseteq [operation : Attempt, outcome : Result]
        <5> HIDE DEF result
        <5> QED BY <2>0, <3>1, <3>3, FinishTyped, ToldTyped
      <4> QED BY <2>8, <4>1, LeaveTyped DEF ReportTypeOK, RejectEarly, run
    <3> QED BY <2>8, <3>2, <3>3 DEF RejectEarly
  <2>9. CASE ProofRefused(c)
    BY <2>9, RefuseTyped DEF ProofRefused
  <2>10. CASE Prove(c)
    <3>1. PICK ok \in BOOLEAN :
            job' = [job EXCEPT ![c].check =
                      [revision |-> revision, content |-> job[c].content, ok |-> ok]]
      BY <2>10 DEF Prove
    <3>2. [revision |-> revision, content |-> job[c].content, ok |-> ok] \in Checkpoint
      BY <2>0 DEF Checkpoint, ReportTypeOK, Job
    <3>3. [job[c] EXCEPT !.check =
             [revision |-> revision, content |-> job[c].content, ok |-> ok]] \in Job
      BY <2>0, <3>2 DEF Job
    <3>4. job' \in [Command -> Job]
      BY <3>1, <3>3 DEF ReportTypeOK
    <3> QED BY <2>10, <3>4 DEF ReportTypeOK, Prove, Go, Places, ledger
  <2>11. CASE WriteCheckpoint(c)
    <3>1. CASE Go(c, "settling") /\ UNCHANGED <<attempt, job, lease>>
      BY <2>11, <3>1 DEF ReportTypeOK, WriteCheckpoint, Go, Places, run
    <3>2. CASE /\ attempt' = [attempt EXCEPT ![a].checkpoint = job[c].check]
               /\ Go(c, "settling")
               /\ UNCHANGED <<job, lease>>
      <4>1. attempt[a] \in AttemptRow => [attempt[a] EXCEPT !.checkpoint = job[c].check] \in AttemptRow
        BY <2>0 DEF AttemptRow, Job
      <4>2. attempt' \in [Attempt -> AttemptRow]
        BY <3>2, <4>1 DEF ReportTypeOK
      <4> QED BY <2>11, <3>2, <4>2 DEF ReportTypeOK, WriteCheckpoint, Go, Places, run
    <3>3. CASE Leave(c) /\ UNCHANGED attempt
      BY <2>11, <3>3, LeaveTyped DEF ReportTypeOK, WriteCheckpoint, run
    <3> QED BY <2>11, <3>1, <3>2, <3>3 DEF WriteCheckpoint
  <2>12. CASE SettleRead(c)
    <3>1. CASE UNCHANGED job /\ (Go(c, "settled") \/ Go(c, "marking")) /\ UNCHANGED lease
      BY <2>12, <3>1 DEF ReportTypeOK, SettleRead, Go, Places, ledger, run
    <3>2. CASE Leave(c)
      BY <2>12, <3>2, LeaveTyped DEF ReportTypeOK, SettleRead, ledger, run
    <3>3. ASSUME NEW ok \in BOOLEAN, job' = [job EXCEPT ![c].passed = ok],
                 Go(c, "marking") \/ Go(c, "unlocking"), UNCHANGED lease
          PROVE  ReportTypeOK'
      <4>1. [job[c] EXCEPT !.passed = ok] \in Job
        BY <2>0 DEF Job
      <4>2. job' \in [Command -> Job]
        BY <3>3, <4>1 DEF ReportTypeOK
      <4> QED BY <2>12, <3>3, <4>2 DEF ReportTypeOK, SettleRead, Go, Places, ledger, run
    <3>4. job[c].check.ok \in BOOLEAN
      BY <2>0, <2>12 DEF SettleRead, JobInv, Settling, Job, Checkpoint
    <3>5. (job[c].check.ok /\ job[c].check.revision = revision) \in BOOLEAN
      BY <3>4
    <3> QED BY <2>12, <3>1, <3>2, <3>3, <3>5 DEF SettleRead
  <2>13. CASE Mark(c)
    <3>1. step[job[c].step] \in StepRow => [step[job[c].step] EXCEPT !.state = "verifying"] \in StepRow
      BY DEF StepRow
    <3>2. step' \in [Step -> StepRow]
      BY <2>13, <3>1 DEF ReportTypeOK, Mark
    <3> QED BY <2>13, <3>2 DEF ReportTypeOK, Mark, Go, Places, run
  <2>14. CASE Verdict(c)
    <3> DEFINE s == job[c].step
    <3>1. CASE job[c].passed
      <4>1. job[c].check \in Checkpoint
        BY <2>0, <2>14 DEF Verdict, JobInv, Settling, Job
      <4>2. [state |-> "passed", stamp |-> StampOf(job[c].check)] \in StepRow
        BY <4>1 DEF StampOf, Stamp, Checkpoint, StepRow
      <4>3. step' = [step EXCEPT ![s] = [state |-> "passed", stamp |-> StampOf(job[c].check)]]
        BY <2>14, <3>1 DEF Verdict
      <4>4. step' \in [Step -> StepRow]
        BY <4>2, <4>3 DEF ReportTypeOK
      <4> QED BY <2>14, <3>1, <4>4 DEF ReportTypeOK, Verdict, Go, Places, run
    <3>2. CASE ~job[c].passed
      <4>1. step[s] \in StepRow => [step[s] EXCEPT !.state = "failed"] \in StepRow
        BY DEF StepRow
      <4>2. step' \in [Step -> StepRow]
        BY <2>14, <3>2, <4>1 DEF ReportTypeOK, Verdict
      <4> QED BY <2>14, <3>2, <4>2 DEF ReportTypeOK, Verdict, Go, Places, run
    <3> QED BY <3>1, <3>2
  <2>15. CASE Unlock(c)
    <3>1. \A s \in Step : [step[s] EXCEPT !.state = "ready"] \in StepRow
      BY DEF ReportTypeOK, StepRow
    <3>2. step' \in [Step -> StepRow]
      BY <2>15, <3>1 DEF ReportTypeOK, Unlock
    <3> QED BY <2>15, <3>2 DEF ReportTypeOK, Unlock, Go, Places, run
  <2>16. CASE Finalize(c)
    <3>1. completed' \in BOOLEAN
      BY <2>16, Zenon DEF ReportTypeOK, Finalize
    <3>2. CASE Leave(c)
      BY <2>16, <3>1, <3>2, LeaveTyped DEF ReportTypeOK, Finalize, ledger
    <3>3. CASE /\ Go(c, "journaling")
               /\ job' = [job EXCEPT ![c].next = CurrentStep]
               /\ UNCHANGED lease
      <4>1. [job[c] EXCEPT !.next = CurrentStep] \in Job
        BY <2>0, CurrentStepType DEF Job
      <4>2. job' \in [Command -> Job]
        BY <3>3, <4>1 DEF ReportTypeOK
      <4> QED BY <2>16, <3>1, <3>3, <4>2 DEF ReportTypeOK, Finalize, Go, Places, ledger
    <3> QED BY <2>16, <3>2, <3>3 DEF Finalize
  <2>17. AnswerOf(c) \in Result
    BY <2>0 DEF AnswerOf, Result, Job
  <2>18. CASE Journal(c)
    <3>1. CASE /\ attempt' = [attempt EXCEPT ![a].result = AnswerOf(c)]
               /\ Go(c, "closing")
               /\ UNCHANGED <<job, lease>>
      <4>1. attempt[a] \in AttemptRow => [attempt[a] EXCEPT !.result = AnswerOf(c)] \in AttemptRow
        BY <2>17 DEF AttemptRow
      <4>2. attempt' \in [Attempt -> AttemptRow]
        BY <3>1, <4>1 DEF ReportTypeOK
      <4> QED BY <2>18, <3>1, <4>2 DEF ReportTypeOK, Journal, Go, Places, run
    <3>2. CASE Leave(c) /\ UNCHANGED attempt
      BY <2>18, <3>2, LeaveTyped DEF ReportTypeOK, Journal, run
    <3> QED BY <2>18, <3>1, <3>2 DEF Journal
  <2>19. CASE Close(c)
    <3>1. a \in Attempt
      BY <2>0, <2>19 DEF Close, JobInv, Attending
    <3>2. attempt' \in [Attempt -> AttemptRow]
      BY <2>17, <2>19, <3>1, FinishTyped DEF Close
    <3>3. answers' \subseteq [operation : Attempt, outcome : Result]
      BY <2>17, <2>19, <3>1, ToldTyped DEF Close
    <3> QED BY <2>19, <3>2, <3>3, LeaveTyped DEF ReportTypeOK, Close, run
  <2> QED BY <2>1, <2>2, <2>3, <2>4, <2>5, <2>6, <2>7, <2>8, <2>9, <2>10, <2>11, <2>12,
             <2>13, <2>14, <2>15, <2>16, <2>18, <2>19 DEF Work
<1> QED BY <1>1, <1>2, <1>3, <1>4, <1>5, <1>6 DEF Next

-----------------------------------------------------------------------------
(***************************************************************************)
(* Rows of the attempt store.  A step changes at most one; it opens an     *)
(* unused one, or it adds to one whose payload is bound.                   *)
(***************************************************************************)
Opened(a) ==
  /\ attempt[a] = NoAttempt
  /\ attempt'[a].status = "open" /\ attempt'[a].step # 0
  /\ attempt'[a].payload = None /\ attempt'[a].checkpoint = None
  /\ attempt'[a].result = None

Kept(a) ==
  /\ attempt[a].status # "none" /\ attempt'[a].status # "none"
  /\ attempt'[a].step = attempt[a].step
  /\ attempt'[a].payload = attempt[a].payload \/ attempt[a].payload = None
  /\ \/ attempt'[a].checkpoint = attempt[a].checkpoint
     \/ attempt[a].checkpoint = None /\ attempt[a].payload # None
  /\ attempt'[a].result = attempt[a].result \/ attempt[a].payload # None

RowChange(a) ==
  /\ \A b \in Attempt \ {a} : attempt'[b] = attempt[b]
  /\ Opened(a) \/ Kept(a)

LEMMA BoundRow ==
  ASSUME RowsInv, NEW a \in Attempt, attempt[a].payload # None
  PROVE  attempt[a].status # "none"
BY DEF RowsInv, NoAttempt

LEMMA FinishChanges ==
  ASSUME ReportTypeOK, RowsInv, NEW a \in Attempt, NEW result, Finish(a, result),
         attempt[a].payload # None
  PROVE  RowChange(a)
<1>1. attempt[a].status # "none"
  BY BoundRow
<1>2. StatusAfter(a, result) # "none"
  BY <1>1 DEF StatusAfter, Status
<1> QED BY <1>1, <1>2 DEF ReportTypeOK, AttemptRow, Finish, RowChange, Kept

LEMMA ReplayChanges ==
  ASSUME ReportTypeOK, RowsInv, NEW c \in Command, NEW a \in Attempt,
         job[c].report # None, Replays(c, a), Replay(c, a)
  PROVE  RowChange(a)
BY FinishChanges DEF Replays, Replay

LEMMA RowsChange ==
  IInv /\ [Next]_vars => UNCHANGED attempt \/ \E a \in Attempt : RowChange(a)
<1> SUFFICES ASSUME IInv, [Next]_vars, attempt' # attempt
             PROVE  \E a \in Attempt : RowChange(a)
  OBVIOUS
<1>1. ReportTypeOK /\ RowsInv
  BY DEF IInv
<1>2. PICK c \in Command : Work(c)
  BY Zenon DEF Next, vars, ledger, run, Send, Crash, Expire, Edit
<1> DEFINE a == job[c].attempt
           b == InspectedAttempt(c)
<1>3. /\ job[c] \in Job /\ a \in Attempt \cup {0} /\ b \in Attempt \cup {0}
      /\ JobInv(c) /\ (at[c] # "idle" => job[c].report # None)
  BY <1>1, InspectedIs DEF IInv, ReportTypeOK, Job, JobInv
<1>4. CASE b # 0 /\ at[c] # "idle" /\ Replays(c, b) /\ Replay(c, b)
  BY <1>1, <1>3, <1>4, ReplayChanges
<1>5. CASE Open(c)
  <2> DEFINE s == job[c].step
             n == First(Unused)
             row == [NoAttempt EXCEPT !.step = s, !.revision = job[c].base,
                                      !.status = "open"]
  <2>1. Unused # {} /\ attempt' = [attempt EXCEPT ![n] = row] /\ s # 0
    BY <1>5 DEF Open, ledger
  <2>2. n \in Attempt /\ attempt[n].status = "none"
    BY <2>1, UnusedIs
  <2>3. attempt[n] = NoAttempt
    BY <1>1, <2>2 DEF RowsInv
  <2>4. attempt'[n] = row /\ \A k \in Attempt \ {n} : attempt'[k] = attempt[k]
    <3> HIDE DEF n, row
    <3> QED BY <1>1, <2>1, <2>2 DEF ReportTypeOK
  <2>5. Opened(n)
    <3>1. /\ row.step = s /\ row.status = "open" /\ row.payload = None
          /\ row.checkpoint = None /\ row.result = None
      BY DEF NoAttempt
    <3> HIDE DEF n, row
    <3> QED BY <2>1, <2>3, <2>4, <3>1 DEF Opened
  <2> QED BY <2>2, <2>4, <2>5 DEF RowChange
<1>6. CASE Bind(c)
  <2>1. a \in Attempt /\ attempt[a].status # "none"
    BY <1>3, <1>6 DEF Bind, JobInv, Attending
  <2>2. CASE Replays(c, a) /\ Replay(c, a)
    BY <1>1, <1>3, <1>6, <2>1, <2>2, ReplayChanges DEF Bind
  <2>3. CASE Binds(c, a) /\ attempt' = [attempt EXCEPT ![a].payload = job[c].report]
    <3>1. attempt[a].payload \in {None, job[c].report}
      BY <2>3 DEF Binds, Conflicts
    <3>2. attempt'[a] = [attempt[a] EXCEPT !.payload = job[c].report]
      BY <1>1, <2>1, <2>3 DEF ReportTypeOK
    <3>3. \A k \in Attempt \ {a} : attempt'[k] = attempt[k]
      BY <1>1, <2>1, <2>3 DEF ReportTypeOK
    <3>4. attempt[a] \in AttemptRow
      BY <1>1, <2>1 DEF ReportTypeOK
    <3>5. Kept(a)
      BY <2>1, <3>1, <3>2, <3>4 DEF AttemptRow, Kept
    <3> QED BY <2>1, <3>3, <3>5 DEF RowChange
  <2> QED BY <1>6, <2>2, <2>3 DEF Bind, Refuse, ledger
<1>7. CASE Advance(c)
  <2>1. attempt' = [attempt EXCEPT ![a].revision = job[c].base + 1]
    BY <1>7 DEF Advance
  <2>2. a \in Attempt /\ attempt[a].status # "none"
    BY <1>3, <1>7, <2>1 DEF Advance, JobInv, Attending
  <2>3. attempt'[a] = [attempt[a] EXCEPT !.revision = job[c].base + 1]
    BY <1>1, <2>1, <2>2 DEF ReportTypeOK
  <2>4. \A k \in Attempt \ {a} : attempt'[k] = attempt[k]
    BY <1>1, <2>1, <2>2 DEF ReportTypeOK
  <2>5. attempt[a] \in AttemptRow
    BY <1>1, <2>2 DEF ReportTypeOK
  <2>6. Kept(a)
    BY <2>2, <2>3, <2>5 DEF AttemptRow, Kept
  <2> QED BY <2>2, <2>4, <2>6 DEF RowChange
<1>8. CASE RejectEarly(c)
  <2>1. a # 0 /\ Finish(a, [verdict |-> "rejected", next |-> CurrentStep])
    BY <1>8 DEF RejectEarly
  <2>2. a \in Attempt /\ attempt[a].payload # None
    BY <1>3, <1>8, <2>1 DEF RejectEarly, JobInv, Attending
  <2> QED BY <1>1, <2>1, <2>2, FinishChanges
<1>9. CASE WriteCheckpoint(c)
  <2>1. /\ a # 0 /\ Checkpoints(c, a)
        /\ attempt' = [attempt EXCEPT ![a].checkpoint = job[c].check]
    BY <1>9 DEF WriteCheckpoint
  <2>2. a \in Attempt /\ attempt[a].payload # None
    BY <1>3, <1>9, <2>1 DEF WriteCheckpoint, JobInv, Attending
  <2>3. attempt[a].status # "none"
    BY <1>1, <2>2, BoundRow
  <2> QED BY <1>1, <2>1, <2>2, <2>3 DEF ReportTypeOK, AttemptRow, Checkpoints, RowChange, Kept
<1>10. CASE Journal(c)
  <2>1. attempt' = [attempt EXCEPT ![a].result = AnswerOf(c)]
    BY <1>10 DEF Journal
  <2>2. a \in Attempt /\ attempt[a].payload # None /\ attempt[a].status # "none"
    BY <1>3, <1>10 DEF Journal, JobInv, Attending
  <2> QED BY <1>1, <2>1, <2>2 DEF ReportTypeOK, AttemptRow, RowChange, Kept
<1>11. CASE Close(c)
  <2>1. a \in Attempt /\ attempt[a].payload # None
    BY <1>3, <1>11 DEF Close, JobInv, Attending
  <2> QED BY <1>1, <1>11, <2>1, FinishChanges DEF Close
<1>12. \/ b # 0 /\ at[c] # "idle" /\ Replays(c, b) /\ Replay(c, b)
       \/ Open(c) \/ Bind(c) \/ Advance(c) \/ RejectEarly(c) \/ WriteCheckpoint(c)
       \/ Journal(c) \/ Close(c)
  <2>1. CASE Inspect(c)
    BY <2>1 DEF Inspect, Refuse, ledger
  <2>2. CASE Resolve(c)
    BY <2>2, Zenon DEF Resolve, Refuse, ledger
  <2>3. ~Acquire(c) /\ ~Observe(c) /\ ~ProofRefused(c) /\ ~Prove(c)
    BY DEF Acquire, Observe, ProofRefused, Prove, Refuse, ledger
  <2>4. ~SettleRead(c) /\ ~Mark(c) /\ ~Verdict(c) /\ ~Unlock(c) /\ ~Finalize(c)
    BY DEF SettleRead, Mark, Verdict, Unlock, Finalize, ledger
  <2> QED BY <1>2, <2>1, <2>2, <2>3, <2>4 DEF Work
<1> QED BY <1>4, <1>5, <1>6, <1>7, <1>8, <1>9, <1>10, <1>11, <1>12

LEMMA GrowStep == IInv /\ [Next]_vars => Grows
<1> SUFFICES ASSUME IInv, [Next]_vars
             PROVE  Grows
  OBVIOUS
<1>1. \A a \in Attempt : attempt[a].status # "none" =>
        /\ attempt'[a].step = attempt[a].step
        /\ attempt'[a].status # "none"
        /\ attempt[a].checkpoint # None => attempt'[a].checkpoint = attempt[a].checkpoint
        /\ attempt[a].payload # None => attempt'[a].payload = attempt[a].payload
  BY RowsChange DEF RowChange, Opened, Kept, NoAttempt
<1>2. revision <= revision'
  <2>1. revision \in Nat
    BY Constants DEF IInv, ReportTypeOK
  <2>2. CASE UNCHANGED revision
    BY <2>1, <2>2
  <2>3. ASSUME NEW c \in Command, Observe(c)
        PROVE  revision <= revision'
    BY <2>1, <2>3 DEF Observe
  <2>4. UNCHANGED revision \/ \E c \in Command : Observe(c)
    <3>1. ASSUME NEW c \in Command, Work(c), ~Observe(c)
          PROVE  UNCHANGED revision
      <4>1. CASE Inspect(c) \/ Acquire(c) \/ Bind(c) \/ ProofRefused(c)
        BY <4>1 DEF Inspect, Acquire, Bind, ProofRefused, Refuse, Replay, run
      <4>2. CASE Resolve(c)
        BY <4>2, Zenon DEF Resolve, Refuse, Replay, run
      <4>3. CASE Open(c) \/ Advance(c) \/ RejectEarly(c) \/ Prove(c) \/ WriteCheckpoint(c)
        BY <4>3, Zenon DEF Open, Advance, RejectEarly, Prove, WriteCheckpoint, run
      <4>4. CASE SettleRead(c) \/ Mark(c) \/ Verdict(c) \/ Unlock(c) \/ Finalize(c)
                   \/ Journal(c) \/ Close(c)
        BY <4>4, Zenon DEF SettleRead, Mark, Verdict, Unlock, Finalize, Journal, Close, run
      <4> QED BY <3>1, <4>1, <4>2, <4>3, <4>4 DEF Work
    <3> QED BY <3>1, Zenon DEF Next, vars, run, Send, Crash, Expire, Edit
  <2> QED BY <2>2, <2>3, <2>4
<1> QED BY <1>1, <1>2 DEF Grows

LEMMA RowsStep == IInv /\ [Next]_vars => RowsInv'
BY RowsChange DEF IInv, RowsInv, RowChange, Opened, Kept, NoAttempt

-----------------------------------------------------------------------------
(***************************************************************************)
(* Jobs.  A command that does not move keeps what it knows, since no step  *)
(* takes back what it knows it from; one that leaves knows nothing.        *)
(***************************************************************************)
LEMMA JobKept ==
  ASSUME IInv, Grows, ReportTypeOK', NEW d \in Command,
         at'[d] = at[d], job'[d] = job[d]
  PROVE  JobInv(d)'
<1>1. JobInv(d) /\ job[d] \in Job
  BY DEF IInv, ReportTypeOK
<1>2. /\ job[d].base <= revision'
      /\ (at[d] \in {"observed", "opened", "bound"} /\ job[d].moved)
           => job[d].base < revision'
  <2>1. revision \in Nat /\ revision' \in Nat /\ job[d].base \in Nat
    BY <1>1, Constants DEF IInv, ReportTypeOK, Job
  <2>2. revision <= revision' /\ job[d].base <= revision
        /\ ((at[d] \in {"observed", "opened", "bound"} /\ job[d].moved)
             => job[d].base < revision)
    BY <1>1, Zenon DEF JobInv, Grows
  <2> QED BY <2>1, <2>2
<1>3. \A a \in Attempt : attempt[a].payload # None => attempt[a].status # "none"
  BY BoundRow DEF IInv
<1> QED BY <1>1, <1>2, <1>3 DEF JobInv, Grows, Attending, Settling

LEMMA JobDone ==
  ASSUME IInv, ReportTypeOK', NEW c \in Command, Leave(c)
  PROVE  JobInv(c)'
<1>1. at'[c] = "idle" /\ job'[c] = NoJob
  BY DEF IInv, ReportTypeOK, Leave, Go
<1>2. 0 <= revision'
  BY Constants DEF ReportTypeOK
<1> QED BY <1>1, <1>2 DEF JobInv, NoJob, Attending, Settling

LEMMA OthersRest ==
  ASSUME ReportTypeOK, NEW c \in Command, NEW d \in Command \ {c},
         Work(d) \/ Crash(d) \/ \E r \in Report, k \in Attempt \cup {0} : Send(d, r, k)
  PROVE  at'[c] = at[c] /\ job'[c] = job[c]
<1>1. ASSUME Leave(d) PROVE at'[c] = at[c] /\ job'[c] = job[c]
  BY <1>1 DEF ReportTypeOK, Leave, Go
<1>2. ASSUME Refuse(d) PROVE at'[c] = at[c] /\ job'[c] = job[c]
  BY <1>1, <1>2 DEF Refuse
<1>3. ASSUME NEW a, Replay(d, a) PROVE at'[c] = at[c] /\ job'[c] = job[c]
  BY <1>1, <1>3 DEF Replay
<1>4. ASSUME NEW where, Go(d, where) PROVE at'[c] = at[c]
  BY <1>4 DEF ReportTypeOK, Go
<1>5. CASE Inspect(d) \/ Acquire(d) \/ ProofRefused(d)
  BY <1>2, <1>3, <1>4, <1>5 DEF Inspect, Acquire, ProofRefused
<1>6. CASE Resolve(d)
  <2>1. \/ Refuse(d)
        \/ Replay(d, InspectedAttempt(d))
        \/ /\ job' = [job EXCEPT ![d].attempt = InspectedAttempt(d),
                                 ![d].step = attempt[InspectedAttempt(d)].step,
                                 ![d].check = attempt[InspectedAttempt(d)].checkpoint]
           /\ Go(d, "settling")
        \/ \E s : /\ job' = [job EXCEPT ![d].step = s, ![d].base = revision,
                                       ![d].content = tree]
                  /\ Go(d, "resolved")
    BY <1>6, Zenon DEF Resolve
  <2>2. ASSUME NEW a, NEW s, NEW check,
               job' = [job EXCEPT ![d].attempt = a, ![d].step = s, ![d].check = check]
        PROVE  job'[c] = job[c]
    BY <2>2 DEF ReportTypeOK
  <2>3. ASSUME NEW s, job' = [job EXCEPT ![d].step = s, ![d].base = revision,
                                         ![d].content = tree]
        PROVE  job'[c] = job[c]
    BY <2>3 DEF ReportTypeOK
  <2> QED BY <1>2, <1>3, <1>4, <2>1, <2>2, <2>3, Zenon
<1>7. CASE Observe(d)
  BY <1>4, <1>7 DEF ReportTypeOK, Observe
<1>13. CASE Open(d)
  <2>1. /\ \E where \in {"proving", "opened"} : Go(d, where)
        /\ UNCHANGED job \/ \E a : job' = [job EXCEPT ![d].attempt = a]
    BY <1>13, Zenon DEF Open
  <2> QED BY <1>4, <2>1 DEF ReportTypeOK
<1>8. CASE Bind(d) \/ Advance(d) \/ RejectEarly(d)
  BY <1>1, <1>2, <1>3, <1>4, <1>8 DEF Bind, Advance, RejectEarly
<1>9. CASE Prove(d) \/ WriteCheckpoint(d) \/ SettleRead(d)
  BY <1>1, <1>4, <1>9 DEF ReportTypeOK, Prove, WriteCheckpoint, SettleRead
<1>10. CASE Mark(d) \/ Verdict(d) \/ Unlock(d) \/ Finalize(d) \/ Journal(d) \/ Close(d)
  BY <1>1, <1>4, <1>10 DEF ReportTypeOK, Mark, Verdict, Unlock, Finalize, Journal, Close
<1>11. CASE Crash(d)
  BY <1>4, <1>11 DEF ReportTypeOK, Crash
<1>12. CASE \E r \in Report, k \in Attempt \cup {0} : Send(d, r, k)
  BY <1>4, <1>12 DEF ReportTypeOK, Send
<1> QED BY <1>5, <1>6, <1>7, <1>8, <1>9, <1>10, <1>11, <1>13, <1>12, Zenon DEF Work

LEMMA JobWork ==
  ASSUME IInv, [Next]_vars, NEW c \in Command, Work(c), ~Leave(c)
  PROVE  JobInv(c)'
<1> DEFINE j == job[c]
           a == j.attempt
           b == InspectedAttempt(c)
<1>1. ReportTypeOK /\ RowsInv /\ JobInv(c) /\ j \in Job
  BY DEF IInv, ReportTypeOK
<1>2. ReportTypeOK' /\ RowsInv' /\ Grows
  BY TypeStep, RowsStep, GrowStep
<1>3. /\ revision \in Nat /\ revision' \in Nat /\ j.base \in Nat
      /\ j.base <= revision /\ revision <= revision'
  <2>1. revision \in Nat /\ revision' \in Nat /\ j.base \in Nat
    BY <1>1, <1>2, Constants DEF ReportTypeOK, Job
  <2> QED BY <1>1, <1>2, <2>1, Zenon DEF JobInv, Grows
<1>4. /\ j.base <= revision'
      /\ (at[c] \in {"observed", "opened", "bound"} /\ j.moved) => j.base < revision'
  <2>1. (at[c] \in {"observed", "opened", "bound"} /\ j.moved) => j.base < revision
    BY <1>1, Zenon DEF JobInv
  <2> QED BY <1>3, <2>1
<1>5. \A k \in Attempt : attempt[k].payload # None => attempt[k].status # "none"
  BY <1>1, BoundRow
<1>6. ~Refuse(c) /\ \A k : ~Replay(c, k)
  BY DEF Refuse, Replay
<1>7. \A where : Go(c, where) => at[c] # where /\ at'[c] = where
  BY <1>1 DEF ReportTypeOK, Go
<1>8. CASE Inspect(c) \/ Acquire(c)
  <2>1. /\ at[c] \in {"sent", "inspected"} /\ at'[c] \in {"inspected", "leased"}
        /\ job'[c] = j
    BY <1>6, <1>7, <1>8 DEF Inspect, Acquire
  <2> QED BY <1>1, <1>4, <2>1 DEF JobInv, Attending, Settling
<1>9. CASE Resolve(c)
  <2>1. CASE /\ b # 0 /\ ~Conflicts(c, b) /\ attempt[b].checkpoint # None
             /\ job' = [job EXCEPT ![c].attempt = b, ![c].step = attempt[b].step,
                                   ![c].check = attempt[b].checkpoint]
             /\ Go(c, "settling")
             /\ UNCHANGED ledger
    <3>1. b \in Attempt /\ attempt[b] \in AttemptRow
      BY <1>1, <2>1, InspectedIs DEF ReportTypeOK
    <3>2. /\ attempt[b].payload # None /\ attempt[b].status # "none" /\ b # 0
          /\ attempt[b].step # 0
      BY <1>1, <1>5, <2>1, <3>1 DEF RowsInv
    <3>3. job' = [job EXCEPT ![c] = [j EXCEPT !.attempt = b, !.step = attempt[b].step,
                                             !.check = attempt[b].checkpoint]]
      BY <1>1, <2>1 DEF ReportTypeOK
    <3>4. job'[c] = [j EXCEPT !.attempt = b, !.step = attempt[b].step,
                             !.check = attempt[b].checkpoint]
      BY <1>1, <3>3 DEF ReportTypeOK
    <3>5. /\ job'[c].attempt = b /\ job'[c].step = attempt[b].step
          /\ job'[c].check = attempt[b].checkpoint /\ job'[c].report = j.report
          /\ job'[c].base = j.base /\ job'[c].moved = j.moved
      BY <1>1, <3>4 DEF Job
    <3>6. at'[c] = "settling" /\ attempt' = attempt /\ j.report # None
      BY <1>1, <1>7, <1>9, <2>1, Zenon DEF ledger, Resolve, JobInv
    <3> HIDE DEF b, j
    <3> QED BY <1>4, <2>1, <3>1, <3>2, <3>5, <3>6 DEF JobInv, Attending, Settling
  <2>2. CASE \E s : /\ job' = [job EXCEPT ![c].step = s, ![c].base = revision,
                                          ![c].content = tree]
                    /\ Go(c, "resolved")
                    /\ UNCHANGED run
    <3>1. PICK s : /\ job' = [job EXCEPT ![c].step = s, ![c].base = revision,
                                         ![c].content = tree]
                   /\ Go(c, "resolved")
                   /\ UNCHANGED run
      BY <2>2
    <3>2. at'[c] = "resolved" /\ revision' = revision /\ j.report # None
      BY <1>1, <1>7, <1>9, <3>1, Zenon DEF run, Resolve, JobInv
    <3>3. job' = [job EXCEPT ![c] = [j EXCEPT !.step = s, !.base = revision, !.content = tree]]
      BY <1>1, <3>1 DEF ReportTypeOK
    <3>4. job'[c] = [j EXCEPT !.step = s, !.base = revision, !.content = tree]
      BY <1>1, <3>3 DEF ReportTypeOK
    <3>5. job'[c].report = j.report /\ job'[c].base = revision /\ job'[c].attempt = a
      BY <1>1, <3>4 DEF Job
    <3>6. a = 0
      <4>1. at[c] = "leased"
        BY <1>9, Zenon DEF Resolve
      <4> QED BY <1>1, <4>1 DEF JobInv, Attending
    <3> QED BY <1>3, <3>2, <3>5, <3>6 DEF JobInv, Attending, Settling
  <2>3. \/ /\ b # 0 /\ ~Conflicts(c, b) /\ attempt[b].checkpoint # None
           /\ job' = [job EXCEPT ![c].attempt = b, ![c].step = attempt[b].step,
                                 ![c].check = attempt[b].checkpoint]
           /\ Go(c, "settling")
           /\ UNCHANGED ledger
        \/ \E s : /\ job' = [job EXCEPT ![c].step = s, ![c].base = revision,
                                        ![c].content = tree]
                  /\ Go(c, "resolved")
                  /\ UNCHANGED run
    BY <1>6, <1>9, Zenon DEF Resolve
  <2> QED BY <2>1, <2>2, <2>3
<1>10. CASE Observe(c)
  <2>1. /\ at'[c] = "observed" /\ j.report # None
        /\ revision' = IF j.content # known THEN revision + 1 ELSE revision
    BY <1>1, <1>7, <1>10, Zenon DEF Observe, JobInv
  <2>2. job'[c] = [j EXCEPT !.moved = (j.content # known)]
    BY <1>1, <1>10 DEF Observe, ReportTypeOK
  <2>5. a = 0
    <3>1. at[c] = "resolved"
      BY <1>10 DEF Observe
    <3> QED BY <1>1, <3>1 DEF JobInv, Attending
  <2>3. /\ job'[c].report = j.report /\ job'[c].base = j.base /\ job'[c].attempt = a
        /\ job'[c].moved = (j.content # known)
    BY <1>1, <2>2 DEF Job
  <2>4. job'[c].moved => j.base < revision'
    <3>1. CASE j.content # known
      BY <1>3, <2>1, <3>1
    <3>2. CASE j.content = known
      BY <2>3, <3>2
    <3> QED BY <3>1, <3>2
  <2> QED BY <1>4, <2>1, <2>3, <2>4, <2>5 DEF JobInv, Attending, Settling
<1>11. CASE Open(c)
  <2>1. j.step \in 0..Steps /\ j.report # None /\ UNCHANGED revision /\ at[c] = "observed"
    <3>1. j.step \in 0..Steps
      BY <1>1 DEF Job
    <3>2. j.report # None /\ at[c] = "observed"
      BY <1>1, <1>11, Zenon DEF Open, JobInv
    <3>3. UNCHANGED revision
      BY <1>11 DEF Open, run
    <3> QED BY <3>1, <3>2, <3>3
  <2>2. CASE j.step = 0
    <3>1. at'[c] = "proving" /\ job'[c] = j
      <4>1. Go(c, "proving") /\ UNCHANGED job
        BY <1>11, <2>2, Zenon DEF Open
      <4> QED BY <1>7, <4>1
    <3>2. a = 0
      BY <1>1, <2>1 DEF JobInv, Attending
    <3> QED BY <1>4, <2>1, <2>2, <3>1, <3>2 DEF JobInv, Attending, Settling
  <2>3. CASE j.step # 0
    <3> DEFINE n == OpenAttempt(j.step)
               m == First(Unused)
    <3>1. at'[c] = "opened" /\ j.step \in Step
      <4>1. Go(c, "opened")
        BY <1>11, <2>3, Zenon DEF Open
      <4> QED BY <1>7, <2>1, <2>3, <4>1, Constants DEF Step
    <3>2. CASE n # 0
      <4>1. job' = [job EXCEPT ![c].attempt = n] /\ UNCHANGED attempt
        BY <1>11, <2>3, <3>2, Zenon DEF Open, ledger
      <4>2. job'[c] = [j EXCEPT !.attempt = n]
        BY <1>1, <4>1 DEF ReportTypeOK
      <4>3. /\ job'[c].attempt = n /\ job'[c].step = j.step /\ job'[c].report = j.report
            /\ job'[c].base = j.base /\ job'[c].moved = j.moved
        BY <1>1, <4>2 DEF Job
      <4>4. n \in Attempt /\ attempt[n].step = j.step /\ attempt[n].status = "open"
        BY <3>1, <3>2, OpenAttemptIs
      <4> HIDE DEF n, j
      <4> QED BY <1>4, <2>1, <2>3, <3>1, <4>1, <4>3, <4>4 DEF JobInv, Attending, Settling
    <3>3. CASE n = 0
      <4> DEFINE row == [NoAttempt EXCEPT !.step = j.step, !.revision = j.base,
                                          !.status = "open"]
      <4>1. /\ Unused # {} /\ job' = [job EXCEPT ![c].attempt = m]
            /\ attempt' = [attempt EXCEPT ![m] = row]
        BY <1>11, <2>3, <3>3, Zenon DEF Open
      <4>2. job'[c] = [j EXCEPT !.attempt = m]
        BY <1>1, <4>1 DEF ReportTypeOK
      <4>3. /\ job'[c].attempt = m /\ job'[c].step = j.step /\ job'[c].report = j.report
            /\ job'[c].base = j.base /\ job'[c].moved = j.moved
        BY <1>1, <4>2 DEF Job
      <4>4. m \in Attempt
        BY <4>1, UnusedIs
      <4>5. attempt'[m] = row
        <5> HIDE DEF m, row
        <5> QED BY <1>1, <4>1, <4>4 DEF ReportTypeOK
      <4>6. row.step = j.step /\ row.status = "open"
        BY DEF NoAttempt
      <4> HIDE DEF m, j, row
      <4> QED BY <1>4, <2>1, <2>3, <3>1, <4>3, <4>4, <4>5, <4>6 DEF JobInv, Attending, Settling
    <3> QED BY <3>2, <3>3
  <2> QED BY <2>2, <2>3
<1>12. CASE Bind(c)
  <2>1. /\ at[c] = "opened" /\ at'[c] = "bound" /\ job'[c] = j
        /\ attempt' = [attempt EXCEPT ![a].payload = j.report]
        /\ UNCHANGED revision
    BY <1>6, <1>7, <1>12, Zenon DEF Bind, run
  <2>2. /\ a \in Attempt /\ attempt[a].status # "none" /\ attempt[a].step = j.step
        /\ j.step # 0 /\ j.report # None
    BY <1>1, <2>1 DEF JobInv, Attending
  <2>3. attempt'[a] = [attempt[a] EXCEPT !.payload = j.report] /\ attempt[a] \in AttemptRow
    BY <1>1, <2>1, <2>2 DEF ReportTypeOK
  <2>4. /\ attempt'[a].payload = j.report /\ attempt'[a].status # "none"
        /\ attempt'[a].step = j.step
    BY <2>2, <2>3 DEF AttemptRow
  <2> QED BY <1>4, <2>1, <2>2, <2>4 DEF JobInv, Attending, Settling
<1>14. CASE Advance(c) \/ Prove(c)
  <2>1. /\ at[c] \in {"bound", "proving"} /\ at'[c] \in {"proving", "proved"}
        /\ at[c] = "bound" => at'[c] = "proving"
    BY <1>7, <1>14 DEF Advance, Prove
  <2>2. \/ job'[c] = j /\ at'[c] = "proving"
        \/ \E check \in Checkpoint : job'[c] = [j EXCEPT !.check = check]
    <3>1. CASE Advance(c)
      BY <1>7, <3>1 DEF Advance
    <3>2. CASE Prove(c)
      <4>1. PICK ok \in BOOLEAN :
              job' = [job EXCEPT ![c].check =
                [revision |-> revision, content |-> job[c].content, ok |-> ok]]
        BY <3>2 DEF Prove
      <4> DEFINE check == [revision |-> revision, content |-> job[c].content, ok |-> ok]
      <4>2. check \in Checkpoint
        BY <1>1 DEF ReportTypeOK, Job, Checkpoint
      <4>3. job'[c] = [j EXCEPT !.check = check]
        BY <1>1, <4>1 DEF ReportTypeOK
      <4> QED BY <4>2, <4>3
    <3> QED BY <1>14, <3>1, <3>2
  <2>3. /\ job'[c].attempt = a /\ job'[c].step = j.step /\ job'[c].report = j.report
        /\ job'[c].base = j.base
        /\ at'[c] = "proved" => job'[c].check # None
    BY <1>1, <2>2, Constants DEF Job
  <2>4. j.report # None /\ (j.step # 0 => a \in Attempt /\ attempt[a].status # "none"
                              /\ attempt[a].step = j.step /\ attempt[a].payload # None)
        /\ (j.step = 0 => a = 0)
    BY <1>1, <2>1 DEF JobInv, Attending
  <2> QED BY <1>2, <1>4, <1>5, <2>1, <2>3, <2>4 DEF JobInv, Attending, Settling, Grows
<1>15. CASE WriteCheckpoint(c)
  <2>1. /\ at[c] = "proved" /\ at'[c] = "settling" /\ job'[c] = j
        /\ a # 0 => attempt' = [attempt EXCEPT ![a].checkpoint = j.check]
    BY <1>7, <1>15 DEF WriteCheckpoint
  <2>2. /\ j.report # None /\ j.check # None
        /\ j.step # 0 => /\ a \in Attempt /\ attempt[a].status # "none"
                         /\ attempt[a].step = j.step /\ attempt[a].payload # None
        /\ a # 0 => j.step # 0
    BY <1>1, <2>1 DEF JobInv, Attending, Settling
  <2>3. CASE j.step = 0
    BY <1>4, <2>1, <2>2, <2>3 DEF JobInv, Attending, Settling
  <2>4. CASE j.step # 0
    <3>1. a # 0
      BY <2>2, <2>4, Constants DEF Attempt
    <3>2. attempt'[a] = [attempt[a] EXCEPT !.checkpoint = j.check] /\ attempt[a] \in AttemptRow
      BY <1>1, <2>1, <2>2, <2>4, <3>1 DEF ReportTypeOK
    <3>3. /\ attempt'[a].payload # None /\ attempt'[a].status # "none"
          /\ attempt'[a].step = j.step /\ attempt'[a].checkpoint = j.check
      BY <2>2, <2>4, <3>2 DEF AttemptRow
    <3> QED BY <1>4, <2>1, <2>2, <2>4, <3>3 DEF JobInv, Attending, Settling
  <2> QED BY <2>3, <2>4
<1>16. CASE SettleRead(c)
  <2>1. /\ at[c] = "settling" /\ UNCHANGED attempt
        /\ \/ at'[c] = "settled" /\ j.step = 0 /\ job'[c] = j
           \/ /\ at'[c] \in {"marking", "unlocking"} /\ j.step # 0
              /\ \E ok \in BOOLEAN : /\ job'[c] = [j EXCEPT !.passed = ok]
                                     /\ (at'[c] = "marking" /\ ok) => j.check.ok
    <3>1. at[c] = "settling" /\ UNCHANGED attempt
      BY <1>16 DEF SettleRead, ledger
    <3>2. CASE Go(c, "settled") /\ j.step = 0 /\ UNCHANGED job
      BY <1>7, <3>1, <3>2
    <3>3. CASE /\ j.step # 0 /\ Go(c, "marking")
               /\ job' = [job EXCEPT ![c].passed = j.check.ok /\ j.check.revision = revision]
      <4>1. job'[c] = [j EXCEPT !.passed = j.check.ok /\ j.check.revision = revision]
        BY <1>1, <3>3 DEF ReportTypeOK
      <4>2. at'[c] = "marking"
        BY <1>7, <3>3
      <4>3. j.check.ok \in BOOLEAN
        <5>1. j.check # None
          BY <1>1, <3>1 DEF JobInv, Settling
        <5> QED BY <1>1, <5>1 DEF Job, Checkpoint
      <4>4. (j.check.ok /\ j.check.revision = revision) \in BOOLEAN
        BY <4>3
      <4> QED BY <3>1, <3>3, <4>1, <4>2, <4>4
    <3>4. CASE j.step # 0 /\ Go(c, "unlocking") /\ job' = [job EXCEPT ![c].passed = TRUE]
      <4>1. job'[c] = [j EXCEPT !.passed = TRUE]
        BY <1>1, <3>4 DEF ReportTypeOK
      <4>2. at'[c] = "unlocking"
        BY <1>7, <3>4
      <4> QED BY <3>1, <3>4, <4>1, <4>2
    <3> QED BY <1>16, <3>2, <3>3, <3>4, Zenon DEF SettleRead
  <2>2. /\ j.report # None /\ j.check # None
        /\ j.step # 0 => /\ a \in Attempt /\ attempt[a].status # "none"
                         /\ attempt[a].step = j.step /\ attempt[a].payload # None
                         /\ attempt[a].checkpoint = j.check
        /\ a # 0 => j.step # 0
    BY <1>1, <2>1 DEF JobInv, Attending, Settling
  <2>3. CASE at'[c] = "settled" /\ j.step = 0 /\ job'[c] = j
    BY <1>4, <2>1, <2>2, <2>3 DEF JobInv, Attending, Settling
  <2>4. CASE ~(at'[c] = "settled" /\ j.step = 0 /\ job'[c] = j)
    <3>1. at'[c] \in {"marking", "unlocking"} /\ j.step # 0
      BY <2>1, <2>4
    <3>2. PICK ok \in BOOLEAN : /\ job'[c] = [j EXCEPT !.passed = ok]
                                /\ (at'[c] = "marking" /\ ok) => j.check.ok
      BY <2>1, <2>4
    <3>3. /\ job'[c].attempt = a /\ job'[c].step = j.step /\ job'[c].report = j.report
          /\ job'[c].base = j.base /\ job'[c].check = j.check /\ job'[c].passed = ok
      BY <1>1, <3>2 DEF Job
    <3> QED BY <1>4, <2>1, <2>2, <3>1, <3>2, <3>3 DEF JobInv, Attending, Settling
  <2> QED BY <2>3, <2>4
<1>17. CASE Mark(c) \/ Verdict(c) \/ Unlock(c)
  <2>1. /\ at[c] \in {"marking", "marked", "unlocking"} /\ UNCHANGED attempt
        /\ at'[c] \in {"marked", "unlocking", "settled"} /\ job'[c] = j
        /\ at'[c] = "marked" => at[c] = "marking"
    BY <1>7, <1>17 DEF Mark, Verdict, Unlock
  <2> QED BY <1>1, <1>4, <2>1 DEF JobInv, Attending, Settling
<1>18. CASE Finalize(c)
  <2>1. /\ at[c] = "settled" /\ at'[c] = "journaling" /\ UNCHANGED attempt /\ j.step # 0
        /\ job' = [job EXCEPT ![c].next = CurrentStep]
    BY <1>7, <1>18 DEF Finalize, ledger
  <2>2. job'[c] = [j EXCEPT !.next = CurrentStep]
    BY <1>1, <2>1 DEF ReportTypeOK
  <2>3. /\ job'[c].attempt = a /\ job'[c].step = j.step /\ job'[c].report = j.report
        /\ job'[c].base = j.base /\ job'[c].check = j.check
    BY <1>1, <2>2 DEF Job
  <2> QED BY <1>1, <1>4, <2>1, <2>3 DEF JobInv, Attending, Settling
<1>19. CASE Journal(c)
  <2>1. /\ at[c] = "journaling" /\ at'[c] = "closing" /\ job'[c] = j
        /\ attempt' = [attempt EXCEPT ![a].result = AnswerOf(c)]
    BY <1>7, <1>19 DEF Journal
  <2>2. /\ j.step # 0 /\ a \in Attempt /\ attempt[a] \in AttemptRow
    BY <1>1, <2>1 DEF JobInv, Attending, ReportTypeOK
  <2>3. attempt'[a] = [attempt[a] EXCEPT !.result = AnswerOf(c)]
    BY <1>1, <2>1, <2>2 DEF ReportTypeOK
  <2>4. /\ attempt'[a].payload = attempt[a].payload /\ attempt'[a].status = attempt[a].status
        /\ attempt'[a].step = attempt[a].step
        /\ attempt'[a].checkpoint = attempt[a].checkpoint
    BY <2>2, <2>3 DEF AttemptRow
  <2> QED BY <1>1, <1>4, <2>1, <2>2, <2>4 DEF JobInv, Attending, Settling
<1>20. ~RejectEarly(c) /\ ~ProofRefused(c) /\ ~Close(c)
  BY <1>6 DEF RejectEarly, ProofRefused, Close
<1> QED BY <1>8, <1>9, <1>10, <1>11, <1>12, <1>14, <1>15, <1>16, <1>17, <1>18, <1>19, <1>20
        DEF Work

LEMMA JobStep == IInv /\ [Next]_vars => \A c \in Command : JobInv(c)'
<1> SUFFICES ASSUME IInv, [Next]_vars, NEW c \in Command
             PROVE  JobInv(c)'
  OBVIOUS
<1>1. ReportTypeOK /\ RowsInv /\ JobInv(c) /\ job[c] \in Job
  BY DEF IInv, ReportTypeOK
<1>2. ReportTypeOK' /\ RowsInv' /\ Grows
  BY TypeStep, RowsStep, GrowStep
<1>3. CASE at'[c] = at[c] /\ job'[c] = job[c]
  BY <1>2, <1>3, JobKept
<1>4. CASE Leave(c)
  BY <1>2, <1>4, JobDone
<1>5. CASE Crash(c)
  <2>1. at'[c] = "idle" /\ job'[c] = NoJob
    BY <1>1, <1>5 DEF ReportTypeOK, Crash, Go
  <2>2. 0 <= revision'
    BY <1>2, Constants DEF ReportTypeOK
  <2> QED BY <2>1, <2>2 DEF JobInv, NoJob, Attending, Settling
<1>6. ASSUME NEW r \in Report, NEW k \in Attempt \cup {0}, Send(c, r, k)
      PROVE  JobInv(c)'
  <2>1. at'[c] = "sent" /\ job'[c] = [NoJob EXCEPT !.report = r, !.key = k]
    BY <1>1, <1>6 DEF ReportTypeOK, Send, Go
  <2>2. 0 <= revision' /\ r # None
    BY <1>2, Constants DEF ReportTypeOK
  <2> QED BY <2>1, <2>2 DEF JobInv, NoJob, Attending, Settling
<1>7. CASE Work(c) /\ ~Leave(c)
  BY <1>7, JobWork
<1>8. CASE UNCHANGED vars \/ Expire \/ Edit
  BY <1>3, <1>8 DEF vars, Expire, Edit
<1>9. ASSUME NEW d \in Command \ {c},
             Work(d) \/ Crash(d) \/ \E r \in Report, k \in Attempt \cup {0} : Send(d, r, k)
      PROVE  JobInv(c)'
  BY <1>1, <1>3, <1>9, OthersRest
<1> QED BY <1>4, <1>5, <1>6, <1>7, <1>8, <1>9 DEF Next

-----------------------------------------------------------------------------
(***************************************************************************)
(* The inductive invariant, and the types.                                 *)
(***************************************************************************)
LEMMA InitInv == Init => IInv
<1> SUFFICES ASSUME Init PROVE IInv
  OBVIOUS
<1>1. ReportTypeOK
  <2>1. step \in [Step -> StepRow]
    BY DEF Init, StepRow
  <2>2. attempt \in [Attempt -> AttemptRow] /\ job \in [Command -> Job]
    BY NullsTyped DEF Init
  <2>4. revision \in 0..MaxRevision
    BY Constants DEF Init
  <2>3. faults \in Faults
    BY Constants DEF Init, Faults
  <2>5. tree \in Content /\ known \in Content /\ at \in [Command -> Places]
    BY Constants DEF Init, Places
  <2> QED BY <2>1, <2>2, <2>3, <2>4, <2>5 DEF Init, ReportTypeOK, Faults
<1>2. RowsInv
  BY DEF Init, RowsInv, NoAttempt
<1>3. \A c \in Command : JobInv(c)
  BY DEF Init, JobInv, NoJob, Attending, Settling
<1> QED BY <1>1, <1>2, <1>3 DEF IInv

LEMMA InvStep == IInv /\ [Next]_vars => IInv'
BY TypeStep, RowsStep, JobStep DEF IInv

LEMMA Invariant == Spec => []IInv
BY InitInv, InvStep, PTL DEF Spec

(* Everything in the ledger, the attempt store and the commands keeps its    *)
(* type; a command that settles an attempt has one.                          *)
THEOREM ReportTypeCorrect == Spec => []ReportTypeOK
<1>1. IInv => ReportTypeOK
  BY DEF IInv
<1> QED BY <1>1, Invariant, PTL

-----------------------------------------------------------------------------
(***************************************************************************)
(* PassedIsProven.                                                         *)
(***************************************************************************)

(* A step becomes passed in one place only. *)
LEMMA PassedBy ==
  ASSUME IInv, [Next]_vars, NEW s \in Step, step'[s].state = "passed"
  PROVE  \/ step'[s] = step[s]
         \/ \E c \in Command : /\ Verdict(c) /\ job[c].step = s /\ job[c].passed
                               /\ step'[s].stamp = StampOf(job[c].check)
<1>1. step \in [Step -> StepRow] /\ step[s] \in StepRow
  BY DEF IInv, ReportTypeOK
<1>2. CASE UNCHANGED step
  BY <1>2
<1>3. ASSUME NEW c \in Command, Open(c), step' # step
      PROVE  step'[s] = step[s]
  <2> DEFINE t == job[c].step
             state == IF step[t].state \in {"planned", "ready", "failed"} THEN "running"
                      ELSE step[t].state
  <2>1. step' = [step EXCEPT ![t].state = state]
    BY <1>3, Zenon DEF Open, ledger
  <2>2. CASE s = t
    <3>1. step'[s] = [step[s] EXCEPT !.state = state]
      BY <1>1, <2>1, <2>2
    <3>2. step'[s].state = state
      BY <1>1, <3>1 DEF StepRow
    <3>3. state = step[s].state
      BY <2>2, <3>2
    <3> QED BY <1>1, <3>1, <3>3 DEF StepRow
  <2>3. CASE s # t
    BY <1>1, <2>1, <2>3
  <2> QED BY <2>2, <2>3
<1>4. ASSUME NEW c \in Command, Mark(c)
      PROVE  step'[s] = step[s]
  BY <1>1, <1>4 DEF Mark, StepRow
<1>5. ASSUME NEW c \in Command, Verdict(c)
      PROVE  \/ step'[s] = step[s]
             \/ /\ job[c].step = s /\ job[c].passed
                /\ step'[s].stamp = StampOf(job[c].check)
  <2>1. CASE job[c].passed
    BY <1>1, <1>5, <2>1 DEF Verdict
  <2>2. CASE ~job[c].passed
    BY <1>1, <1>5, <2>2 DEF Verdict, StepRow
  <2> QED BY <2>1, <2>2
<1>6. ASSUME NEW c \in Command, Unlock(c)
      PROVE  step'[s] = step[s]
  BY <1>1, <1>6 DEF Unlock, StepRow
<1>7. ASSUME NEW c \in Command, Work(c)
      PROVE  UNCHANGED step \/ Open(c) \/ Mark(c) \/ Verdict(c) \/ Unlock(c)
  <2>1. CASE Inspect(c) \/ Acquire(c) \/ Observe(c) \/ ProofRefused(c) \/ Bind(c)
    BY <2>1 DEF Inspect, Acquire, Observe, ProofRefused, Bind, Refuse, Replay, ledger
  <2>2. CASE Resolve(c)
    BY <2>2, Zenon DEF Resolve, Refuse, Replay, ledger
  <2>3. CASE Advance(c) \/ RejectEarly(c) \/ Prove(c) \/ WriteCheckpoint(c) \/ SettleRead(c)
    BY <2>3, Zenon DEF Advance, RejectEarly, Prove, WriteCheckpoint, SettleRead, ledger
  <2>4. CASE Finalize(c) \/ Journal(c) \/ Close(c)
    BY <2>4, Zenon DEF Finalize, Journal, Close, ledger
  <2> QED BY <1>7, <2>1, <2>2, <2>3, <2>4 DEF Work
<1>8. UNCHANGED step \/ \E c \in Command : Work(c)
  BY Zenon DEF Next, vars, ledger, Send, Crash, Expire, Edit
<1> QED BY <1>2, <1>3, <1>4, <1>5, <1>6, <1>7, <1>8

(* A step is passed only on the word of a checkpoint of its own: no recovery,  *)
(* second proof or overtaken command leaves it without.                        *)
THEOREM PassedProven == Spec => []PassedIsProven
<1>1. Init => PassedIsProven
  BY DEF Init, PassedIsProven
<1>2. IInv /\ PassedIsProven /\ [Next]_vars => PassedIsProven'
  <2> SUFFICES ASSUME IInv, PassedIsProven, [Next]_vars,
                      NEW s \in Step, step'[s].state = "passed"
               PROVE  \E a \in Attempt :
                        /\ attempt'[a].step = s
                        /\ attempt'[a].checkpoint # None
                        /\ attempt'[a].checkpoint.ok
                        /\ step'[s].stamp = StampOf(attempt'[a].checkpoint)
    BY DEF PassedIsProven, StampOf
  <2>1. RowsInv /\ Grows
    BY GrowStep DEF IInv
  <2>2. CASE step'[s] = step[s]
    <3>1. PICK a \in Attempt : /\ attempt[a].step = s /\ attempt[a].checkpoint # None
                               /\ attempt[a].checkpoint.ok
                               /\ step[s].stamp = StampOf(attempt[a].checkpoint)
      BY <2>2 DEF PassedIsProven
    <3>2. attempt[a].status # "none"
      BY <2>1, <3>1, BoundRow DEF RowsInv
    <3> QED BY <2>1, <2>2, <3>1, <3>2 DEF Grows
  <2>3. ASSUME NEW c \in Command, Verdict(c), job[c].step = s, job[c].passed,
               step'[s].stamp = StampOf(job[c].check)
        PROVE  \E a \in Attempt :
                 /\ attempt'[a].step = s
                 /\ attempt'[a].checkpoint # None
                 /\ attempt'[a].checkpoint.ok
                 /\ step'[s].stamp = StampOf(attempt'[a].checkpoint)
    <3>1. /\ job[c].attempt \in Attempt /\ attempt[job[c].attempt].step = s
          /\ attempt[job[c].attempt].checkpoint = job[c].check
          /\ job[c].check # None /\ job[c].check.ok
      BY <2>3, Zenon DEF Verdict, IInv, JobInv, Attending, Settling
    <3>2. attempt' = attempt
      BY <2>3 DEF Verdict
    <3> QED BY <2>3, <3>1, <3>2
  <2> QED BY <2>2, <2>3, PassedBy
<1> QED BY <1>1, <1>2, Invariant, PTL DEF Spec

-----------------------------------------------------------------------------
(***************************************************************************)
(* OneAnswer: the refinement of OneOutcome.                                *)
(***************************************************************************)
submittedOf == [a \in Attempt |-> attempt[a].payload]
outcomeOf == [a \in Attempt |-> attempt[a].result]

(* A result given, or given again, with its answer. *)
LEMMA Answered ==
  ASSUME ReportTypeOK, NEW a \in Attempt, NEW result \in Result, Finish(a, result),
         answers' = Told(a, result), attempt[a].payload # None,
         attempt[a].result \in {None, result}
  PROVE  Promise!Next
<1>1. StatusAfter(a, result) \in {"none", "open", "passed", "failed"}
  BY DEF ReportTypeOK, AttemptRow, Status, StatusAfter
<1> DEFINE row == [attempt[a] EXCEPT !.result = result, !.status = StatusAfter(a, result)]
<1>2. attempt' = [attempt EXCEPT ![a] = row] /\ attempt[a] \in AttemptRow
  BY DEF ReportTypeOK, AttemptRow, Finish
<1>3. row.result = result /\ row.payload = attempt[a].payload
  BY <1>2 DEF AttemptRow
<1>4. attempt'[a] = row /\ \A k \in Attempt \ {a} : attempt'[k] = attempt[k]
  <2> HIDE DEF row
  <2> QED BY <1>2 DEF ReportTypeOK
<1> HIDE DEF row
<1>5. submittedOf' = submittedOf
  BY <1>3, <1>4 DEF submittedOf
<1>6. outcomeOf' = [outcomeOf EXCEPT ![a] = result]
  BY <1>3, <1>4 DEF outcomeOf
<1>7. submittedOf[a] # None /\ outcomeOf[a] = attempt[a].result
  BY DEF submittedOf, outcomeOf
<1>8. CASE attempt[a].result = None
  <2>1. Promise!DecideAndAnswer(a, result)
    BY <1>5, <1>6, <1>7, <1>8 DEF Promise!DecideAndAnswer, Told, submittedOf, outcomeOf
  <2> QED BY <2>1 DEF Promise!Next
<1>9. CASE attempt[a].result = result
  <2>1. outcomeOf' = outcomeOf
    BY <1>6, <1>7, <1>9 DEF outcomeOf
  <2>2. result # None
    BY Constants
  <2>3. Promise!Answer(a)
    BY <1>5, <1>7, <1>9, <2>1, <2>2 DEF Promise!Answer, Told, submittedOf, outcomeOf
  <2> QED BY <2>3 DEF Promise!Next
<1> QED BY <1>8, <1>9

LEMMA Replayed ==
  ASSUME ReportTypeOK, RowsInv, NEW c \in Command, NEW a \in Attempt, Replays(c, a),
         Replay(c, a)
  PROVE  Promise!Next
<1>1. attempt[a].result \in Result /\ attempt[a].payload # None
  BY DEF ReportTypeOK, AttemptRow, Replays, RowsInv
<1> QED BY <1>1, Answered DEF Replay

(* Steps that leave payloads, results and answers alone. *)
LEMMA Silent ==
  ASSUME answers' = answers,
         \A k \in Attempt : attempt'[k].payload = attempt[k].payload
                              /\ attempt'[k].result = attempt[k].result
  PROVE  UNCHANGED Promise!vars
BY DEF Promise!vars

LEMMA Submitted ==
  ASSUME NEW a \in Attempt, NEW p \in Report, submittedOf[a] = None,
         submittedOf' = [submittedOf EXCEPT ![a] = p], outcomeOf' = outcomeOf,
         answers' = answers
  PROVE  Promise!Next
<1>1. Promise!Submit(a, p)
  BY DEF Promise!Submit, submittedOf, outcomeOf
<1> QED BY <1>1 DEF Promise!Next

LEMMA Decided ==
  ASSUME NEW a \in Attempt, NEW result \in Result, submittedOf[a] # None,
         outcomeOf[a] = None, submittedOf' = submittedOf,
         outcomeOf' = [outcomeOf EXCEPT ![a] = result], answers' = answers
  PROVE  Promise!Next
<1>1. Promise!Decide(a, result)
  BY DEF Promise!Decide, submittedOf, outcomeOf
<1> QED BY <1>1 DEF Promise!Next

LEMMA PromiseStep == IInv /\ [Next]_vars => [Promise!Next]_(Promise!vars)
<1> SUFFICES ASSUME IInv, [Next]_vars
             PROVE  Promise!Next \/ UNCHANGED Promise!vars
  OBVIOUS
<1>1. ReportTypeOK /\ RowsInv
  BY DEF IInv
<1>2. CASE UNCHANGED <<attempt, answers>>
  BY <1>2, Silent
<1>3. ASSUME NEW c \in Command, Work(c), ~UNCHANGED <<attempt, answers>>
      PROVE  Promise!Next \/ UNCHANGED Promise!vars
  <2> DEFINE j == job[c]
             a == j.attempt
             b == InspectedAttempt(c)
  <2>1. /\ JobInv(c) /\ j \in Job /\ b \in Attempt \cup {0} /\ a \in Attempt \cup {0}
        /\ attempt \in [Attempt -> AttemptRow]
    BY <1>1, InspectedIs DEF IInv, ReportTypeOK, Job
  <2>2. CASE b # 0 /\ Replays(c, b) /\ Replay(c, b)
    BY <1>1, <2>1, <2>2, Replayed
  <2>3. CASE Open(c)
    <3> DEFINE n == First(Unused)
               row == [NoAttempt EXCEPT !.step = j.step, !.revision = j.base,
                                        !.status = "open"]
    <3>1. Unused # {} /\ attempt' = [attempt EXCEPT ![n] = row] /\ answers' = answers
      BY <1>3, <2>3, Zenon DEF Open, ledger
    <3>2. n \in Attempt /\ attempt[n] = NoAttempt
      BY <1>1, <3>1, UnusedIs DEF RowsInv
    <3>3. row.payload = attempt[n].payload /\ row.result = attempt[n].result
      BY <3>2 DEF NoAttempt
    <3> HIDE DEF n, row
    <3>4. attempt'[n] = row /\ \A k \in Attempt \ {n} : attempt'[k] = attempt[k]
      BY <2>1, <3>1, <3>2
    <3> QED BY <3>1, <3>3, <3>4, Silent
  <2>4. CASE Bind(c)
    <3>1. a \in Attempt /\ at[c] = "opened" /\ j.report \in Report
      <4>1. at[c] = "opened"
        BY <2>4 DEF Bind
      <4> QED BY <2>1, <4>1 DEF JobInv, Attending, Job
    <3>2. CASE Replays(c, a) /\ Replay(c, a)
      BY <1>1, <3>1, <3>2, Replayed
    <3>3. CASE /\ Binds(c, a) /\ attempt' = [attempt EXCEPT ![a].payload = j.report]
               /\ answers' = answers
      <4>1. attempt'[a] = [attempt[a] EXCEPT !.payload = j.report]
            /\ \A k \in Attempt \ {a} : attempt'[k] = attempt[k]
        BY <2>1, <3>1, <3>3
      <4>2. attempt'[a].payload = j.report /\ attempt'[a].result = attempt[a].result
        BY <2>1, <3>1, <4>1 DEF AttemptRow
      <4>3. CASE attempt[a].payload = j.report
        BY <3>3, <4>1, <4>2, <4>3, Silent
      <4>4. CASE attempt[a].payload = None
        <5>1. submittedOf' = [submittedOf EXCEPT ![a] = j.report] /\ outcomeOf' = outcomeOf
          BY <4>1, <4>2 DEF submittedOf, outcomeOf
        <5>2. submittedOf[a] = None
          BY <3>1, <4>4 DEF submittedOf
        <5> QED BY <3>1, <3>3, <5>1, <5>2, Submitted
      <4> QED BY <3>3, <4>3, <4>4 DEF Binds, Conflicts
    <3> QED BY <1>3, <2>4, <3>2, <3>3 DEF Bind, Refuse, ledger
  <2>5. CASE Advance(c)
    <3>1. /\ attempt' = [attempt EXCEPT ![a].revision = j.base + 1] /\ answers' = answers
          /\ at[c] = "bound"
      BY <1>3, <2>5 DEF Advance
    <3>2. a \in Attempt
      BY <2>1, <3>1 DEF JobInv, Attending
    <3>3. attempt'[a] = [attempt[a] EXCEPT !.revision = j.base + 1]
          /\ \A k \in Attempt \ {a} : attempt'[k] = attempt[k]
      BY <2>1, <3>1, <3>2
    <3>4. attempt'[a].payload = attempt[a].payload /\ attempt'[a].result = attempt[a].result
      BY <2>1, <3>2, <3>3 DEF AttemptRow
    <3> QED BY <3>1, <3>3, <3>4, Silent
  <2>6. CASE RejectEarly(c)
    <3> DEFINE result == [verdict |-> "rejected", next |-> CurrentStep]
    <3>1. /\ a # 0 /\ attempt[a].result = None /\ Finish(a, result) /\ answers' = Told(a, result)
          /\ at[c] = "proving"
      BY <1>3, <2>6 DEF RejectEarly
    <3>2. a \in Attempt /\ attempt[a].payload # None
      BY <2>1, <3>1 DEF JobInv, Attending
    <3>3. result \in Result
      BY CurrentStepType DEF Result
    <3> HIDE DEF result
    <3> QED BY <1>1, <3>1, <3>2, <3>3, Answered
  <2>7. CASE WriteCheckpoint(c)
    <3>1. /\ a # 0 /\ attempt' = [attempt EXCEPT ![a].checkpoint = j.check]
          /\ answers' = answers
      BY <1>3, <2>7 DEF WriteCheckpoint
    <3>2. a \in Attempt
      BY <2>1, <3>1
    <3>3. attempt'[a] = [attempt[a] EXCEPT !.checkpoint = j.check]
          /\ \A k \in Attempt \ {a} : attempt'[k] = attempt[k]
      BY <2>1, <3>1, <3>2
    <3>4. attempt'[a].payload = attempt[a].payload /\ attempt'[a].result = attempt[a].result
      BY <2>1, <3>2, <3>3 DEF AttemptRow
    <3> QED BY <3>1, <3>3, <3>4, Silent
  <2>8. AnswerOf(c) \in Result /\ AnswerOf(c) # None
    <3>1. AnswerOf(c) \in Result
      BY <2>1 DEF AnswerOf, Result, Job
    <3> QED BY <3>1, Constants
  <2>9. CASE Journal(c)
    <3>1. /\ attempt' = [attempt EXCEPT ![a].result = AnswerOf(c)] /\ answers' = answers
          /\ Journals(c, a) /\ at[c] = "journaling"
      BY <1>3, <2>9 DEF Journal
    <3>2. a \in Attempt /\ attempt[a].payload # None
      BY <2>1, <3>1 DEF JobInv, Attending
    <3>3. attempt'[a] = [attempt[a] EXCEPT !.result = AnswerOf(c)]
          /\ \A k \in Attempt \ {a} : attempt'[k] = attempt[k]
      BY <2>1, <3>1, <3>2
    <3>4. attempt'[a].payload = attempt[a].payload /\ attempt'[a].result = AnswerOf(c)
      BY <2>1, <3>2, <3>3 DEF AttemptRow
    <3>5. CASE attempt[a].result = AnswerOf(c)
      BY <3>1, <3>3, <3>4, <3>5, Silent
    <3>6. CASE attempt[a].result = None
      <4>1. submittedOf' = submittedOf /\ outcomeOf' = [outcomeOf EXCEPT ![a] = AnswerOf(c)]
        BY <3>3, <3>4 DEF submittedOf, outcomeOf
      <4>2. submittedOf[a] # None /\ outcomeOf[a] = None
        BY <3>2, <3>6 DEF submittedOf, outcomeOf
      <4> QED BY <2>8, <3>1, <3>2, <4>1, <4>2, Decided
    <3> QED BY <3>1, <3>5, <3>6 DEF Journals
  <2>10. CASE Close(c)
    <3>1. /\ Journals(c, a) /\ Finish(a, AnswerOf(c)) /\ answers' = Told(a, AnswerOf(c))
          /\ at[c] = "closing"
      BY <2>10 DEF Close
    <3>2. a \in Attempt /\ attempt[a].payload # None
      BY <2>1, <3>1 DEF JobInv, Attending
    <3> QED BY <1>1, <2>8, <3>1, <3>2, Answered DEF Journals
  <2>11. \/ b # 0 /\ Replays(c, b) /\ Replay(c, b)
         \/ Open(c) \/ Bind(c) \/ Advance(c) \/ RejectEarly(c) \/ WriteCheckpoint(c)
         \/ Journal(c) \/ Close(c)
    <3>1. CASE Inspect(c)
      BY <1>3, <3>1 DEF Inspect, Refuse, ledger
    <3>2. CASE Resolve(c)
      BY <1>3, <3>2, Zenon DEF Resolve, Refuse, ledger
    <3>3. ~Acquire(c) /\ ~Observe(c) /\ ~ProofRefused(c) /\ ~Prove(c)
      BY <1>3 DEF Acquire, Observe, ProofRefused, Prove, Refuse, ledger
    <3>4. ~SettleRead(c) /\ ~Mark(c) /\ ~Verdict(c) /\ ~Unlock(c) /\ ~Finalize(c)
      BY <1>3 DEF SettleRead, Mark, Verdict, Unlock, Finalize, ledger
    <3> QED BY <1>3, <3>1, <3>2, <3>3, <3>4 DEF Work
  <2> QED BY <2>2, <2>3, <2>4, <2>5, <2>6, <2>7, <2>9, <2>10, <2>11
<1>4. UNCHANGED <<attempt, answers>> \/ \E c \in Command : Work(c)
  BY Zenon DEF Next, vars, ledger, Send, Crash, Expire, Edit
<1> QED BY <1>2, <1>3, <1>4

(* However often a report is sent, resumed or repeated, its attempt has one   *)
(* payload and one outcome, and every answer is that outcome.                 *)
THEOREM OneAnswerHolds == Spec => OneAnswer
<1>1. Init => Promise!Init
  BY DEF Init, NoAttempt, Promise!Init
<1> QED BY <1>1, PromiseStep, Invariant, PTL DEF Spec, OneAnswer, Promise!Spec

-----------------------------------------------------------------------------
(***************************************************************************)
(* While no lease runs out under a live command: the plan is followed.     *)
(***************************************************************************)

(* The plan names what a step depends on before the step itself. *)
PlanIsOrdered == \A s \in Step : \A d \in Needs[s] : d < s

Holding == Places \ {"idle", "sent", "inspected"}

(* Whoever is past the acquire has the lease. *)
LeaseInv == Exclusive => \A c \in Command : at[c] \in Holding => lease = c

(* What a command does to the lease. *)
LEMMA LeaseMoves ==
  ASSUME IInv, NEW c \in Command, Work(c)
  PROVE  \/ Leave(c)
         \/ Admits(c) /\ lease' = c /\ Go(c, "leased")
         \/ /\ lease' = lease
            /\ at'[c] \in Holding => at[c] \in Holding
<1>0. at \in [Command -> Places]
  BY DEF IInv, ReportTypeOK
<1>1. CASE Inspect(c)
  BY <1>0, <1>1 DEF Inspect, Refuse, Replay, Go, Holding
<1>2. CASE Acquire(c)
  BY <1>2 DEF Acquire, Refuse
<1>3. CASE Resolve(c)
  <2>1. at[c] = "leased" /\ (Leave(c) \/ lease' = lease)
    BY <1>3, Zenon DEF Resolve, Refuse, Replay
  <2> QED BY <2>1 DEF Holding, Places
<1>4. CASE \/ Observe(c) \/ Open(c) \/ Prove(c) \/ Mark(c) \/ Verdict(c) \/ Unlock(c)
  BY <1>4 DEF Observe, Open, Prove, Mark, Verdict, Unlock, Holding, Places
<1>5. CASE Bind(c) \/ Advance(c) \/ WriteCheckpoint(c) \/ SettleRead(c) \/ Journal(c)
  BY <1>5 DEF Bind, Advance, WriteCheckpoint, SettleRead, Journal, Refuse, Replay,
     Holding, Places
<1>6. CASE Finalize(c)
  <2>1. at[c] = "settled" /\ (Leave(c) \/ lease' = lease)
    BY <1>6, Zenon DEF Finalize
  <2> QED BY <2>1 DEF Holding, Places
<1>7. CASE RejectEarly(c) \/ ProofRefused(c) \/ Close(c)
  BY <1>7 DEF RejectEarly, ProofRefused, Close, Refuse
<1> QED BY <1>1, <1>2, <1>3, <1>4, <1>5, <1>6, <1>7 DEF Work

(* Faults are those of the clock, of the session and of processes that die. *)
LEMMA FaultsStep ==
  ASSUME [Next]_vars
  PROVE  faults' = faults \/ Expire \/ Edit \/ \E c \in Command : Crash(c)
<1>1. ASSUME NEW c \in Command, NEW r \in Report, NEW k \in Attempt \cup {0}, Send(c, r, k)
      PROVE  faults' = faults
  BY <1>1, Zenon DEF Send
<1>2. ASSUME NEW c \in Command, Work(c)
      PROVE  faults' = faults
  <2>1. CASE Inspect(c) \/ Acquire(c) \/ Resolve(c) \/ Observe(c) \/ Open(c) \/ Bind(c)
    BY <2>1, Zenon DEF Inspect, Acquire, Resolve, Observe, Open, Bind, Refuse, Replay
  <2>2. CASE Advance(c) \/ RejectEarly(c) \/ ProofRefused(c) \/ Prove(c) \/ WriteCheckpoint(c)
    BY <2>2, Zenon DEF Advance, RejectEarly, ProofRefused, Prove, WriteCheckpoint, Refuse
  <2>3. CASE SettleRead(c) \/ Mark(c) \/ Verdict(c) \/ Unlock(c) \/ Finalize(c) \/ Journal(c)
    BY <2>3, Zenon DEF SettleRead, Mark, Verdict, Unlock, Finalize, Journal
  <2>4. CASE Close(c)
    BY <2>4, Zenon DEF Close
  <2> QED BY <1>2, <2>1, <2>2, <2>3, <2>4 DEF Work
<1>3. CASE UNCHANGED vars
  BY <1>3 DEF vars
<1> QED BY <1>1, <1>2, <1>3, Zenon DEF Next

(* A lease that ran out stays on record. *)
LEMMA ExclusiveBefore ==
  ASSUME IInv, [Next]_vars, Exclusive'
  PROVE  Exclusive /\ ~Expire
<1>1. faults.expiries \in Nat
  BY Constants DEF IInv, ReportTypeOK
<1>2. faults' = faults \/ Expire \/ Edit \/ \E c \in Command : Crash(c)
  BY FaultsStep
<1>3. faults \in [edits : 0..MaxEdits, crashes : 0..MaxFaults, expiries : 0..MaxFaults,
                  stranded : BOOLEAN]
  BY DEF IInv, ReportTypeOK
<1>4. Edit => faults'.expiries = faults.expiries
  BY <1>3 DEF Edit
<1>5. \A c \in Command : Crash(c) => faults'.expiries = faults.expiries
  BY <1>3 DEF Crash
<1>6. Expire => faults'.expiries = faults.expiries + 1
  BY <1>3 DEF Expire
<1> QED BY <1>1, <1>2, <1>4, <1>5, <1>6 DEF Exclusive

LEMMA LeaseStep == IInv /\ LeaseInv /\ [Next]_vars => LeaseInv'
<1> SUFFICES ASSUME IInv, LeaseInv, [Next]_vars, Exclusive',
                    NEW d \in Command, at'[d] \in Holding
             PROVE  lease' = d
  BY DEF LeaseInv
<1>0. /\ Exclusive /\ ~Expire /\ ReportTypeOK /\ None \notin Command
      /\ \A c \in Command : at[c] \in Holding => lease = c
  BY ExclusiveBefore, Constants DEF IInv, LeaseInv
<1>1. CASE UNCHANGED vars \/ Edit
  BY <1>0, <1>1 DEF vars, Edit
<1>2. ASSUME NEW c \in Command,
             Crash(c) \/ \E r \in Report, k \in Attempt \cup {0} : Send(c, r, k)
      PROVE  lease' = d
  <2>1. lease' = lease /\ at'[c] \in {"idle", "sent"}
    BY <1>0, <1>2 DEF Crash, Send, Go, ReportTypeOK
  <2>2. d # c
    BY <2>1 DEF Holding
  <2> QED BY <1>0, <1>2, <2>1, <2>2, OthersRest
<1>3. ASSUME NEW c \in Command, Work(c) PROVE lease' = d
  <2>1. CASE d = c
    <3>1. ~Leave(c)
      BY <1>0, <2>1 DEF Leave, Go, Holding, ReportTypeOK
    <3> QED BY <1>0, <1>3, <2>1, <3>1, LeaseMoves
  <2>2. CASE d # c
    <3>1. at[d] \in Holding /\ lease = d
      BY <1>0, <1>3, <2>2, OthersRest
    <3>2. CASE Leave(c)
      BY <2>2, <3>1, <3>2 DEF Leave
    <3>3. ~Admits(c)
      BY <1>0, <2>2, <3>1 DEF Admits, Holding
    <3> QED BY <1>3, <3>1, <3>2, <3>3, LeaseMoves
  <2> QED BY <2>1, <2>2
<1> QED BY <1>0, <1>1, <1>2, <1>3 DEF Next

-----------------------------------------------------------------------------
(* Where a command stands, and the state its step is in. *)
PositionInv(c) ==
  LET s == job[c].step IN
    /\ at[c] = "marking" => step[s].state # "passed"
    /\ at[c] = "marked" => step[s].state = "verifying"
    /\ at[c] = "unlocking" => job[c].passed
    /\ (at[c] \in {"unlocking", "settled", "journaling", "closing"} /\ s # 0
          /\ job[c].passed) => step[s].state = "passed"

(* A step that was attempted is no longer planned, and what passed as an      *)
(* attempt has passed as a step.                                             *)
AttemptedInv ==
  \A a \in Attempt : attempt[a].status # "none" => step[attempt[a].step].state # "planned"
ResultsInv ==
  \A a \in Attempt :
    (attempt[a].result # None /\ attempt[a].result.verdict = "passed") =>
      step[attempt[a].step].state = "passed"

OrderInv ==
  /\ LeaseInv
  /\ AttemptedInv
  /\ Exclusive => ResultsInv /\ \A c \in Command : PositionInv(c)

(* The four actions that touch a step. *)
LEMMA StepTouched ==
  ASSUME IInv, [Next]_vars, step' # step
  PROVE  \E c \in Command :
           /\ Open(c) \/ Mark(c) \/ Verdict(c) \/ Unlock(c)
           /\ at[c] \in Holding
           /\ ~Unlock(c) => job[c].step \in Step
<1>1. PICK c \in Command : Open(c) \/ Mark(c) \/ Verdict(c) \/ Unlock(c)
  <2>1. \A c \in Command : ~Crash(c)
          /\ \A r \in Report, k \in Attempt \cup {0} : ~Send(c, r, k)
    BY Zenon DEF Crash, Send, ledger
  <2>2. ~Expire /\ ~Edit /\ ~UNCHANGED vars
    BY Zenon DEF Expire, Edit, vars, ledger
  <2>3. ASSUME NEW c \in Command, Work(c)
        PROVE  Open(c) \/ Mark(c) \/ Verdict(c) \/ Unlock(c)
    <3>1. ~Inspect(c) /\ ~Acquire(c) /\ ~Resolve(c) /\ ~Observe(c) /\ ~Bind(c)
      BY Zenon DEF Inspect, Acquire, Resolve, Observe, Bind, Refuse, Replay, ledger
    <3>2. ~Advance(c) /\ ~RejectEarly(c) /\ ~ProofRefused(c) /\ ~Prove(c) /\ ~WriteCheckpoint(c)
      BY Zenon DEF Advance, RejectEarly, ProofRefused, Prove, WriteCheckpoint, Refuse, ledger
    <3>3. ~SettleRead(c) /\ ~Finalize(c) /\ ~Journal(c) /\ ~Close(c)
      BY Zenon DEF SettleRead, Finalize, Journal, Close, ledger
    <3> QED BY <2>3, <3>1, <3>2, <3>3, Zenon DEF Work
  <2> QED BY <2>1, <2>2, <2>3, Zenon DEF Next
<1>2. at[c] \in Holding
  BY <1>1 DEF Open, Mark, Verdict, Unlock, Holding, Places
<1>3. JobInv(c) /\ job[c].step \in 0..Steps
  BY DEF IInv, ReportTypeOK, Job
<1>4. ~Unlock(c) => job[c].step # 0
  <2>1. Open(c) => job[c].step # 0
    BY DEF Open, ledger
  <2>2. Mark(c) \/ Verdict(c) => job[c].step # 0
    BY <1>3 DEF Mark, Verdict, JobInv
  <2> QED BY <1>1, <2>1, <2>2
<1> QED BY <1>1, <1>2, <1>3, <1>4, Constants DEF Step

(* What each of them makes of a step. *)
LEMMA StepOpened ==
  ASSUME IInv, NEW c \in Command, Open(c), step' # step, NEW s \in Step
  PROVE  /\ s # job[c].step => step'[s] = step[s]
         /\ step[s].state \notin {"planned", "ready", "failed"} => step'[s] = step[s]
         /\ step'[s].state # "planned" \/ step'[s] = step[s]
         /\ step'[s].state \in {"running", step[s].state}
<1> DEFINE t == job[c].step
           state == IF step[t].state \in {"planned", "ready", "failed"} THEN "running"
                    ELSE step[t].state
<1>1. step' = [step EXCEPT ![t].state = state]
  BY Zenon DEF Open, ledger
<1>2. step \in [Step -> StepRow] /\ step[s] \in StepRow
  BY DEF IInv, ReportTypeOK
<1>3. CASE s # t
  BY <1>1, <1>2, <1>3
<1>4. CASE s = t
  <2>1. step'[s] = [step[s] EXCEPT !.state = state]
    BY <1>1, <1>2, <1>4
  <2>2. step'[s].state = state
    BY <1>2, <2>1 DEF StepRow
  <2>3. state = step[s].state => step'[s] = step[s]
    BY <1>2, <2>1 DEF StepRow
  <2> QED BY <1>4, <2>2, <2>3
<1> QED BY <1>3, <1>4

LEMMA StepMarked ==
  ASSUME IInv, NEW c \in Command, Mark(c), NEW s \in Step
  PROVE  /\ s # job[c].step => step'[s] = step[s]
         /\ s = job[c].step => step'[s].state = "verifying"
BY DEF IInv, ReportTypeOK, StepRow, Mark

LEMMA StepJudged ==
  ASSUME IInv, NEW c \in Command, Verdict(c), NEW s \in Step
  PROVE  /\ s # job[c].step => step'[s] = step[s]
         /\ s = job[c].step => step'[s].state = IF job[c].passed THEN "passed" ELSE "failed"
BY DEF IInv, ReportTypeOK, StepRow, Verdict

LEMMA StepUnlocked ==
  ASSUME IInv, NEW c \in Command, Unlock(c), NEW s \in Step
  PROVE  step'[s].state = IF step[s].state = "planned" /\ Satisfied(s) THEN "ready"
                          ELSE step[s].state
BY DEF IInv, ReportTypeOK, StepRow, Unlock

(* No step is planned again. *)
LEMMA NeverReplanned ==
  ASSUME IInv, [Next]_vars, NEW s \in Step, step[s].state # "planned"
  PROVE  step'[s].state # "planned"
<1>1. CASE step' = step
  BY <1>1
<1>2. ASSUME NEW c \in Command, Open(c) \/ Mark(c) \/ Verdict(c) \/ Unlock(c), step' # step
      PROVE  step'[s].state # "planned"
  BY <1>2, StepOpened, StepMarked, StepJudged, StepUnlocked
<1> QED BY <1>1, <1>2, StepTouched

(* While leases last, no step that passed is taken back. *)
LEMMA PassedKept ==
  ASSUME IInv, OrderInv, Exclusive, [Next]_vars, NEW s \in Step, step[s].state = "passed"
  PROVE  step'[s].state = "passed"
<1>1. CASE step' = step
  BY <1>1
<1>2. ASSUME NEW c \in Command, Open(c) \/ Mark(c) \/ Verdict(c) \/ Unlock(c), step' # step
      PROVE  step'[s].state = "passed"
  <2>1. Mark(c) \/ Verdict(c) => s # job[c].step
    BY DEF OrderInv, PositionInv, Mark, Verdict
  <2> QED BY <1>2, <2>1, StepOpened, StepMarked, StepJudged, StepUnlocked
<1> QED BY <1>1, <1>2, StepTouched

(* Nobody else touches a step while a command works. *)
LEMMA StepsLeft ==
  ASSUME IInv, OrderInv, Exclusive, [Next]_vars, NEW c \in Command, at[c] \in Holding,
         ~(Open(c) \/ Mark(c) \/ Verdict(c) \/ Unlock(c))
  PROVE  step' = step
BY StepTouched DEF OrderInv, LeaseInv

Placed == {"marking", "marked", "unlocking", "settled", "journaling", "closing"}

LEMMA PositionStep ==
  ASSUME IInv, OrderInv, Exclusive, [Next]_vars, NEW c \in Command
  PROVE  PositionInv(c)'
<1>0. /\ ReportTypeOK /\ JobInv(c) /\ PositionInv(c)
      /\ job[c] \in Job /\ job[c].step \in 0..Steps
  BY DEF IInv, OrderInv, ReportTypeOK, Job
<1>1. CASE at'[c] \notin Placed
  BY <1>1 DEF PositionInv, Placed
<1>2. CASE at'[c] = at[c] /\ job'[c] = job[c] /\ at[c] \in Placed
           /\ ~(Open(c) \/ Mark(c) \/ Verdict(c) \/ Unlock(c))
  <2>1. step' = step
    BY <1>2, StepsLeft DEF Placed, Holding, Places
  <2> QED BY <1>0, <1>2, <2>1 DEF PositionInv
<1>3. CASE SettleRead(c) /\ at'[c] \in Placed
  <2> DEFINE s == job[c].step
             passed == job[c].check.ok /\ job[c].check.revision = revision
  <2>1. CASE s = 0 /\ Go(c, "settled") /\ UNCHANGED <<job, step>>
    BY <1>0, <2>1 DEF PositionInv, Go, ReportTypeOK
  <2>2. CASE /\ s # 0 /\ step[s].state # "passed" /\ Go(c, "marking") /\ step' = step
             /\ job' = [job EXCEPT ![c].passed = passed]
    <3>1. at'[c] = "marking" /\ job'[c].step = s
      BY <1>0, <2>2 DEF Go, ReportTypeOK, Job
    <3> QED BY <2>2, <3>1 DEF PositionInv
  <2>3. CASE /\ step[s].state = "passed" /\ Go(c, "unlocking") /\ step' = step
             /\ job' = [job EXCEPT ![c].passed = TRUE]
    <3>1. at'[c] = "unlocking" /\ job'[c].step = s /\ job'[c].passed
      BY <1>0, <2>3 DEF Go, ReportTypeOK, Job
    <3> QED BY <2>3, <3>1 DEF PositionInv
  <2>4. CASE Leave(c)
    BY <1>0, <1>3, <2>4 DEF Leave, Go, ReportTypeOK, Placed
  <2> QED BY <1>3, <2>1, <2>2, <2>3, <2>4, Zenon DEF SettleRead, ledger
<1>4. CASE Mark(c)
  <2>1. at[c] = "marking" /\ at'[c] = "marked" /\ job' = job
    BY <1>0, <1>4 DEF Mark, Go, ReportTypeOK
  <2>2. job[c].step \in Step
    BY <1>0, <2>1, Constants DEF JobInv, Step
  <2> QED BY <1>4, <2>1, <2>2, StepMarked DEF PositionInv
<1>5. CASE Verdict(c)
  <2>1. /\ at[c] = "marked" /\ job' = job
        /\ at'[c] = IF job[c].passed THEN "unlocking" ELSE "settled"
    BY <1>0, <1>5 DEF Verdict, Go, ReportTypeOK
  <2>2. job[c].step \in Step
    BY <1>0, <2>1, Constants DEF JobInv, Step
  <2> QED BY <1>5, <2>1, <2>2, StepJudged DEF PositionInv
<1>6. CASE Unlock(c)
  <2>1. at[c] = "unlocking" /\ at'[c] = "settled" /\ job' = job
    BY <1>0, <1>6 DEF Unlock, Go, ReportTypeOK
  <2>2. job[c].step \in Step
    BY <1>0, <2>1, Constants DEF JobInv, Step
  <2> QED BY <1>0, <2>1, <2>2, PassedKept DEF PositionInv
<1>7. CASE Finalize(c) /\ at'[c] \in Placed
  <2>1. /\ at[c] = "settled" /\ at'[c] = "journaling" /\ step' = step
        /\ job'[c].step = job[c].step /\ job'[c].passed = job[c].passed
    <3>1. CASE Leave(c)
      BY <1>0, <1>7, <3>1 DEF Leave, Go, ReportTypeOK, Placed
    <3>2. CASE Go(c, "journaling") /\ job' = [job EXCEPT ![c].next = CurrentStep]
      BY <1>0, <1>7, <3>2 DEF Finalize, Go, ReportTypeOK, Job, ledger
    <3> QED BY <1>7, <3>1, <3>2, Zenon DEF Finalize
  <2> QED BY <1>0, <2>1 DEF PositionInv
<1>8. CASE Journal(c) /\ at'[c] \in Placed
  <2>1. at[c] = "journaling" /\ at'[c] = "closing" /\ step' = step /\ job' = job
    <3>1. CASE Leave(c)
      BY <1>0, <1>8, <3>1 DEF Leave, Go, ReportTypeOK, Placed
    <3>2. CASE Go(c, "closing") /\ UNCHANGED <<job, lease>>
      BY <1>0, <1>8, <3>2 DEF Journal, Go, ReportTypeOK
    <3> QED BY <1>8, <3>1, <3>2, Zenon DEF Journal
  <2> QED BY <1>0, <2>1 DEF PositionInv
<1>9. CASE Resolve(c) /\ at'[c] \in Placed
  <2>1. Leave(c) \/ Go(c, "settling") \/ Go(c, "resolved")
    BY <1>9, Zenon DEF Resolve, Refuse, Replay
  <2> QED BY <1>0, <1>9, <2>1 DEF Leave, Go, ReportTypeOK, Placed
<1>10. CASE \/ Inspect(c) \/ Acquire(c) \/ Observe(c) \/ Open(c) \/ Bind(c) \/ Advance(c)
            \/ RejectEarly(c) \/ ProofRefused(c) \/ Prove(c) \/ WriteCheckpoint(c)
            \/ Close(c) \/ Crash(c) \/ \E r \in Report, k \in Attempt \cup {0} : Send(c, r, k)
  <2>1. \E where \in Places \ Placed : at' = [at EXCEPT ![c] = where]
    BY <1>10, Zenon DEF Inspect, Acquire, Observe, Open, Bind, Advance, RejectEarly,
       ProofRefused, Prove, WriteCheckpoint, Close, Crash, Send, Refuse, Replay, Leave,
       Go, Places, Placed
  <2> QED BY <1>0, <1>1, <2>1 DEF ReportTypeOK
<1>11. CASE UNCHANGED vars \/ Expire \/ Edit
  <2>1. at'[c] = at[c] /\ job'[c] = job[c] /\ step' = step
    BY <1>11 DEF vars, ledger, Expire, Edit
  <2> QED BY <1>0, <2>1 DEF PositionInv
<1>12. ASSUME NEW d \in Command \ {c},
              Work(d) \/ Crash(d) \/ \E r \in Report, k \in Attempt \cup {0} : Send(d, r, k)
       PROVE  PositionInv(c)'
  <2>1. at'[c] = at[c] /\ job'[c] = job[c]
    BY <1>0, <1>12, OthersRest
  <2>2. CASE at[c] \in Placed
    <3>1. ~(Open(c) \/ Mark(c) \/ Verdict(c) \/ Unlock(c))
      BY <1>0, <2>1 DEF Open, Mark, Verdict, Unlock, Go, ReportTypeOK
    <3> QED BY <1>2, <2>1, <2>2, <3>1
  <2> QED BY <1>1, <2>1, <2>2
<1> QED
  BY <1>1, <1>3, <1>4, <1>5, <1>6, <1>7, <1>8, <1>9, <1>10, <1>11, <1>12
  DEF Next, Work

(* Nothing but the opening of an attempt says of which step it is one. *)
LEMMA NewlyOpened ==
  ASSUME IInv, [Next]_vars, NEW a \in Attempt, attempt[a].status = "none",
         attempt'[a].status # "none"
  PROVE  \E c \in Command :
           Open(c) /\ attempt' # attempt /\ attempt'[a].step = job[c].step
<1>1. ReportTypeOK /\ attempt[a].step = 0 /\ attempt[a] \in AttemptRow
  BY DEF IInv, ReportTypeOK, RowsInv, NoAttempt
<1>2. attempt'[a].step # 0
  BY <1>1, RowsStep, TypeStep DEF IInv, RowsInv
<1>3. PICK c \in Command : Work(c)
  BY <1>1, <1>2, Zenon DEF Next, vars, ledger, run, Send, Crash, Expire, Edit
<1>4. ASSUME NEW b, NEW x,
             \/ attempt' = [attempt EXCEPT ![b].payload = x]
             \/ attempt' = [attempt EXCEPT ![b].revision = x]
             \/ attempt' = [attempt EXCEPT ![b].checkpoint = x]
             \/ attempt' = [attempt EXCEPT ![b].result = x]
      PROVE  FALSE
  BY <1>1, <1>2, <1>4 DEF ReportTypeOK, AttemptRow
<1>5. ASSUME NEW b, NEW result, Finish(b, result) PROVE FALSE
  BY <1>1, <1>2, <1>5 DEF Finish, ReportTypeOK, AttemptRow
<1>6. ~Replay(c, InspectedAttempt(c)) /\ ~Replay(c, job[c].attempt)
  BY <1>5, Zenon DEF Replay
<1>7. attempt' # attempt
  BY <1>1, <1>2
<1>8. CASE Open(c)
  <2> DEFINE n == First(Unused)
             row == [NoAttempt EXCEPT !.step = job[c].step, !.revision = job[c].base,
                                      !.status = "open"]
  <2>1. attempt' = [attempt EXCEPT ![n] = row]
    BY <1>7, <1>8 DEF Open, ledger
  <2>2. row.step = job[c].step
    BY DEF NoAttempt
  <2> HIDE DEF n, row
  <2>3. attempt'[a] = row
    BY <1>1, <1>2, <2>1 DEF ReportTypeOK
  <2> QED BY <1>7, <1>8, <2>2, <2>3
<1>9. CASE Inspect(c) \/ Resolve(c) \/ Bind(c)
  <2>1. ~Inspect(c)
    BY <1>6, <1>7 DEF Inspect, Refuse, ledger
  <2>2. ~Resolve(c)
    BY <1>6, <1>7, Zenon DEF Resolve, Refuse, ledger
  <2>3. ~Bind(c)
    BY <1>4, <1>6, <1>7 DEF Bind, Refuse, ledger
  <2> QED BY <1>9, <2>1, <2>2, <2>3
<1>10. CASE Advance(c) \/ WriteCheckpoint(c) \/ Journal(c)
  BY <1>4, <1>7, <1>10 DEF Advance, WriteCheckpoint, Journal
<1>11. CASE RejectEarly(c) \/ Close(c)
  BY <1>5, <1>7, <1>11 DEF RejectEarly, Close
<1>12. CASE \/ Acquire(c) \/ Observe(c) \/ ProofRefused(c) \/ Prove(c) \/ SettleRead(c)
            \/ Mark(c) \/ Verdict(c) \/ Unlock(c) \/ Finalize(c)
  BY <1>7, <1>12 DEF Acquire, Observe, ProofRefused, Prove, SettleRead, Mark, Verdict,
     Unlock, Finalize, Refuse, ledger
<1> QED BY <1>3, <1>8, <1>9, <1>10, <1>11, <1>12 DEF Work

(* An attempt is opened for a step that then runs. *)
LEMMA AttemptedStep == IInv /\ OrderInv /\ [Next]_vars => AttemptedInv'
<1> SUFFICES ASSUME IInv, OrderInv, [Next]_vars, NEW a \in Attempt,
                    attempt'[a].status # "none"
             PROVE  step'[attempt'[a].step].state # "planned"
  BY DEF AttemptedInv
<1>1. CASE attempt[a].status # "none"
  <2>1. attempt'[a].step = attempt[a].step
    BY <1>1, GrowStep DEF Grows
  <2>2. attempt[a].step \in Step
    BY <1>1, Constants DEF IInv, ReportTypeOK, RowsInv, AttemptRow, Step
  <2> QED BY <1>1, <2>1, <2>2, NeverReplanned DEF OrderInv, AttemptedInv
<1>2. CASE attempt[a].status = "none"
  <2>1. PICK c \in Command : Open(c) /\ attempt' # attempt /\ attempt'[a].step = job[c].step
    BY <1>2, NewlyOpened
  <2>2. job[c].step \in Step
    BY <2>1, Constants DEF Open, ledger, IInv, ReportTypeOK, Job, Step
  <2> DEFINE s == job[c].step
  <2>3. step' = [step EXCEPT ![s].state =
                   IF @ \in {"planned", "ready", "failed"} THEN "running" ELSE @]
    BY <2>1, Zenon DEF Open, ledger
  <2>4. step'[s].state # "planned"
    BY <2>2, <2>3 DEF IInv, ReportTypeOK, StepRow
  <2> QED BY <2>1, <2>4
<1> QED BY <1>1, <1>2

(* What the transaction that finishes an attempt makes of its row. *)
LEMMA FinishMakes ==
  ASSUME IInv, NEW b \in Attempt, NEW result, Finish(b, result), NEW a \in Attempt
  PROVE  /\ a # b => attempt'[a] = attempt[a]
         /\ a = b => attempt'[a].result = result
         /\ a = b => attempt'[a].status = StatusAfter(a, result)
BY DEF IInv, ReportTypeOK, AttemptRow, Finish

(* Where a result comes from, and that no attempt is passed without one. *)
LEMMA ResultGiven ==
  ASSUME IInv, [Next]_vars, NEW a \in Attempt,
         \/ attempt'[a].result # attempt[a].result
         \/ attempt[a].status # "passed" /\ attempt'[a].status = "passed"
  PROVE  /\ attempt'[a].status = "passed" /\ attempt[a].status # "passed" =>
              attempt'[a].result # None /\ attempt'[a].result.verdict = "passed"
         /\ attempt'[a].result # attempt[a].result =>
              \/ attempt'[a].result = None
              \/ attempt'[a].result.verdict = "rejected"
              \/ \E c \in Command : /\ at[c] \in {"journaling", "closing"}
                                    /\ a = job[c].attempt
                                    /\ attempt'[a].result = AnswerOf(c)
<1> DEFINE Claim ==
         /\ attempt'[a].status = "passed" /\ attempt[a].status # "passed" =>
              attempt'[a].result # None /\ attempt'[a].result.verdict = "passed"
         /\ attempt'[a].result # attempt[a].result =>
              \/ attempt'[a].result = None
              \/ attempt'[a].result.verdict = "rejected"
              \/ \E c \in Command : /\ at[c] \in {"journaling", "closing"}
                                    /\ a = job[c].attempt
                                    /\ attempt'[a].result = AnswerOf(c)
<1>1. ReportTypeOK /\ RowsInv /\ attempt[a] \in AttemptRow
  BY DEF IInv, ReportTypeOK
<1>2. PICK c \in Command : Work(c)
  BY Zenon DEF Next, vars, ledger, run, Send, Crash, Expire, Edit
<1>3. /\ JobInv(c) /\ job[c] \in Job /\ (at[c] # "idle" => job[c].report # None)
      /\ InspectedAttempt(c) \in Attempt \cup {0}
  BY <1>1, InspectedIs DEF IInv, ReportTypeOK, JobInv
<1>4. ASSUME NEW b \in Attempt, NEW result, Finish(b, result), result # None
      PROVE  /\ a = b
             /\ attempt'[a].result = result
             /\ attempt'[a].status = "passed" /\ attempt[a].status # "passed" =>
                  attempt'[a].result # None /\ attempt'[a].result.verdict = "passed"
  <2>1. a = b
    BY <1>4, FinishMakes
  <2> QED BY <1>4, <2>1, FinishMakes DEF StatusAfter, Status
<1>5. ASSUME NEW b \in Attempt, Replays(c, b), Replay(c, b)
      PROVE  Claim
  <2>1. attempt[b].result # None
    BY <1>5 DEF Replays
  <2> QED BY <1>4, <1>5, <2>1 DEF Replay
<1>6. ASSUME NEW b, NEW x,
             \/ attempt' = attempt
             \/ attempt' = [attempt EXCEPT ![b].payload = x]
             \/ attempt' = [attempt EXCEPT ![b].revision = x]
             \/ attempt' = [attempt EXCEPT ![b].checkpoint = x]
      PROVE  FALSE
  BY <1>1, <1>6 DEF ReportTypeOK, AttemptRow
<1>7. CASE Inspect(c) \/ Resolve(c)
  <2>1. at[c] # "idle" /\ (InspectedAttempt(c) # 0 => InspectedAttempt(c) \in Attempt)
    BY <1>3, <1>7 DEF Inspect, Resolve
  <2>2. InspectedAttempt(c) # 0 /\ Replays(c, InspectedAttempt(c))
          /\ Replay(c, InspectedAttempt(c))
    BY <1>6, <1>7, Zenon DEF Inspect, Resolve, Refuse, ledger
  <2> QED BY <1>5, <2>1, <2>2
<1>8. CASE Bind(c)
  <2>1. job[c].attempt \in Attempt
    BY <1>3, <1>8 DEF Bind, JobInv, Attending
  <2>2. Replays(c, job[c].attempt) /\ Replay(c, job[c].attempt)
    BY <1>6, <1>8, Zenon DEF Bind, Refuse, ledger
  <2> QED BY <1>5, <2>1, <2>2
<1>9. CASE Open(c)
  <2> DEFINE n == First(Unused)
             row == [NoAttempt EXCEPT !.step = job[c].step, !.revision = job[c].base,
                                      !.status = "open"]
  <2>1. attempt' = [attempt EXCEPT ![n] = row]
    BY <1>6, <1>9, Zenon DEF Open, ledger
  <2>2. row.status = "open" /\ row.result = None
    BY DEF NoAttempt
  <2> HIDE DEF n, row
  <2>3. attempt'[a] \in {attempt[a], row}
    BY <1>1, <2>1 DEF ReportTypeOK
  <2> QED BY <2>2, <2>3
<1>10. CASE RejectEarly(c)
  <2>1. job[c].attempt # 0 /\
          Finish(job[c].attempt, [verdict |-> "rejected", next |-> CurrentStep])
    BY <1>6, <1>10, Zenon DEF RejectEarly
  <2>2. job[c].attempt \in Attempt
    BY <1>3, <2>1 DEF Job
  <2>3. [verdict |-> "rejected", next |-> CurrentStep] # None
    BY Constants, CurrentStepType DEF Result
  <2> QED BY <1>4, <2>1, <2>2, <2>3
<1>11. CASE Close(c) \/ Journal(c)
  <2>1. job[c].attempt \in Attempt /\ AnswerOf(c) # None /\ at[c] \in {"journaling", "closing"}
    BY <1>3, <1>11, Constants DEF Close, Journal, JobInv, Attending, AnswerOf, Result, Job
  <2>2. CASE Close(c)
    BY <1>4, <2>1, <2>2 DEF Close
  <2>3. CASE Journal(c)
    <3>1. attempt' = [attempt EXCEPT ![job[c].attempt].result = AnswerOf(c)]
      BY <1>6, <2>3, Zenon DEF Journal
    <3>2. /\ attempt'[a].status = attempt[a].status
          /\ attempt'[a].result # attempt[a].result =>
               a = job[c].attempt /\ attempt'[a].result = AnswerOf(c)
      BY <1>1, <3>1 DEF ReportTypeOK, AttemptRow
    <3> QED BY <2>1, <3>2
  <2> QED BY <1>11, <2>2, <2>3
<1>12. CASE Advance(c) \/ WriteCheckpoint(c)
  <2>1. CASE Advance(c)
    <3>1. \/ attempt' = attempt
          \/ attempt' = [attempt EXCEPT ![job[c].attempt].revision = job[c].base + 1]
      BY <2>1, Zenon DEF Advance
    <3> QED BY <1>6, <3>1
  <2>2. CASE WriteCheckpoint(c)
    BY <1>6, <2>2 DEF WriteCheckpoint
  <2> QED BY <1>12, <2>1, <2>2
<1>13. CASE \/ Acquire(c) \/ Observe(c) \/ ProofRefused(c) \/ Prove(c) \/ SettleRead(c)
            \/ Mark(c) \/ Verdict(c) \/ Unlock(c) \/ Finalize(c)
  BY <1>6, <1>13, Zenon DEF Acquire, Observe, ProofRefused, Prove, SettleRead, Mark, Verdict,
     Unlock, Finalize, Refuse, ledger
<1> QED BY <1>2, <1>7, <1>8, <1>9, <1>10, <1>11, <1>12, <1>13 DEF Work

(* A result says passed only of a step that has. *)
LEMMA ResultsStep ==
  ASSUME IInv, OrderInv, Exclusive, [Next]_vars
  PROVE  ResultsInv'
<1> SUFFICES ASSUME NEW a \in Attempt, attempt'[a].result # None,
                    attempt'[a].result.verdict = "passed"
             PROVE  step'[attempt'[a].step].state = "passed"
  BY DEF ResultsInv
<1>1. CASE attempt'[a].result = attempt[a].result
  <2>1. attempt[a].status # "none" /\ step[attempt[a].step].state = "passed"
    BY <1>1, BoundRow DEF IInv, RowsInv, OrderInv, ResultsInv
  <2>2. attempt'[a].step = attempt[a].step /\ attempt[a].step \in Step
    BY <2>1, GrowStep, Constants DEF Grows, IInv, ReportTypeOK, RowsInv, AttemptRow, Step
  <2> QED BY <2>1, <2>2, PassedKept
<1>2. CASE attempt'[a].result # attempt[a].result
  <2>1. PICK c \in Command : /\ at[c] \in {"journaling", "closing"} /\ a = job[c].attempt
                             /\ attempt'[a].result = AnswerOf(c)
    BY <1>2, ResultGiven
  <2>2. /\ job[c].step # 0 /\ job[c].step \in 0..Steps
        /\ attempt[a].status # "none" /\ attempt[a].step = job[c].step
    BY <2>1 DEF IInv, JobInv, Attending, ReportTypeOK, Job
  <2>3. job[c].passed
    BY <2>1 DEF AnswerOf
  <2>4. step[job[c].step].state = "passed"
    BY <2>1, <2>2, <2>3 DEF OrderInv, PositionInv
  <2>5. attempt'[a].step = job[c].step /\ job[c].step \in Step
    BY <2>2, GrowStep, Constants DEF Grows, Step
  <2> QED BY <2>4, <2>5, PassedKept
<1> QED BY <1>1, <1>2

LEMMA OrderInit == Init => OrderInv
BY DEF Init, OrderInv, LeaseInv, AttemptedInv, ResultsInv, PositionInv, NoAttempt, NoJob,
   Holding

LEMMA OrderStep == IInv /\ OrderInv /\ [Next]_vars => OrderInv'
BY LeaseStep, AttemptedStep, ResultsStep, PositionStep, ExclusiveBefore DEF OrderInv

LEMMA OrderInvariant == Spec => []OrderInv
BY OrderInit, OrderStep, Invariant, PTL DEF Spec

(* Whatever is repeated, recovered or reopened, and wherever a process dies:  *)
(* while no lease runs out under a live command, a passed step stays passed.  *)
THEOREM PassedStaysCorrect == Spec => PassedStays
<1>1. IInv /\ OrderInv /\ [Next]_vars =>
        [\A s \in Step : Exclusive /\ step[s].state = "passed" =>
                           step'[s].state = "passed"]_vars
  BY PassedKept
<1> QED BY <1>1, Invariant, OrderInvariant, PTL DEF Spec, PassedStays

(* An attempt is finished as passed only when its step is. *)
THEOREM FinishedAgreesCorrect == Spec => FinishedAgrees
<1>1. IInv /\ OrderInv /\ [Next]_vars =>
        [\A a \in Attempt :
           (Exclusive /\ attempt[a].status # "passed" /\ attempt'[a].status = "passed") =>
             step'[attempt[a].step].state = "passed"]_vars
  <2> SUFFICES ASSUME IInv, OrderInv, [Next]_vars, NEW a \in Attempt, Exclusive,
                      attempt[a].status # "passed", attempt'[a].status = "passed"
               PROVE  step'[attempt[a].step].state = "passed"
    OBVIOUS
  <2>1. attempt'[a].result # None /\ attempt'[a].result.verdict = "passed"
    BY ResultGiven
  <2>2. step'[attempt'[a].step].state = "passed"
    BY <2>1, ResultsStep DEF ResultsInv
  <2>3. attempt[a].status # "none"
    <3>1. attempt[a].status = "none" => attempt'[a].status # "passed"
      BY RowsChange DEF RowChange, Opened, Kept
    <3> QED BY <3>1
  <2> QED BY <2>2, <2>3, GrowStep DEF Grows
<1> QED BY <1>1, Invariant, OrderInvariant, PTL DEF Spec, FinishedAgrees

-----------------------------------------------------------------------------
(* The plan, as long as nobody died between a step's passing and the          *)
(* unlocking: what left `planned' had passed all it depends on; what may      *)
(* leave it waits for a command that is about to unlock it; and no report is  *)
(* resolved to a step that is still planned.                                  *)
Unbroken == Exclusive /\ ~faults.stranded

PlanInv ==
  Unbroken =>
    /\ \A s \in Step : step[s].state # "planned" => Satisfied(s)
    /\ \A s \in Step : (step[s].state = "planned" /\ Satisfied(s)) =>
         \E c \in Command : at[c] = "unlocking"
    /\ \A c \in Command : (at[c] \in {"resolved", "observed"} /\ job[c].step # 0) =>
         step[job[c].step].state # "planned"

LEMMA UnbrokenBefore ==
  ASSUME IInv, [Next]_vars, Unbroken'
  PROVE  Unbroken /\ ~Expire /\ \A c \in Command : Crash(c) => at[c] # "unlocking"
<1>1. faults' = faults \/ Expire \/ Edit \/ \E c \in Command : Crash(c)
  BY FaultsStep
<1>2. faults \in Faults /\ Exclusive /\ ~Expire
  BY ExclusiveBefore DEF IInv, ReportTypeOK, Unbroken, Faults
<1>3. Edit => faults'.stranded = faults.stranded
  BY <1>2 DEF Edit, Faults
<1>4. \A c \in Command : Crash(c) =>
        faults'.stranded = (faults.stranded \/ at[c] = "unlocking")
  BY <1>2 DEF Crash, Faults
<1> QED BY <1>1, <1>2, <1>3, <1>4 DEF Unbroken

(* What a step depends on stays passed. *)
LEMMA SatisfiedKept ==
  ASSUME IInv, OrderInv, Exclusive, [Next]_vars, NEW s \in Step, Satisfied(s)
  PROVE  Satisfied(s)'
<1>1. Needs[s] \subseteq Step
  BY Constants
<1> QED BY <1>1, PassedKept DEF Satisfied

(* With a plan in order some step is current until the run is through, or a    *)
(* command is about to unlock one.                                             *)
LEMMA SomeStepCurrent ==
  ASSUME IInv, PlanInv, Unbroken, PlanIsOrdered, CurrentStep = 0,
         NEW s \in Step, step[s].state # "passed"
  PROVE  \E c \in Command : at[c] = "unlocking"
<1> DEFINE Left == {t \in Step : step[t].state # "passed"}
<1>1. PICK t \in Left : \A u \in Left : t <= u
  <2>1. Left \in SUBSET Nat /\ Left # {}
    BY Constants DEF Step
  <2> HIDE DEF Left
  <2> QED BY <2>1, Least
<1>2. Satisfied(t)
  <2> SUFFICES ASSUME NEW d \in Needs[t] PROVE step[d].state = "passed"
    BY DEF Satisfied
  <2>1. d \in Step /\ t \in Step /\ d < t
    BY Constants DEF PlanIsOrdered
  <2> QED BY <1>1, <2>1, Constants DEF Step
<1>3. UnderWay = {} /\ Executable = {}
  <2>1. UnderWay \in SUBSET (1..Steps) /\ Executable \in SUBSET (1..Steps)
    BY DEF UnderWay, Executable, Step
  <2>2. \A S \in SUBSET (1..Steps) : First(S) = 0 => S = {}
    <3> SUFFICES ASSUME NEW S \in SUBSET (1..Steps), S # {} PROVE First(S) # 0
      OBVIOUS
    <3> QED BY FirstOrNone, Constants
  <2> QED BY <2>1, <2>2 DEF CurrentStep
<1>4. step[t].state = "planned"
  BY <1>2, <1>3 DEF UnderWay, Executable, IInv, ReportTypeOK, StepRow
<1> QED BY <1>2, <1>4 DEF PlanInv

LEMMA TargetNotPlanned ==
  ASSUME IInv, OrderInv, PlanInv, Unbroken, PlanIsOrdered,
         NEW c \in Command, at[c] = "leased", NEW r \in Report, NEW s \in Targets(r), s # 0
  PROVE  step[s].state # "planned"
<1>1. s \in Step /\ (CurrentStep = s \/ Answerable(s) \/ Reopens(s))
  BY CurrentStepType, Constants DEF Targets, Step
<1>2. CASE CurrentStep = s
  <2>1. UnderWay \in SUBSET (1..Steps) /\ Executable \in SUBSET (1..Steps)
    BY DEF UnderWay, Executable, Step
  <2>2. s \in UnderWay \cup Executable
    BY <1>2, <2>1, FirstOrNone, Constants DEF CurrentStep
  <2> QED BY <2>2 DEF UnderWay, Executable
<1>3. CASE Reopens(s)
  BY <1>3 DEF Reopens
<1>4. CASE OpenAttempt(s) # 0
  BY <1>1, <1>4, OpenAttemptIs DEF OrderInv, AttemptedInv
<1>5. CASE CurrentStep = 0
  <2> SUFFICES ASSUME step[s].state = "planned" PROVE FALSE
    OBVIOUS
  <2>1. PICK d \in Command : at[d] = "unlocking"
    BY <1>1, <1>5, SomeStepCurrent
  <2>2. lease = c /\ lease = d
    BY <2>1 DEF Unbroken, OrderInv, LeaseInv, Holding, Places
  <2> QED BY <2>1, <2>2
<1> QED BY <1>1, <1>2, <1>3, <1>4, <1>5 DEF Answerable

LEMMA PlanInit == Init => PlanInv
<1> SUFFICES ASSUME Init PROVE PlanInv
  OBVIOUS
<1>1. \A s \in Step : step[s].state = IF Needs[s] = {} THEN "ready" ELSE "planned"
  BY DEF Init
<1>2. \A s \in Step : Satisfied(s) <=> Needs[s] = {}
  BY <1>1, Constants DEF Satisfied
<1>3. \A c \in Command : at[c] = "idle"
  BY DEF Init
<1> QED BY <1>1, <1>2, <1>3 DEF PlanInv

LEMMA LeftPlanned ==
  ASSUME IInv, OrderInv, PlanInv, Unbroken, [Next]_vars, NEW s \in Step,
         step[s].state = "planned", step'[s].state # "planned"
  PROVE  Satisfied(s)
<1>1. PICK c \in Command : /\ Open(c) \/ Mark(c) \/ Verdict(c) \/ Unlock(c)
                           /\ step' # step
                           /\ ~Unlock(c) => job[c].step \in Step
  BY StepTouched
<1>2. CASE Unlock(c)
  BY <1>2, StepUnlocked
<1>3. CASE Open(c)
  <2>1. s = job[c].step
    BY <1>1, <1>3, StepOpened
  <2>2. at[c] = "observed"
    BY <1>3 DEF Open
  <2> QED BY <2>1, <2>2, <1>1, Constants DEF PlanInv, Step
<1>4. CASE Mark(c) \/ Verdict(c)
  <2>1. s = job[c].step
    BY <1>4, StepMarked, StepJudged
  <2>2. at[c] \in {"marking", "marked"} /\ JobInv(c)
    BY <1>4 DEF Mark, Verdict, IInv
  <2>3. job[c].attempt \in Attempt /\ attempt[job[c].attempt].status # "none"
          /\ attempt[job[c].attempt].step = s
    BY <2>1, <2>2 DEF JobInv, Attending
  <2> QED BY <2>3 DEF OrderInv, AttemptedInv
<1> QED BY <1>1, <1>2, <1>3, <1>4

LEMMA PlanStep == PlanIsOrdered /\ IInv /\ OrderInv /\ PlanInv /\ [Next]_vars => PlanInv'
<1> SUFFICES ASSUME PlanIsOrdered, IInv, OrderInv, PlanInv, [Next]_vars, Unbroken'
             PROVE  /\ \A s \in Step : step'[s].state # "planned" => Satisfied(s)'
                    /\ \A s \in Step : (step'[s].state = "planned" /\ Satisfied(s)') =>
                         \E c \in Command : at'[c] = "unlocking"
                    /\ \A c \in Command :
                         (at'[c] \in {"resolved", "observed"} /\ job'[c].step # 0) =>
                           step'[job'[c].step].state # "planned"
  BY DEF PlanInv
<1>0. /\ Unbroken /\ Exclusive /\ ~Expire /\ ReportTypeOK
      /\ \A c \in Command : Crash(c) => at[c] # "unlocking"
  BY UnbrokenBefore DEF Unbroken, IInv
<1>1. ASSUME NEW s \in Step, step'[s].state # "planned"
      PROVE  Satisfied(s)'
  BY <1>0, <1>1, LeftPlanned, SatisfiedKept DEF PlanInv
<1>2. ASSUME NEW s \in Step, step'[s].state = "planned", Satisfied(s)'
      PROVE  \E c \in Command : at'[c] = "unlocking"
  <2>1. step[s].state = "planned"
    BY <1>2, NeverReplanned
  <2>2. CASE Satisfied(s)
    <3>1. PICK c \in Command : at[c] = "unlocking"
      BY <1>0, <2>1, <2>2 DEF PlanInv
    <3>2. CASE Unlock(c)
      BY <1>2, <2>1, <2>2, <3>2, StepUnlocked
    <3>3. CASE ~Unlock(c)
      <4>1. ~Work(c)
        BY <3>1, <3>3 DEF Work, Inspect, Acquire, Resolve, Observe, Open, Bind, Advance,
           RejectEarly, ProofRefused, Prove, WriteCheckpoint, SettleRead, Mark, Verdict,
           Finalize, Journal, Close
      <4>2. ~Crash(c) /\ ~(\E r \in Report, k \in Attempt \cup {0} : Send(c, r, k))
        BY <1>0, <3>1 DEF Send
      <4>3. CASE UNCHANGED vars \/ Edit
        BY <3>1, <4>3 DEF vars, Edit
      <4>4. ASSUME NEW d \in Command \ {c},
                   \/ Work(d) \/ Crash(d)
                   \/ \E r \in Report, k \in Attempt \cup {0} : Send(d, r, k)
            PROVE  at'[c] = "unlocking"
        BY <1>0, <3>1, <4>4, OthersRest
      <4> QED BY <1>0, <4>1, <4>2, <4>3, <4>4 DEF Next
    <3> QED BY <3>2, <3>3
  <2>3. CASE ~Satisfied(s)
    <3>1. PICK d \in Needs[s] : step[d].state # "passed" /\ step'[d].state = "passed"
      BY <1>2, <2>3 DEF Satisfied
    <3>2. d \in Step
      BY Constants
    <3>3. PICK c \in Command : Verdict(c) /\ job[c].passed
      BY <3>1, <3>2, PassedBy
    <3> QED BY <1>0, <3>3 DEF Verdict, Go, ReportTypeOK
  <2> QED BY <2>2, <2>3
<1>3. ASSUME NEW c \in Command, at'[c] \in {"resolved", "observed"}, job'[c].step # 0
      PROVE  step'[job'[c].step].state # "planned"
  <2>0. job[c] \in Job /\ job[c].step \in 0..Steps /\ JobInv(c)
    BY DEF IInv, ReportTypeOK, Job
  <2>1. CASE at[c] \in {"resolved", "observed"} /\ job'[c].step = job[c].step
    <3>1. step[job[c].step].state # "planned" /\ job[c].step \in Step
      BY <1>0, <1>3, <2>0, <2>1, Constants DEF PlanInv, Step
    <3> QED BY <2>1, <3>1, NeverReplanned
  <2>2. CASE Resolve(c)
    <3>1. at'[c] = "resolved" /\ at[c] = "leased"
      <4>1. Leave(c) \/ Go(c, "settling") \/ Go(c, "resolved")
        BY <2>2, Zenon DEF Resolve, Refuse, Replay
      <4>2. at'[c] \in {"idle", "settling", "resolved"}
        BY <1>0, <4>1 DEF Leave, Go, ReportTypeOK
      <4> QED BY <1>3, <2>2, <4>2 DEF Resolve
    <3>2. PICK s \in Targets(job[c].report) :
            /\ job' = [job EXCEPT ![c].step = s, ![c].base = revision, ![c].content = tree]
            /\ UNCHANGED ledger
      <4>1. ~Leave(c) /\ ~Go(c, "settling")
        BY <1>0, <3>1 DEF Leave, Go, ReportTypeOK
      <4> QED BY <2>2, <4>1, Zenon DEF Resolve, Refuse, Replay
    <3>3. job[c].report \in Report
      BY <2>0, <3>1 DEF JobInv, Job
    <3>4. job'[c].step = s
      BY <1>0, <2>0, <3>2 DEF ReportTypeOK, Job
    <3>5. step[s].state # "planned"
      BY <1>0, <1>3, <3>1, <3>3, <3>4, TargetNotPlanned
    <3> QED BY <3>2, <3>4, <3>5 DEF ledger
  <2>3. CASE Observe(c)
    <3>1. at[c] = "resolved" /\ job'[c].step = job[c].step
      BY <1>0, <2>0, <2>3 DEF Observe, ReportTypeOK, Job
    <3> QED BY <2>1, <3>1
  <2>4. CASE \/ Inspect(c) \/ Acquire(c) \/ Open(c) \/ Bind(c) \/ Advance(c)
             \/ RejectEarly(c) \/ ProofRefused(c) \/ Prove(c) \/ WriteCheckpoint(c)
             \/ SettleRead(c) \/ Mark(c) \/ Verdict(c) \/ Unlock(c) \/ Finalize(c)
             \/ Journal(c) \/ Close(c) \/ Crash(c)
             \/ \E r \in Report, k \in Attempt \cup {0} : Send(c, r, k)
    <3>1. \E where \in Places \ {"resolved", "observed"} : at' = [at EXCEPT ![c] = where]
      BY <2>4, Zenon DEF Inspect, Acquire, Open, Bind, Advance, RejectEarly, ProofRefused,
         Prove, WriteCheckpoint, SettleRead, Mark, Verdict, Unlock, Finalize, Journal,
         Close, Crash, Send, Refuse, Replay, Leave, Go, Places
    <3> QED BY <1>0, <1>3, <3>1 DEF ReportTypeOK
  <2>5. CASE UNCHANGED vars \/ Edit
    BY <1>3, <2>1, <2>5 DEF vars, Edit
  <2>6. ASSUME NEW d \in Command \ {c},
               \/ Work(d) \/ Crash(d)
               \/ \E r \in Report, k \in Attempt \cup {0} : Send(d, r, k)
        PROVE  step'[job'[c].step].state # "planned"
    BY <1>0, <1>3, <2>1, <2>6, OthersRest
  <2> QED BY <1>0, <2>2, <2>3, <2>4, <2>5, <2>6 DEF Next, Work
<1> QED BY <1>1, <1>2, <1>3

(* Under a plan in order, no step is made ready, attempted or settled before  *)
(* all it depends on has passed, while no lease runs out under a live command *)
(* and none dies between a step's passing and the unlocking.                  *)
THEOREM PlanFollowed == PlanIsOrdered => (Spec => []WorkFollowsPlan)
<1> SUFFICES ASSUME PlanIsOrdered PROVE Spec => []WorkFollowsPlan
  OBVIOUS
<1>1. Init => PlanInv
  BY PlanInit
<1>2. IInv /\ OrderInv /\ PlanInv /\ [Next]_vars => PlanInv'
  BY PlanStep
<1>3. PlanInv => WorkFollowsPlan
  BY Constants DEF PlanInv, WorkFollowsPlan, Unbroken, Satisfied
<1> QED BY <1>1, <1>2, <1>3, Invariant, OrderInvariant, PTL DEF Spec

=============================================================================
