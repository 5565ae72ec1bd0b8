-------------------------- MODULE StepClaims_proofs --------------------------
(***************************************************************************)
(* Proofs about StepClaims: types, that a patch is applied to the revision *)
(* it was made on, that two workers are never at one step, and that what   *)
(* passed stays passed with a delivered result, for any number of Hosts,   *)
(* steps, attempts, blocks and crashes.                                    *)
(***************************************************************************)
EXTENDS StepClaims, WellFoundedInduction, TLAPS

(* What First and Last return: the CHOOSEs have something to choose. *)

LEMMA LessIsWellFounded == IsWellFoundedOn({p \in Nat \X Nat : p[1] < p[2]}, Nat)
BY NatLessThanWellFounded DEF OpToRel

LEMMA Least ==
  ASSUME NEW S \in SUBSET Nat, S # {}
  PROVE  \E n \in S : \A m \in S : n <= m
<1> DEFINE R == {p \in Nat \X Nat : p[1] < p[2]}
<1>1. IsWellFoundedOn(R, Nat)
  BY LessIsWellFounded
<1>2. PICK n \in S : \A m \in S : ~(<<m, n>> \in R)
  <2> HIDE DEF R
  <2> QED BY <1>1, WFMin
<1>3. \A m \in S : ~(m < n)
  BY <1>2
<1> QED BY <1>3

LEMMA Greatest ==
  ASSUME NEW k \in Nat, NEW S \in SUBSET (1..k), S # {}
  PROVE  \E n \in S : \A m \in S : m <= n
<1> DEFINE T == {k - n : n \in S}
<1>1. T \in SUBSET Nat
  OBVIOUS
<1>2. T # {}
  <2>1. PICK n \in S : TRUE
    OBVIOUS
  <2>2. k - n \in T
    BY <2>1
  <2> QED BY <2>2
<1>3. PICK t \in T : \A u \in T : t <= u
  <2> HIDE DEF T
  <2> QED BY <1>1, <1>2, Least
<1>4. PICK n \in S : t = k - n
  BY <1>3
<1> SUFFICES ASSUME NEW m \in S PROVE m <= n
  BY <1>4
<1>5. t <= k - m
  BY <1>3
<1> QED BY <1>4, <1>5

LEMMA FirstOrNone ==
  ASSUME NEW k \in Nat, NEW S \in SUBSET (1..k)
  PROVE  /\ First(S) \in S \cup {0} /\ First(S) \in 0..k
         /\ S # {} => First(S) \in S /\ \A m \in S : First(S) <= m
<1>1. CASE S = {}
  BY <1>1 DEF First
<1>2. CASE S # {}
  <2>1. \E n \in S : \A m \in S : n <= m
    BY <1>2, Least
  <2>2. First(S) = CHOOSE n \in S : \A m \in S : n <= m
    BY <1>2 DEF First
  <2>3. First(S) \in S /\ \A m \in S : First(S) <= m
    BY <2>1, <2>2
  <2>4. \A n \in S : n \in 0..k
    OBVIOUS
  <2> QED BY <1>2, <2>3, <2>4
<1> QED BY <1>1, <1>2

LEMMA LastOrNone ==
  ASSUME NEW k \in Nat, NEW S \in SUBSET (1..k)
  PROVE  /\ Last(S) \in S \cup {0} /\ Last(S) \in 0..k
         /\ S # {} => Last(S) \in S /\ \A m \in S : m <= Last(S)
<1>1. CASE S = {}
  BY <1>1 DEF Last
<1>2. CASE S # {}
  <2>1. \E n \in S : \A m \in S : m <= n
    BY <1>2, Greatest
  <2>2. Last(S) = CHOOSE n \in S : \A m \in S : m <= n
    BY <1>2 DEF Last
  <2>3. Last(S) \in S /\ \A m \in S : m <= Last(S)
    BY <2>1, <2>2
  <2>4. \A n \in S : n \in 0..k
    OBVIOUS
  <2> QED BY <1>2, <2>3, <2>4
<1> QED BY <1>1, <1>2

-----------------------------------------------------------------------------

LEMMA Constants ==
  /\ Steps \in Nat /\ Width \in Nat /\ MaxAttempts \in Nat
  /\ MaxRevision \in Nat /\ MaxFaults \in Nat
BY ClaimsAssumption

-----------------------------------------------------------------------------
(* The lookups. *)

LEMMA LatestIs ==
  ASSUME NEW s \in Step
  PROVE  /\ Latest(s) \in Attempt \cup {0}
         /\ Latest(s) # 0 => attempt[Latest(s)].step = s
         /\ \A a \in Attempt : attempt[a].step = s => Latest(s) # 0 /\ a <= Latest(s)
<1> DEFINE S == {a \in Attempt : attempt[a].step = s}
<1>1. S \in SUBSET (1..MaxAttempts)
  BY DEF Attempt
<1>2. /\ Last(S) \in S \cup {0}
      /\ S # {} => Last(S) \in S /\ \A m \in S : m <= Last(S)
  <2> HIDE DEF S
  <2> QED BY <1>1, LastOrNone, Constants
<1>3. 0 \notin S
  BY <1>1
<1>4. Latest(s) = Last(S)
  BY DEF Latest
<1> QED BY <1>2, <1>3, <1>4

LEMMA ToFailIs ==
  ASSUME NEW s \in Step
  PROVE  /\ ToFail(s) \in Attempt \cup {0}
         /\ ToFail(s) # 0 => attempt[ToFail(s)].step = s
<1> DEFINE S == {a \in Attempt : attempt[a].step = s /\ attempt[a].status = "started"}
<1>1. S \in SUBSET (1..MaxAttempts)
  BY DEF Attempt
<1>2. Last(S) \in S \cup {0}
  <2> HIDE DEF S
  <2> QED BY <1>1, LastOrNone, Constants
<1>3. OpenAttempt(s) = Last(S)
  BY DEF OpenAttempt
<1> QED BY <1>2, <1>3, LatestIs DEF ToFail

LEMMA UnusedIs ==
  ASSUME Unused # {}
  PROVE  /\ First(Unused) \in Attempt
         /\ attempt[First(Unused)].status = "none"
         /\ \A a \in Attempt : attempt[a].status = "none" => First(Unused) <= a
<1>1. Unused \in SUBSET (1..MaxAttempts)
  BY DEF Unused, Attempt
<1>2. First(Unused) \in Unused /\ \A a \in Unused : First(Unused) <= a
  BY <1>1, FirstOrNone, Constants
<1> QED BY <1>2 DEF Unused

LEMMA ClosingIs ==
  ASSUME NEW h, \E s \in Step : job[h].outcome[s] \in {"settled", "rejected"}
  PROVE  Closing(h) \in Step /\ job[h].outcome[Closing(h)] \in {"settled", "rejected"}
<1> DEFINE S == {s \in Step : job[h].outcome[s] \in {"settled", "rejected"}}
<1>1. S \in SUBSET (1..Steps) /\ S # {}
  BY DEF Step
<1>2. Last(S) \in S
  <2> HIDE DEF S
  <2> QED BY <1>1, LastOrNone, Constants
<1>3. Closing(h) = Last(S)
  BY DEF Closing
<1> QED BY <1>2, <1>3

-----------------------------------------------------------------------------
(* What an action does to the job of its Host: the row of one step changes,    *)
(* or the whole job is put away.                                               *)

Sets(h, s, place, outcome, mine) ==
  job' = [job EXCEPT ![h] =
    [job[h] EXCEPT !.at = place, !.outcome[s] = outcome, !.mine[s] = mine]]

LEMMA SetsIs ==
  ASSUME ClaimsTypeOK, NEW h \in Host, NEW s \in Step,
         NEW place \in {"idle", "dispatching", "settling", "proving", "closing"},
         NEW outcome \in Outcomes, NEW mine \in Attempt \cup {0},
         Sets(h, s, place, outcome, mine)
  PROVE  /\ job' \in [Host -> Job]
         /\ \A g \in Host \ {h} : job'[g] = job[g]
         /\ job'[h].at = place
         /\ job'[h].snapshot = job[h].snapshot
         /\ job'[h].outcome[s] = outcome /\ job'[h].mine[s] = mine
         /\ \A t \in Step \ {s} : job'[h].outcome[t] = job[h].outcome[t]
                                  /\ job'[h].mine[t] = job[h].mine[t]
<1> DEFINE j == job[h]
           k == [j EXCEPT !.at = place, !.outcome[s] = outcome, !.mine[s] = mine]
<1>1. j \in Job /\ job \in [Host -> Job]
  BY DEF ClaimsTypeOK
<1>2. job' = [job EXCEPT ![h] = k]
  BY DEF Sets
<1>3. /\ k \in Job /\ k.at = place /\ k.snapshot = j.snapshot
      /\ k.outcome = [j.outcome EXCEPT ![s] = outcome]
      /\ k.mine = [j.mine EXCEPT ![s] = mine]
  <2> HIDE DEF j
  <2> QED BY <1>1 DEF Job
<1>4. j.outcome \in [Step -> Outcomes] /\ j.mine \in [Step -> Attempt \cup {0}]
  BY <1>1 DEF Job
<1>5. job' \in [Host -> Job] /\ job'[h] = k /\ \A g \in Host \ {h} : job'[g] = job[g]
  <2> HIDE DEF k, j
  <2> QED BY <1>1, <1>2, <1>3
<1> HIDE DEF k
<1> QED BY <1>3, <1>4, <1>5

(* The steps of a Host, told by what they write.                               *)
Moves(h, place) == job' = [job EXCEPT ![h].at = place]

LEMMA MovesIs ==
  ASSUME ClaimsTypeOK, NEW h \in Host,
         NEW place \in {"idle", "dispatching", "settling", "proving", "closing"},
         Moves(h, place)
  PROVE  /\ job' \in [Host -> Job]
         /\ \A g \in Host \ {h} : job'[g] = job[g]
         /\ job'[h].at = place
         /\ job'[h].snapshot = job[h].snapshot
         /\ job'[h].outcome = job[h].outcome /\ job'[h].mine = job[h].mine
<1> DEFINE j == job[h]
           k == [j EXCEPT !.at = place]
<1>1. j \in Job /\ job \in [Host -> Job]
  BY DEF ClaimsTypeOK
<1>2. job' = [job EXCEPT ![h] = k]
  BY DEF Moves
<1>3. /\ k \in Job /\ k.at = place /\ k.snapshot = j.snapshot
      /\ k.outcome = j.outcome /\ k.mine = j.mine
  <2> HIDE DEF j
  <2> QED BY <1>1 DEF Job
<1>4. job' \in [Host -> Job] /\ job'[h] = k /\ \A g \in Host \ {h} : job'[g] = job[g]
  <2> HIDE DEF k, j
  <2> QED BY <1>1, <1>2, <1>3
<1> HIDE DEF k
<1> QED BY <1>3, <1>4

LEMMA NowSets ==
  ASSUME ClaimsTypeOK, NEW h \in Host, NEW s \in Step, NEW outcome, Now(h, s, outcome)
  PROVE  Sets(h, s, job[h].at, outcome, job[h].mine[s])
<1> DEFINE j == job[h]
<1>1. j \in Job /\ job \in [Host -> Job]
  BY DEF ClaimsTypeOK
<1>2. job' = [job EXCEPT ![h] = [j EXCEPT !.outcome[s] = outcome]]
  BY DEF Now
<1>3. [j EXCEPT !.outcome[s] = outcome]
        = [j EXCEPT !.at = j.at, !.outcome[s] = outcome, !.mine[s] = j.mine[s]]
  <2> HIDE DEF j
  <2>1. j.mine \in [Step -> Attempt \cup {0}]
    BY <1>1 DEF Job
  <2>2. [j.mine EXCEPT ![s] = j.mine[s]] = j.mine
    BY <2>1
  <2> QED BY <1>1, <2>2 DEF Job
<1> QED BY <1>2, <1>3 DEF Sets

LEMMA LetsSets ==
  ASSUME ClaimsTypeOK, NEW h \in Host, NEW s \in Step, NEW outcome, Lets(h, s, outcome)
  PROVE  Sets(h, s, job[h].at, outcome, 0)
<1> DEFINE j == job[h]
<1>1. j \in Job /\ job \in [Host -> Job]
  BY DEF ClaimsTypeOK
<1>2. job' = [job EXCEPT ![h] = [j EXCEPT !.outcome[s] = outcome, !.mine[s] = 0]]
  BY DEF Lets
<1>3. [j EXCEPT !.outcome[s] = outcome, !.mine[s] = 0]
        = [j EXCEPT !.at = j.at, !.outcome[s] = outcome, !.mine[s] = 0]
  <2> HIDE DEF j
  <2> QED BY <1>1 DEF Job
<1> QED BY <1>2, <1>3 DEF Sets

-----------------------------------------------------------------------------
(* What the writes to the tables do. *)

RowsKept ==
  \A a \in Attempt : /\ attempt'[a].step = attempt[a].step
                     /\ attempt'[a].revision = attempt[a].revision

LEMMA FailIs ==
  ASSUME ClaimsTypeOK, NEW h \in Host, NEW s \in Step, NEW told \in BOOLEAN,
         FailStepAttempt(h, s, told)
  PROVE  /\ step' \in [Step -> StepRow] /\ attempt' \in [Attempt -> AttemptRow]
         /\ trespass' \in BOOLEAN
         /\ RowsKept
         /\ \A a \in Attempt :
              attempt'[a].status = IF a = ToFail(s) THEN "failed" ELSE attempt[a].status
         /\ step'[s].state = "failed" /\ step'[s].result = step[s].result
         /\ \A t \in Step \ {s} : step'[t] = step[t]
         /\ ~trespass' => ~trespass /\ (told \/ ~Others(h, s))
<1>1. step \in [Step -> StepRow] /\ attempt \in [Attempt -> AttemptRow] /\ trespass \in BOOLEAN
  BY DEF ClaimsTypeOK
<1>2. /\ attempt' = [b \in Attempt |-> IF b = ToFail(s)
                       THEN [attempt[b] EXCEPT !.status = "failed"] ELSE attempt[b]]
      /\ step' = [step EXCEPT ![s].state = "failed"]
      /\ trespass' = (trespass \/ (~told /\ Others(h, s)))
  BY Zenon DEF FailStepAttempt
<1>3. attempt' \in [Attempt -> AttemptRow] /\ RowsKept
  BY <1>1, <1>2 DEF AttemptRow, RowsKept
<1>4. \A a \in Attempt :
        attempt'[a].status = IF a = ToFail(s) THEN "failed" ELSE attempt[a].status
  BY <1>1, <1>2 DEF AttemptRow
<1>5. /\ step' \in [Step -> StepRow] /\ step'[s].state = "failed"
      /\ step'[s].result = step[s].result
      /\ \A t \in Step \ {s} : step'[t] = step[t]
  BY <1>1, <1>2 DEF StepRow
<1>6. Others(h, s) \in BOOLEAN
  BY DEF Others
<1>7. trespass' \in BOOLEAN /\ (~trespass' => ~trespass /\ (told \/ ~Others(h, s)))
  BY <1>1, <1>2, <1>6
<1> QED BY <1>3, <1>4, <1>5, <1>7

(* A claim that succeeds. *)
Claimed(h, s) ==
  LET a == First(Unused) IN
    /\ At(h, s, "todo")
    /\ Active /\ Claimable(s) /\ Unused # {}
    /\ step' = [step EXCEPT ![s].state = "running"]
    /\ attempt' = [attempt EXCEPT ![a] =
         [step |-> s, revision |-> run.revision, status |-> "started"]]
    /\ Sets(h, s, "dispatching", "working", a)
    /\ UNCHANGED <<run, delivered, trespass, faults>>

(* One that does not. *)
Refused(h, s) ==
  /\ At(h, s, "todo")
  /\ \E outcome \in {"stale", "taken"} : Sets(h, s, "dispatching", outcome, job[h].mine[s])
  /\ UNCHANGED <<step, attempt, run, delivered, trespass, faults>>

LEMMA ClaimCases ==
  ASSUME ClaimsTypeOK, NEW h \in Host, NEW s \in Step, Claim(h, s)
  PROVE  Claimed(h, s) \/ Refused(h, s)
<1>1. job[h].at = "dispatching" /\ At(h, s, "todo")
  BY DEF Claim, At
<1>2. PICK seen \in job[h].snapshot..run.revision :
        \/ /\ Now(h, s, "stale") \/ Now(h, s, "taken")
           /\ UNCHANGED <<step, attempt>>
        \/ /\ Active /\ seen = run.revision /\ Claimable(s) /\ Unused # {}
           /\ step' = [step EXCEPT ![s].state = "running"]
           /\ attempt' = [attempt EXCEPT ![First(Unused)] =
                [step |-> s, revision |-> seen, status |-> "started"]]
           /\ job' = [job EXCEPT ![h].outcome[s] = "working",
                                 ![h].mine[s] = First(Unused)]
  BY Zenon DEF Claim
<1>3. UNCHANGED <<run, delivered, trespass, faults>>
  BY DEF Claim
<1>4. CASE (Now(h, s, "stale") \/ Now(h, s, "taken")) /\ UNCHANGED <<step, attempt>>
  <2>1. \E outcome \in {"stale", "taken"} :
          Sets(h, s, job[h].at, outcome, job[h].mine[s])
    BY <1>4, NowSets
  <2> QED BY <1>1, <1>3, <1>4, <2>1 DEF Refused
<1>5. CASE /\ Active /\ seen = run.revision /\ Claimable(s) /\ Unused # {}
           /\ step' = [step EXCEPT ![s].state = "running"]
           /\ attempt' = [attempt EXCEPT ![First(Unused)] =
                [step |-> s, revision |-> seen, status |-> "started"]]
           /\ job' = [job EXCEPT ![h].outcome[s] = "working",
                                 ![h].mine[s] = First(Unused)]
  <2> DEFINE j == job[h]
  <2>1. j \in Job /\ job \in [Host -> Job] /\ j.at = "dispatching"
    BY <1>1 DEF ClaimsTypeOK
  <2>2. job' = [job EXCEPT ![h] =
                 [j EXCEPT !.outcome[s] = "working", !.mine[s] = First(Unused)]]
    BY <1>5, <2>1
  <2>3. [j EXCEPT !.outcome[s] = "working", !.mine[s] = First(Unused)]
          = [j EXCEPT !.at = "dispatching", !.outcome[s] = "working",
                      !.mine[s] = First(Unused)]
    <3> HIDE DEF j
    <3> QED BY <2>1 DEF Job
  <2>4. Sets(h, s, "dispatching", "working", First(Unused))
    BY <2>2, <2>3 DEF Sets
  <2> QED BY <1>1, <1>3, <1>5, <2>4, Zenon DEF Claimed
<1> QED BY <1>2, <1>4, <1>5

LEMMA ClaimedIs ==
  ASSUME ClaimsTypeOK, NEW h \in Host, NEW s \in Step, Claimed(h, s),
         NEW a, a = First(Unused)
  PROVE  /\ a \in Attempt /\ attempt[a].status = "none"
         /\ \A b \in Attempt : attempt[b].status = "none" => a <= b
         /\ attempt' \in [Attempt -> AttemptRow]
         /\ attempt'[a] = [step |-> s, revision |-> run.revision, status |-> "started"]
         /\ \A b \in Attempt \ {a} : attempt'[b] = attempt[b]
         /\ step' \in [Step -> StepRow]
         /\ step'[s].state = "running" /\ step'[s].result = step[s].result
         /\ \A t \in Step \ {s} : step'[t] = step[t]
<1>1. /\ step \in [Step -> StepRow] /\ attempt \in [Attempt -> AttemptRow]
      /\ run.revision \in 0..MaxRevision
  BY DEF ClaimsTypeOK
<1>2. a \in Attempt /\ attempt[a].status = "none"
      /\ \A b \in Attempt : attempt[b].status = "none" => a <= b
  BY UnusedIs DEF Claimed
<1>3. /\ step' = [step EXCEPT ![s].state = "running"]
      /\ attempt' = [attempt EXCEPT ![a] =
           [step |-> s, revision |-> run.revision, status |-> "started"]]
  BY Zenon DEF Claimed
<1>4. [step |-> s, revision |-> run.revision, status |-> "started"] \in AttemptRow
  BY <1>1, Constants DEF AttemptRow, Step
<1>5. /\ attempt' \in [Attempt -> AttemptRow]
      /\ attempt'[a] = [step |-> s, revision |-> run.revision, status |-> "started"]
      /\ \A b \in Attempt \ {a} : attempt'[b] = attempt[b]
  BY <1>1, <1>2, <1>3, <1>4
<1>6. /\ step' \in [Step -> StepRow]
      /\ step'[s].state = "running" /\ step'[s].result = step[s].result
      /\ \A t \in Step \ {s} : step'[t] = step[t]
  BY <1>1, <1>3 DEF StepRow
<1> QED BY <1>2, <1>5, <1>6

LEMMA CloseIs ==
  ASSUME ClaimsTypeOK, NEW h \in Host, Close(h)
  PROVE  /\ attempt' \in [Attempt -> AttemptRow]
         /\ RowsKept
         /\ \A a \in Attempt : attempt'[a].status =
              IF a = job[h].mine[Closing(h)] THEN Status(job[h].outcome[Closing(h)])
              ELSE attempt[a].status
         /\ Moves(h, "settling")
         /\ run' \in [status : {"active", "blocked", "completed"}, revision : 0..MaxRevision]
         /\ run'.revision = run.revision
         /\ UNCHANGED <<step, delivered, trespass, faults>>
<1>1. /\ attempt \in [Attempt -> AttemptRow]
      /\ run \in [status : {"active", "blocked", "completed"}, revision : 0..MaxRevision]
  BY DEF ClaimsTypeOK
<1>2. /\ attempt' = [attempt EXCEPT ![job[h].mine[Closing(h)]].status =
                       Status(job[h].outcome[Closing(h)])]
      /\ run' = run \/ run' = [run EXCEPT !.status = "completed"]
      /\ Moves(h, "settling")
      /\ UNCHANGED <<step, delivered, trespass, faults>>
  BY Zenon DEF Close, Moves
<1> DEFINE m == job[h].mine[Closing(h)]
           st == Status(job[h].outcome[Closing(h)])
<1>3. st \in {"passed", "failed"}
  BY DEF Status
<1>4. attempt' = [attempt EXCEPT ![m].status = st]
  BY <1>2
<1>5. /\ attempt' \in [Attempt -> AttemptRow] /\ RowsKept
      /\ \A a \in Attempt : attempt'[a].status = IF a = m THEN st ELSE attempt[a].status
  <2> HIDE DEF m, st
  <2> QED BY <1>1, <1>3, <1>4 DEF AttemptRow, RowsKept
<1>6. /\ run' \in [status : {"active", "blocked", "completed"}, revision : 0..MaxRevision]
      /\ run'.revision = run.revision
  BY <1>1, <1>2
<1> QED BY <1>2, <1>5, <1>6

(* A step is settled. *)
Marked(h, s) ==
  \E passed \in BOOLEAN :
    /\ job[h].at = "proving" /\ Settles(h, s)
    /\ step[s].state # "passed"
    /\ step' = [step EXCEPT ![s].state = IF passed THEN "passed" ELSE "failed"]
    /\ Sets(h, s, "closing", IF passed THEN "settled" ELSE "rejected", job[h].mine[s])
    /\ UNCHANGED <<attempt, run, delivered, trespass, faults>>

(* A Host returns, or its process dies. *)
Ends(h) ==
  /\ job' = [job EXCEPT ![h] = NoJob]
  /\ faults' \in 0..MaxFaults
  /\ UNCHANGED <<step, attempt, run, delivered, trespass>>

LEMMA MarkCases ==
  ASSUME ClaimsTypeOK, NEW h \in Host, NEW s \in Step, Mark(h, s)
  PROVE  Marked(h, s) \/ Ends(h)
<1>1. CASE step[s].state = "passed"
  <2>1. job' = [job EXCEPT ![h] = NoJob] /\ UNCHANGED step
        /\ UNCHANGED <<attempt, run, delivered, trespass, faults>>
    BY <1>1, Zenon DEF Mark
  <2> QED BY <2>1 DEF Ends, ClaimsTypeOK
<1>2. CASE step[s].state # "passed"
  <2>1. PICK ok \in BOOLEAN :
          LET passed == ok /\ run.revision = job[h].snapshot + 1 IN
              /\ step' = [step EXCEPT ![s].state = IF passed THEN "passed" ELSE "failed"]
              /\ job' = [job EXCEPT ![h].at = "closing",
                   ![h].outcome[s] = IF passed THEN "settled" ELSE "rejected"]
    BY <1>2, Zenon DEF Mark
  <2>2. /\ job[h].at = "proving" /\ Settles(h, s)
        /\ UNCHANGED <<attempt, run, delivered, trespass, faults>>
    BY DEF Mark
  <2> DEFINE passed == ok /\ run.revision = job[h].snapshot + 1
             o == IF passed THEN "settled" ELSE "rejected"
             j == job[h]
  <2>3. passed \in BOOLEAN
    OBVIOUS
  <2>4. j \in Job /\ job \in [Host -> Job]
    BY DEF ClaimsTypeOK
  <2>5. /\ step' = [step EXCEPT ![s].state = IF passed THEN "passed" ELSE "failed"]
        /\ job' = [job EXCEPT ![h].at = "closing", ![h].outcome[s] = o]
    BY <2>1, Zenon
  <2>6. job' = [job EXCEPT ![h] = [j EXCEPT !.at = "closing", !.outcome[s] = o]]
    <3> HIDE DEF o
    <3> QED BY <2>4, <2>5
  <2>7. [j EXCEPT !.at = "closing", !.outcome[s] = o]
          = [j EXCEPT !.at = "closing", !.outcome[s] = o, !.mine[s] = j.mine[s]]
    <3> HIDE DEF j, o
    <3>1. j.mine \in [Step -> Attempt \cup {0}]
      BY <2>4 DEF Job
    <3>2. [j.mine EXCEPT ![s] = j.mine[s]] = j.mine
      BY <3>1
    <3> QED BY <2>4, <3>2 DEF Job
  <2>8. Sets(h, s, "closing", o, job[h].mine[s])
    BY <2>6, <2>7, Zenon DEF Sets
  <2> HIDE DEF passed
  <2>9. Marked(h, s)
    BY <1>2, <2>2, <2>3, <2>5, <2>8, Zenon DEF Marked
  <2> QED BY <2>9
<1> QED BY <1>1, <1>2

(* A step is left to others. *)
Yields(h, s) ==
  /\ job[h].outcome[s] \in {"todo", "taken"} /\ job[h].at # "closing"
  /\ \E outcome \in {"stale", "taken", "conflict"}, mine \in {0, job[h].mine[s]} :
       Sets(h, s, job[h].at, outcome, mine)
  /\ UNCHANGED <<step, attempt, run, delivered, trespass, faults>>

(* It is failed. *)
Fails(h, s) ==
  /\ job[h].outcome[s] \in {"stale", "working", "rejected"} /\ job[h].at # "closing"
  /\ FailStepAttempt(h, s, FALSE)
  /\ Sets(h, s, job[h].at, "dropped", 0)
  /\ UNCHANGED <<run, delivered, faults>>

(* Its result is recorded. *)
Records(h, s) ==
  /\ job[h].outcome[s] = "working" /\ job[h].at = "dispatching"
  /\ job[h].mine[s] = Latest(s)
  /\ step' = [step EXCEPT ![s].result = job[h].mine[s]]
  /\ Sets(h, s, job[h].at, "recorded", job[h].mine[s])
  /\ UNCHANGED <<attempt, run, delivered, trespass, faults>>

(* Its settlement begins, or is refused. *)
Proves(h, s) ==
  /\ job[h].at = "settling" /\ job[h].outcome[s] = "recorded"
  /\ Moves(h, "proving")
  /\ UNCHANGED <<step, attempt, run, delivered, trespass, faults>>
Rejects(h, s) ==
  /\ job[h].at = "settling" /\ job[h].outcome[s] = "recorded"
  /\ Sets(h, s, job[h].at, "rejected", job[h].mine[s])
  /\ UNCHANGED <<step, attempt, run, delivered, trespass, faults>>

(* Around the Hosts the run changes, and its revision never goes back. *)
Around ==
  /\ run' \in [status : {"active", "blocked", "completed"}, revision : 0..MaxRevision]
  /\ run'.revision >= run.revision
  /\ faults' \in 0..MaxFaults
  /\ UNCHANGED <<step, attempt, job, delivered, trespass>>

LEMMA FirstRecorded ==
  ASSUME NEW h, NEW s \in Step, Settles(h, s)
  PROVE  job[h].outcome[s] = "recorded"
<1>1. Recorded(h) \in SUBSET (1..Steps)
  BY DEF Recorded, Step
<1>2. s # 0
  BY Constants DEF Step
<1>3. s \in Recorded(h)
  BY <1>1, <1>2, FirstOrNone, Constants DEF Settles
<1> QED BY <1>3 DEF Recorded

LEMMA FirstBack ==
  ASSUME NEW h, NEW s \in Step, Gathers(h, s)
  PROVE  /\ job[h].at = "dispatching"
         /\ job[h].outcome[s] \in {"stale", "taken", "working"}
<1>1. Back(h) \in SUBSET (1..Steps) /\ Back(h) # {} /\ s = First(Back(h))
  BY DEF Back, Step, Gathers
<1>2. s \in Back(h)
  BY <1>1, FirstOrNone, Constants
<1> QED BY <1>2 DEF Back, Gathers

LEMMA GatherFailureCases ==
  ASSUME ClaimsTypeOK, NEW h \in Host, NEW s \in Step, GatherFailure(h, s)
  PROVE  Yields(h, s) \/ Fails(h, s)
<1>1. /\ job[h].at = "dispatching"
      /\ job[h].outcome[s] \in {"stale", "taken", "working"}
  BY FirstBack DEF GatherFailure
<1>2. CASE job[h].outcome[s] = "taken"
  <2>1. /\ Lets(h, s, "conflict")
        /\ UNCHANGED <<step, attempt, run, delivered, trespass, faults>>
    BY <1>2 DEF GatherFailure, Spares
  <2>2. Sets(h, s, job[h].at, "conflict", 0)
    BY <2>1, LetsSets
  <2>3. job[h].at # "closing"
    BY <1>1
  <2> QED BY <1>2, <2>1, <2>2, <2>3, Zenon DEF Yields
<1>3. CASE job[h].outcome[s] # "taken"
  <2>1. ~Spares(job[h].outcome[s]) /\ (job[h].outcome[s] = "taken") = FALSE
    BY <1>3 DEF Spares
  <2>2. /\ FailStepAttempt(h, s, FALSE)
        /\ Lets(h, s, "dropped")
        /\ UNCHANGED <<run, delivered, faults>>
    <3>1. FailStepAttempt(h, s, job[h].outcome[s] = "taken")
      BY <2>1 DEF GatherFailure
    <3>2. FailStepAttempt(h, s, FALSE)
      BY <2>1, <3>1 DEF FailStepAttempt
    <3> QED BY <2>1, <1>3, <3>2 DEF GatherFailure
  <2>3. Sets(h, s, job[h].at, "dropped", 0)
    BY <2>2, LetsSets
  <2> QED BY <1>1, <1>3, <2>2, <2>3 DEF Fails
<1> QED BY <1>2, <1>3

LEMMA GatherResultCases ==
  ASSUME ClaimsTypeOK, NEW h \in Host, NEW s \in Step, GatherResult(h, s)
  PROVE  Records(h, s) \/ Fails(h, s)
<1>1. job[h].at = "dispatching" /\ job[h].outcome[s] = "working"
  BY FirstBack DEF GatherResult
<1>2. CASE Recordable(h, s)
  <2>1. /\ step' = [step EXCEPT ![s].result = job[h].mine[s]]
        /\ Now(h, s, "recorded")
        /\ UNCHANGED <<attempt, run, delivered, trespass, faults>>
    BY <1>2 DEF GatherResult
  <2>2. Sets(h, s, job[h].at, "recorded", job[h].mine[s])
    BY <2>1, NowSets
  <2>3. job[h].mine[s] = Latest(s)
    BY <1>2 DEF Recordable
  <2> QED BY <1>1, <2>1, <2>2, <2>3 DEF Records
<1>3. CASE ~Recordable(h, s)
  <2>1. /\ FailStepAttempt(h, s, FALSE)
        /\ Lets(h, s, "dropped")
        /\ UNCHANGED <<run, delivered, faults>>
    BY <1>3 DEF GatherResult
  <2>2. Sets(h, s, job[h].at, "dropped", 0)
    BY <2>1, LetsSets
  <2> QED BY <1>1, <2>1, <2>2 DEF Fails
<1> QED BY <1>2, <1>3

(* Every step is of one of these kinds. *)
HostSteps(h) ==
  \/ \E s \in Step : \/ Claimed(h, s) \/ Yields(h, s) \/ Fails(h, s) \/ Records(h, s)
                     \/ Proves(h, s) \/ Rejects(h, s) \/ Marked(h, s)
  \/ Select(h) \/ Deliver(h) \/ Close(h) \/ Ends(h)

LEMMA Kinds ==
  ASSUME ClaimsTypeOK, Next
  PROVE  (\E h \in Host : HostSteps(h)) \/ Around
<1>1. CASE \E h \in Host : Dispatch(h)
  <2>1. PICK h \in Host : Dispatch(h)
    BY <1>1
  <2>2. ASSUME NEW s \in Step, Claim(h, s)
        PROVE  Claimed(h, s) \/ Yields(h, s)
    <3>1. Claimed(h, s) \/ Refused(h, s)
      BY <2>2, ClaimCases
    <3>2. ASSUME Refused(h, s) PROVE Yields(h, s)
      BY <3>2 DEF Refused, Yields, At
    <3> QED BY <3>1, <3>2
  <2>3. ASSUME NEW s \in Step, GatherFailure(h, s) PROVE Yields(h, s) \/ Fails(h, s)
    BY <2>3, GatherFailureCases
  <2>4. ASSUME NEW s \in Step, GatherResult(h, s) PROVE Records(h, s) \/ Fails(h, s)
    BY <2>4, GatherResultCases
  <2>5. ASSUME NEW s \in Step, Resolve(h, s) PROVE Proves(h, s) \/ Rejects(h, s)
    <3>1. job[h].at = "settling" /\ job[h].outcome[s] = "recorded"
      BY <2>5, FirstRecorded DEF Resolve
    <3>2. /\ Moves(h, "proving") \/ Now(h, s, "rejected")
          /\ UNCHANGED <<step, attempt, run, delivered, trespass, faults>>
      BY <2>5 DEF Resolve, Moves
    <3>3. ASSUME Now(h, s, "rejected")
          PROVE  Sets(h, s, job[h].at, "rejected", job[h].mine[s])
      BY <3>3, NowSets
    <3> QED BY <3>1, <3>2, <3>3 DEF Proves, Rejects
  <2>6. ASSUME NEW s \in Step, Mark(h, s) PROVE Marked(h, s) \/ Ends(h)
    BY <2>6, MarkCases
  <2>7. ASSUME NEW s \in Step, FailRejected(h, s) PROVE Fails(h, s)
    <3>1. Sets(h, s, job[h].at, "dropped", 0)
      BY <2>7, LetsSets DEF FailRejected
    <3> QED BY <2>7, <3>1 DEF FailRejected, Fails
  <2>8. GiveUp(h) \/ Finish(h) => Ends(h)
    BY DEF GiveUp, Finish, Ends, ClaimsTypeOK
  <2> QED BY <2>1, <2>2, <2>3, <2>4, <2>5, <2>6, <2>7, <2>8 DEF Dispatch, HostSteps
<1>2. CASE \E h \in Host : Crash(h)
  <2>1. PICK h \in Host : Crash(h)
    BY <1>2
  <2>2. Ends(h)
    BY <2>1, Constants DEF Crash, Ends, ClaimsTypeOK
  <2> QED BY <2>2 DEF HostSteps
<1>3. CASE Block \/ Resume \/ Mutate
  BY <1>3, Constants DEF Block, Resume, Mutate, Around, ClaimsTypeOK, Active
<1> QED BY <1>1, <1>2, <1>3 DEF Next

-----------------------------------------------------------------------------
(* Types. *)

LEMMA NoJobIs ==
  /\ NoJob \in Job
  /\ NoJob.at = "idle" /\ NoJob.snapshot = 0
  /\ \A s \in Step : NoJob.outcome[s] = "none" /\ NoJob.mine[s] = 0
BY Constants DEF NoJob, Job, Outcomes

LEMMA SelectIs ==
  ASSUME ClaimsTypeOK, NEW h \in Host, Select(h)
  PROVE  /\ job' \in [Host -> Job]
         /\ \A g \in Host \ {h} : job'[g] = job[g]
         /\ job'[h].at = "dispatching"
         /\ job'[h].snapshot = run.revision
         /\ \A s \in Step : job'[h].outcome[s] \in {"none", "todo"} /\ job'[h].mine[s] = 0
         /\ UNCHANGED <<step, attempt, run, delivered, trespass, faults>>
<1> DEFINE o == [s \in Step |-> IF s \in Batch THEN "todo" ELSE "none"]
           k == [NoJob EXCEPT !.at = "dispatching", !.snapshot = run.revision, !.outcome = o]
<1>1. job \in [Host -> Job] /\ run.revision \in 0..MaxRevision
  BY DEF ClaimsTypeOK
<1>2. job' = [job EXCEPT ![h] = k] /\ UNCHANGED <<step, attempt, run, delivered, trespass, faults>>
  BY Zenon DEF Select
<1>3. o \in [Step -> Outcomes] /\ \A s \in Step : o[s] \in {"none", "todo"}
  BY DEF Outcomes
<1>4. /\ k \in Job /\ k.at = "dispatching" /\ k.snapshot = run.revision
      /\ k.outcome = o /\ k.mine = NoJob.mine
  <2> HIDE DEF o
  <2> QED BY <1>1, <1>3, NoJobIs DEF Job
<1>5. job' \in [Host -> Job] /\ job'[h] = k /\ \A g \in Host \ {h} : job'[g] = job[g]
  <2> HIDE DEF k
  <2> QED BY <1>1, <1>2, <1>4
<1> HIDE DEF k, o
<1> QED BY <1>2, <1>3, <1>4, <1>5, NoJobIs

LEMMA EndsIs ==
  ASSUME ClaimsTypeOK, NEW h \in Host, Ends(h)
  PROVE  /\ job' \in [Host -> Job] /\ job'[h] = NoJob
         /\ \A g \in Host \ {h} : job'[g] = job[g]
<1>1. job \in [Host -> Job] /\ job' = [job EXCEPT ![h] = NoJob]
  BY DEF ClaimsTypeOK, Ends
<1> QED BY <1>1, NoJobIs

LEMMA InitTyped == Init => ClaimsTypeOK
<1> SUFFICES ASSUME Init PROVE ClaimsTypeOK
  OBVIOUS
<1>1. [state |-> "ready", result |-> 0] \in StepRow
  BY DEF StepRow
<1>2. [step |-> 0, revision |-> 0, status |-> "none"] \in AttemptRow
  BY Constants DEF AttemptRow
<1>3. step \in [Step -> StepRow] /\ attempt \in [Attempt -> AttemptRow]
  BY <1>1, <1>2, Zenon DEF Init
<1>4. job \in [Host -> Job]
  BY NoJobIs, Zenon DEF Init
<1>5. run \in [status : {"active", "blocked", "completed"}, revision : 0..MaxRevision]
      /\ faults \in 0..MaxFaults
  BY Constants DEF Init
<1> QED BY <1>3, <1>4, <1>5 DEF Init, ClaimsTypeOK

(* A Host has an attempt of its own exactly where it got as far as claiming.   *)
Bound == {"working", "recorded", "settled", "rejected"}
BoundMine ==
  \A h \in Host, s \in Step : job[h].outcome[s] \in Bound <=> job[h].mine[s] # 0

LEMMA HostTyped ==
  ASSUME ClaimsTypeOK, BoundMine, NEW h \in Host, HostSteps(h)
  PROVE  ClaimsTypeOK'
<1>0. /\ step \in [Step -> StepRow] /\ attempt \in [Attempt -> AttemptRow]
      /\ job \in [Host -> Job] /\ job[h] \in Job
      /\ delivered \subseteq Attempt
  BY DEF ClaimsTypeOK
<1>a. /\ job[h].at \in {"idle", "dispatching", "settling", "proving", "closing"}
      /\ \A s \in Step : job[h].mine[s] \in Attempt \cup {0}
                         /\ job[h].outcome[s] \in Outcomes
  BY <1>0 DEF Job
<1>1. ASSUME NEW s \in Step, Claimed(h, s) PROVE ClaimsTypeOK'
  <2>1. First(Unused) \in Attempt
        /\ step' \in [Step -> StepRow] /\ attempt' \in [Attempt -> AttemptRow]
    BY <1>1, ClaimedIs
  <2>2. Sets(h, s, "dispatching", "working", First(Unused))
        /\ UNCHANGED <<run, delivered, trespass, faults>>
    BY <1>1 DEF Claimed
  <2>3. job' \in [Host -> Job]
    BY <2>1, <2>2, SetsIs DEF Outcomes
  <2> QED BY <2>1, <2>2, <2>3 DEF ClaimsTypeOK
<1>2. ASSUME NEW s \in Step, Yields(h, s) PROVE ClaimsTypeOK'
  <2>1. PICK outcome \in {"stale", "taken", "conflict"}, mine \in {0, job[h].mine[s]} :
          Sets(h, s, job[h].at, outcome, mine)
    BY <1>2 DEF Yields
  <2>2. outcome \in Outcomes /\ mine \in Attempt \cup {0}
    BY <1>a DEF Outcomes
  <2>3. job' \in [Host -> Job]
    BY <1>a, <2>1, <2>2, SetsIs
  <2> QED BY <1>2, <2>3 DEF Yields, ClaimsTypeOK
<1>3. ASSUME NEW s \in Step, Fails(h, s) PROVE ClaimsTypeOK'
  <2>1. step' \in [Step -> StepRow] /\ attempt' \in [Attempt -> AttemptRow]
        /\ trespass' \in BOOLEAN
    BY <1>3, FailIs DEF Fails
  <2>2. job' \in [Host -> Job]
    <3>1. PICK place \in {"idle", "dispatching", "settling", "proving", "closing"},
               outcome \in Outcomes, mine \in Attempt \cup {0} :
                 Sets(h, s, place, outcome, mine)
      BY <1>3, <1>a DEF Fails, Outcomes
    <3> QED BY <3>1, SetsIs
  <2> QED BY <1>3, <2>1, <2>2 DEF Fails, ClaimsTypeOK
<1>4. ASSUME NEW s \in Step, Records(h, s) PROVE ClaimsTypeOK'
  <2>1. step' \in [Step -> StepRow]
    BY <1>4, <1>0, <1>a DEF Records, StepRow
  <2>2. job' \in [Host -> Job]
    <3>1. PICK place \in {"idle", "dispatching", "settling", "proving", "closing"},
               outcome \in Outcomes, mine \in Attempt \cup {0} :
                 Sets(h, s, place, outcome, mine)
      BY <1>4, <1>a DEF Records, Outcomes
    <3> QED BY <3>1, SetsIs
  <2> QED BY <1>4, <2>1, <2>2 DEF Records, ClaimsTypeOK
<1>5. ASSUME NEW s \in Step, Proves(h, s) PROVE ClaimsTypeOK'
  <2>1. job' \in [Host -> Job]
    BY <1>5, MovesIs DEF Proves
  <2> QED BY <1>5, <2>1 DEF Proves, ClaimsTypeOK
<1>6. ASSUME NEW s \in Step, Rejects(h, s) PROVE ClaimsTypeOK'
  <2>1. job' \in [Host -> Job]
    <3>1. PICK place \in {"idle", "dispatching", "settling", "proving", "closing"},
               outcome \in Outcomes, mine \in Attempt \cup {0} :
                 Sets(h, s, place, outcome, mine)
      BY <1>6, <1>a DEF Rejects, Outcomes
    <3> QED BY <3>1, SetsIs
  <2> QED BY <1>6, <2>1 DEF Rejects, ClaimsTypeOK
<1>7. ASSUME NEW s \in Step, Marked(h, s) PROVE ClaimsTypeOK'
  <2>1. PICK passed \in BOOLEAN :
          /\ step' = [step EXCEPT ![s].state = IF passed THEN "passed" ELSE "failed"]
          /\ Sets(h, s, "closing", IF passed THEN "settled" ELSE "rejected", job[h].mine[s])
    BY <1>7, Zenon DEF Marked
  <2>2. step' \in [Step -> StepRow]
    BY <2>1, <1>0 DEF StepRow
  <2>3. (IF passed THEN "settled" ELSE "rejected") \in Outcomes
    BY DEF Outcomes
  <2>4. job' \in [Host -> Job]
    BY <1>a, <2>1, <2>3, SetsIs
  <2> QED BY <1>7, <2>2, <2>4 DEF Marked, ClaimsTypeOK
<1>8. ASSUME Select(h) PROVE ClaimsTypeOK'
  BY <1>8, SelectIs DEF ClaimsTypeOK
<1>9. ASSUME Deliver(h) PROVE ClaimsTypeOK'
  <2>1. Moves(h, "settling")
    BY <1>9 DEF Deliver, Moves
  <2>2. job' \in [Host -> Job]
    BY <2>1, MovesIs
  <2>3. run' \in [status : {"active", "blocked", "completed"}, revision : 0..MaxRevision]
    BY <1>9, Constants DEF Deliver, ClaimsTypeOK
  <2>4. \A s \in Recorded(h) : job[h].mine[s] \in Attempt
    BY <1>a DEF Recorded, BoundMine, Bound
  <2>5. delivered' \subseteq Attempt
    BY <1>0, <1>9, <2>4 DEF Deliver
  <2> QED BY <1>9, <2>2, <2>3, <2>5 DEF Deliver, ClaimsTypeOK
<1>10. ASSUME Close(h) PROVE ClaimsTypeOK'
  <2>1. Moves(h, "settling")
    BY <1>10, CloseIs
  <2>2. job' \in [Host -> Job]
    BY <2>1, MovesIs
  <2> QED BY <1>10, <2>2, CloseIs DEF ClaimsTypeOK
<1>11. ASSUME Ends(h) PROVE ClaimsTypeOK'
  BY <1>11, EndsIs DEF Ends, ClaimsTypeOK
<1> QED BY <1>1, <1>2, <1>3, <1>4, <1>5, <1>6, <1>7, <1>8, <1>9, <1>10, <1>11 DEF HostSteps

-----------------------------------------------------------------------------
(* Whose attempt is whose, and on which revision it was made. *)

MineInv ==
  /\ BoundMine
  /\ \A h \in Host, s \in Step :
       job[h].mine[s] # 0 => attempt[job[h].mine[s]].step = s
  /\ \A g, h \in Host, s \in Step :
       g # h /\ job[g].mine[s] # 0 => job[g].mine[s] # job[h].mine[s]

(* Attempts are used in the order of their numbers. *)
RowsInv ==
  /\ \A a \in Attempt : attempt[a].status = "none" => attempt[a].step = 0
  /\ \A a, b \in Attempt :
       a < b /\ attempt[b].status # "none" => attempt[a].status # "none"

RevisionInv ==
  /\ \A a \in Attempt : attempt[a].revision <= run.revision
  /\ \A h \in Host : job[h].snapshot <= run.revision
  /\ \A h \in Host, s \in Step :
       job[h].outcome[s] \in {"working", "recorded"} =>
         job[h].snapshot <= attempt[job[h].mine[s]].revision

ClosingInv ==
  \A h \in Host : job[h].at = "closing" =>
    \E s \in Step : job[h].outcome[s] \in {"settled", "rejected"}

DeliveredInv ==
  \A h \in Host, s \in Step :
    job[h].at \in {"settling", "proving", "closing"} /\ job[h].outcome[s] = "recorded"
      => job[h].mine[s] \in delivered

ClaimInv == ClaimsTypeOK /\ MineInv /\ RowsInv /\ RevisionInv /\ ClosingInv /\ DeliveredInv

LEMMA MineKept ==
  ASSUME ClaimsTypeOK, MineInv, RowsKept, NEW h \in Host, NEW s \in Step,
         NEW place \in {"idle", "dispatching", "settling", "proving", "closing"},
         NEW outcome \in Outcomes, NEW mine \in {0, job[h].mine[s]},
         Sets(h, s, place, outcome, mine), outcome \in Bound <=> mine # 0
  PROVE  MineInv'
<1>1. job \in [Host -> Job] /\ \A g \in Host, t \in Step : job[g].mine[t] \in Attempt \cup {0}
  BY DEF ClaimsTypeOK, Job
<1>2. mine \in Attempt \cup {0}
  BY <1>1
<1>3. /\ \A g \in Host \ {h} : job'[g] = job[g]
      /\ job'[h].outcome[s] = outcome /\ job'[h].mine[s] = mine
      /\ \A t \in Step \ {s} : job'[h].outcome[t] = job[h].outcome[t]
                               /\ job'[h].mine[t] = job[h].mine[t]
  BY <1>2, SetsIs
<1>4. BoundMine'
  BY <1>3 DEF BoundMine, MineInv
<1>5. \A g \in Host, t \in Step : job'[g].mine[t] \in {0, job[g].mine[t]}
  BY <1>3
<1>6. \A g \in Host, t \in Step :
        job'[g].mine[t] # 0 => attempt'[job'[g].mine[t]].step = t
  BY <1>1, <1>5 DEF MineInv, RowsKept
<1>7. \A f, g \in Host, t \in Step :
        f # g /\ job'[f].mine[t] # 0 => job'[f].mine[t] # job'[g].mine[t]
  BY <1>5 DEF MineInv
<1> QED BY <1>4, <1>6, <1>7 DEF MineInv

LEMMA RevisionKept ==
  ASSUME ClaimsTypeOK, RevisionInv, RowsKept, NEW h \in Host, NEW s \in Step,
         NEW place \in {"idle", "dispatching", "settling", "proving", "closing"},
         NEW outcome \in Outcomes, NEW mine \in {0, job[h].mine[s]},
         Sets(h, s, place, outcome, mine), UNCHANGED run, BoundMine,
         outcome \in {"working", "recorded"} =>
           /\ job[h].outcome[s] \in {"working", "recorded"}
           /\ mine = job[h].mine[s]
  PROVE  RevisionInv'
<1>1. job \in [Host -> Job] /\ \A g \in Host, t \in Step : job[g].mine[t] \in Attempt \cup {0}
  BY DEF ClaimsTypeOK, Job
<1>2. mine \in Attempt \cup {0}
  BY <1>1
<1>3. /\ \A g \in Host \ {h} : job'[g] = job[g]
      /\ job'[h].snapshot = job[h].snapshot
      /\ job'[h].outcome[s] = outcome /\ job'[h].mine[s] = mine
      /\ \A t \in Step \ {s} : job'[h].outcome[t] = job[h].outcome[t]
                               /\ job'[h].mine[t] = job[h].mine[t]
  BY <1>2, SetsIs
<1>4. \A g \in Host, t \in Step : job'[g].outcome[t] \in {"working", "recorded"} =>
        /\ job[g].outcome[t] \in {"working", "recorded"}
        /\ job'[g].mine[t] = job[g].mine[t] /\ job[g].mine[t] \in Attempt
        /\ job'[g].snapshot = job[g].snapshot
  BY <1>1, <1>3 DEF BoundMine, Bound
<1>5. \A g \in Host : job'[g].snapshot = job[g].snapshot
  BY <1>3
<1> QED BY <1>4, <1>5 DEF RevisionInv, RowsKept

LEMMA RowsInvKept ==
  ASSUME ClaimsTypeOK, RowsInv, RowsKept,
         \A a \in Attempt : attempt'[a].status = "none" <=> attempt[a].status = "none"
  PROVE  RowsInv'
BY DEF RowsInv, RowsKept

LEMMA PlacesKept ==
  ASSUME ClaimsTypeOK, ClosingInv, DeliveredInv, NEW h \in Host, NEW s \in Step,
         NEW outcome \in Outcomes, NEW mine \in Attempt \cup {0},
         Sets(h, s, job[h].at, outcome, mine), UNCHANGED delivered,
         job[h].at # "closing",
         outcome = "recorded" => job[h].at = "dispatching"
  PROVE  ClosingInv' /\ DeliveredInv'
<1>1. job[h].at \in {"idle", "dispatching", "settling", "proving", "closing"}
  BY DEF ClaimsTypeOK, Job
<1>2. /\ \A g \in Host \ {h} : job'[g] = job[g]
      /\ job'[h].at = job[h].at
      /\ job'[h].outcome[s] = outcome /\ job'[h].mine[s] = mine
      /\ \A t \in Step \ {s} : job'[h].outcome[t] = job[h].outcome[t]
                               /\ job'[h].mine[t] = job[h].mine[t]
  BY <1>1, SetsIs
<1>3. ClosingInv'
  BY <1>2 DEF ClosingInv
<1>4. DeliveredInv'
  BY <1>2 DEF DeliveredInv
<1> QED BY <1>3, <1>4

LEMMA SetsKept ==
  ASSUME ClaimInv, RowsKept, NEW h \in Host, NEW s \in Step,
         NEW outcome \in Outcomes, NEW mine \in {0, job[h].mine[s]},
         Sets(h, s, job[h].at, outcome, mine), outcome \in Bound <=> mine # 0,
         job[h].at # "closing", UNCHANGED <<run, delivered>>,
         outcome = "working" => FALSE,
         outcome = "recorded" => /\ job[h].at = "dispatching"
                                 /\ job[h].outcome[s] = "working"
                                 /\ mine = job[h].mine[s],
         \A a \in Attempt : attempt'[a].status = "none" <=> attempt[a].status = "none"
  PROVE  MineInv' /\ RowsInv' /\ RevisionInv' /\ ClosingInv' /\ DeliveredInv'
<1>1. /\ job[h].at \in {"idle", "dispatching", "settling", "proving", "closing"}
      /\ job[h].mine[s] \in Attempt \cup {0}
  BY DEF ClaimInv, ClaimsTypeOK, Job
<1>2. ClaimsTypeOK /\ MineInv /\ RowsInv /\ RevisionInv /\ ClosingInv /\ DeliveredInv
      /\ BoundMine
  BY DEF ClaimInv, MineInv
<1>3. MineInv'
  BY <1>1, <1>2, MineKept
<1>4. RowsInv'
  BY <1>2, RowsInvKept
<1>5. RevisionInv'
  BY <1>1, <1>2, RevisionKept
<1>6. ClosingInv' /\ DeliveredInv'
  BY <1>1, <1>2, PlacesKept
<1> QED BY <1>3, <1>4, <1>5, <1>6

LEMMA MineUsed ==
  ASSUME ClaimInv, NEW h \in Host, NEW s \in Step, job[h].mine[s] # 0
  PROVE  /\ job[h].mine[s] \in Attempt
         /\ attempt[job[h].mine[s]].step = s
         /\ attempt[job[h].mine[s]].status # "none"
<1>1. job[h].mine[s] \in Attempt
  BY DEF ClaimInv, ClaimsTypeOK, Job
<1>2. attempt[job[h].mine[s]].step = s /\ s # 0
  BY Constants DEF ClaimInv, MineInv, Step
<1> QED BY <1>1, <1>2 DEF ClaimInv, RowsInv

LEMMA ClaimedKept ==
  ASSUME ClaimInv, NEW h \in Host, NEW s \in Step, Claimed(h, s)
  PROVE  MineInv' /\ RowsInv' /\ RevisionInv' /\ ClosingInv' /\ DeliveredInv'
<1> DEFINE a == First(Unused)
<1>1. ClaimsTypeOK /\ MineInv /\ RowsInv /\ RevisionInv /\ ClosingInv /\ DeliveredInv
      /\ BoundMine
  BY DEF ClaimInv, MineInv
<1>2. /\ a \in Attempt /\ attempt[a].status = "none"
      /\ \A b \in Attempt : attempt[b].status = "none" => a <= b
      /\ attempt'[a] = [step |-> s, revision |-> run.revision, status |-> "started"]
      /\ \A b \in Attempt \ {a} : attempt'[b] = attempt[b]
  BY <1>1, ClaimedIs
<1>3. /\ Sets(h, s, "dispatching", "working", a)
      /\ job[h].at = "dispatching" /\ UNCHANGED <<run, delivered>>
  BY DEF Claimed, At
<1> HIDE DEF a
<1>4. /\ \A g \in Host \ {h} : job'[g] = job[g]
      /\ job'[h].at = "dispatching" /\ job'[h].snapshot = job[h].snapshot
      /\ job'[h].outcome[s] = "working" /\ job'[h].mine[s] = a
      /\ \A t \in Step \ {s} : job'[h].outcome[t] = job[h].outcome[t]
                               /\ job'[h].mine[t] = job[h].mine[t]
  <2>1. /\ "dispatching" \in {"idle", "dispatching", "settling", "proving", "closing"}
        /\ "working" \in Outcomes /\ a \in Attempt \cup {0}
    BY <1>2 DEF Outcomes
  <2> QED BY <1>1, <1>3, <2>1, SetsIs
<1>5. a # 0 /\ a \in Nat /\ Attempt \subseteq Nat
  BY <1>2, Constants DEF Attempt
<1>6. \A g \in Host, t \in Step : job[g].mine[t] # 0 =>
        /\ job[g].mine[t] \in Attempt \ {a}
        /\ attempt'[job[g].mine[t]] = attempt[job[g].mine[t]]
  BY <1>2, MineUsed
<1>7. MineInv'
  <2>1. BoundMine'
    BY <1>1, <1>4, <1>5 DEF BoundMine, Bound
  <2>2. \A g \in Host, t \in Step :
          job'[g].mine[t] # 0 => attempt'[job'[g].mine[t]].step = t
    BY <1>1, <1>2, <1>4, <1>6 DEF MineInv
  <2>3. \A f, g \in Host, t \in Step :
          f # g /\ job'[f].mine[t] # 0 => job'[f].mine[t] # job'[g].mine[t]
    BY <1>1, <1>4, <1>5, <1>6 DEF MineInv
  <2> QED BY <2>1, <2>2, <2>3 DEF MineInv
<1>8. RowsInv'
  <2>1. \A b \in Attempt : attempt'[b].status = "none" => attempt'[b].step = 0
    BY <1>1, <1>2 DEF RowsInv
  <2>2. ASSUME NEW b \in Attempt, NEW c \in Attempt, b < c, attempt'[c].status # "none"
        PROVE  attempt'[b].status # "none"
    <3>1. CASE b = a
      BY <1>2, <3>1
    <3>2. CASE b # a /\ c = a
      BY <1>2, <1>5, <2>2, <3>2
    <3>3. CASE b # a /\ c # a
      BY <1>1, <1>2, <2>2, <3>3 DEF RowsInv
    <3> QED BY <3>1, <3>2, <3>3
  <2> QED BY <2>1, <2>2 DEF RowsInv
<1>9. RevisionInv'
  <2>1. run.revision \in Nat
    BY <1>1, Constants DEF ClaimsTypeOK
  <2>2. \A b \in Attempt : attempt'[b].revision <= run'.revision
    BY <1>1, <1>2, <1>3, <2>1 DEF RevisionInv
  <2>3. \A g \in Host : job'[g].snapshot <= run'.revision
    BY <1>1, <1>3, <1>4 DEF RevisionInv
  <2>4. ASSUME NEW g \in Host, NEW t \in Step,
               job'[g].outcome[t] \in {"working", "recorded"}
        PROVE  job'[g].snapshot <= attempt'[job'[g].mine[t]].revision
    <3>1. CASE g = h /\ t = s
      BY <1>1, <1>2, <1>4, <3>1 DEF RevisionInv
    <3>2. CASE ~(g = h /\ t = s)
      <4>1. /\ job'[g].outcome[t] = job[g].outcome[t]
            /\ job'[g].mine[t] = job[g].mine[t]
            /\ job'[g].snapshot = job[g].snapshot
        BY <1>4, <3>2
      <4>2. job[g].mine[t] # 0
        BY <1>1, <2>4, <4>1 DEF BoundMine, Bound
      <4> QED BY <1>1, <1>6, <2>4, <4>1, <4>2 DEF RevisionInv
    <3> QED BY <3>1, <3>2
  <2> QED BY <2>2, <2>3, <2>4 DEF RevisionInv
<1>10. ClosingInv' /\ DeliveredInv'
  BY <1>1, <1>3, <1>4 DEF ClosingInv, DeliveredInv
<1> QED BY <1>7, <1>8, <1>9, <1>10

LEMMA FailsRows ==
  ASSUME ClaimInv, NEW h \in Host, NEW s \in Step, NEW told \in BOOLEAN,
         FailStepAttempt(h, s, told)
  PROVE  /\ RowsKept
         /\ \A a \in Attempt : attempt'[a].status = "none" <=> attempt[a].status = "none"
<1>1. ClaimsTypeOK /\ RowsInv
  BY DEF ClaimInv
<1>2. /\ RowsKept
      /\ \A a \in Attempt :
           attempt'[a].status = IF a = ToFail(s) THEN "failed" ELSE attempt[a].status
  BY <1>1, FailIs
<1>3. s # 0
  BY Constants DEF Step
<1>4. \A a \in Attempt : a = ToFail(s) => attempt[a].status # "none"
  BY <1>1, <1>3, ToFailIs DEF RowsInv, Attempt
<1> QED BY <1>2, <1>4

LEMMA CloseRows ==
  ASSUME ClaimInv, NEW h \in Host, Close(h)
  PROVE  /\ RowsKept
         /\ \A a \in Attempt : attempt'[a].status = "none" <=> attempt[a].status = "none"
<1>1. ClaimsTypeOK /\ RowsInv /\ ClosingInv /\ BoundMine /\ job[h].at = "closing"
  BY DEF ClaimInv, MineInv, Close
<1>2. Closing(h) \in Step /\ job[h].outcome[Closing(h)] \in {"settled", "rejected"}
  BY <1>1, ClosingIs DEF ClosingInv
<1>3. attempt[job[h].mine[Closing(h)]].status # "none"
  BY <1>1, <1>2, MineUsed DEF BoundMine, Bound
<1> QED BY <1>1, <1>3, CloseIs DEF Status

(* A Host that begins or ends has nothing of its own. *)
LEMMA EmptyKept ==
  ASSUME ClaimInv, NEW h \in Host,
         \A g \in Host \ {h} : job'[g] = job[g],
         \A s \in Step : job'[h].outcome[s] \in {"none", "todo"} /\ job'[h].mine[s] = 0,
         job'[h].at # "closing", job'[h].snapshot <= run.revision,
         UNCHANGED <<step, attempt, run, delivered>>
  PROVE  MineInv' /\ RowsInv' /\ RevisionInv' /\ ClosingInv' /\ DeliveredInv'
<1>1. /\ BoundMine /\ MineInv /\ RowsInv /\ RevisionInv /\ ClosingInv /\ DeliveredInv
  BY DEF ClaimInv, MineInv
<1>2. MineInv'
  <2>1. BoundMine'
    BY <1>1 DEF BoundMine, Bound
  <2>2. \A g \in Host, t \in Step :
          job'[g].mine[t] # 0 => attempt'[job'[g].mine[t]].step = t
    BY <1>1 DEF MineInv
  <2>3. \A f, g \in Host, t \in Step :
          f # g /\ job'[f].mine[t] # 0 => job'[f].mine[t] # job'[g].mine[t]
    BY <1>1 DEF MineInv
  <2> QED BY <2>1, <2>2, <2>3 DEF MineInv
<1>3. RowsInv' /\ ClosingInv' /\ DeliveredInv'
  BY <1>1 DEF RowsInv, ClosingInv, DeliveredInv
<1>4. RevisionInv'
  BY <1>1 DEF RevisionInv
<1> QED BY <1>2, <1>3, <1>4

LEMMA HostKept ==
  ASSUME ClaimInv, NEW h \in Host, HostSteps(h)
  PROVE  ClaimInv'
<1>0. /\ ClaimsTypeOK /\ MineInv /\ BoundMine /\ RowsInv /\ RevisionInv
      /\ ClosingInv /\ DeliveredInv
  BY DEF ClaimInv, MineInv
<1>a. /\ job[h].at \in {"idle", "dispatching", "settling", "proving", "closing"}
      /\ \A s \in Step : job[h].mine[s] \in Attempt \cup {0}
  BY <1>0 DEF ClaimsTypeOK, Job
<1>b. ClaimsTypeOK'
  BY <1>0, HostTyped
<1> DEFINE Goal == MineInv' /\ RowsInv' /\ RevisionInv' /\ ClosingInv' /\ DeliveredInv'
<1>1. ASSUME NEW s \in Step, Claimed(h, s) PROVE Goal
  BY <1>1, ClaimedKept
<1>2. ASSUME NEW s \in Step, Yields(h, s) PROVE Goal
  <2>1. PICK outcome \in {"stale", "taken", "conflict"}, mine \in {0, job[h].mine[s]} :
          Sets(h, s, job[h].at, outcome, mine)
    BY <1>2 DEF Yields
  <2>2. mine = 0
    BY <1>0, <1>2 DEF Yields, BoundMine, Bound
  <2>3. outcome \in Outcomes /\ outcome \notin Bound
    BY DEF Outcomes, Bound
  <2>4. RowsKept /\ \A a \in Attempt : attempt'[a].status = "none" <=> attempt[a].status = "none"
    BY <1>2 DEF Yields, RowsKept
  <2> QED BY <1>2, <2>1, <2>2, <2>3, <2>4, SetsKept DEF Yields
<1>3. ASSUME NEW s \in Step, Fails(h, s) PROVE Goal
  <2>1. RowsKept /\ \A a \in Attempt : attempt'[a].status = "none" <=> attempt[a].status = "none"
    BY <1>3, FailsRows DEF Fails
  <2>2. "dropped" \in Outcomes /\ "dropped" \notin Bound
    BY DEF Outcomes, Bound
  <2> QED BY <1>3, <2>1, <2>2, SetsKept DEF Fails
<1>4. ASSUME NEW s \in Step, Records(h, s) PROVE Goal
  <2>1. RowsKept /\ \A a \in Attempt : attempt'[a].status = "none" <=> attempt[a].status = "none"
    BY <1>4 DEF Records, RowsKept
  <2>2. "recorded" \in Outcomes /\ "recorded" \in Bound /\ job[h].mine[s] # 0
    BY <1>0, <1>4 DEF Outcomes, Bound, Records, BoundMine
  <2> QED BY <1>4, <2>1, <2>2, SetsKept DEF Records
<1>5. ASSUME NEW s \in Step, Proves(h, s) PROVE Goal
  <2>1. /\ \A g \in Host \ {h} : job'[g] = job[g]
        /\ job'[h].at = "proving" /\ job'[h].snapshot = job[h].snapshot
        /\ job'[h].outcome = job[h].outcome /\ job'[h].mine = job[h].mine
    BY <1>0, <1>5, MovesIs DEF Proves
  <2>2. /\ job[h].at = "settling" /\ UNCHANGED <<step, attempt, run, delivered>>
    BY <1>5 DEF Proves
  <2>3. MineInv' /\ RowsInv'
    BY <1>0, <2>1, <2>2 DEF MineInv, BoundMine, RowsInv
  <2>4. RevisionInv'
    BY <1>0, <2>1, <2>2 DEF RevisionInv
  <2>5. ClosingInv' /\ DeliveredInv'
    BY <1>0, <2>1, <2>2 DEF ClosingInv, DeliveredInv
  <2> QED BY <2>3, <2>4, <2>5
<1>6. ASSUME NEW s \in Step, Rejects(h, s) PROVE Goal
  <2>1. RowsKept /\ \A a \in Attempt : attempt'[a].status = "none" <=> attempt[a].status = "none"
    BY <1>6 DEF Rejects, RowsKept
  <2>2. "rejected" \in Outcomes /\ "rejected" \in Bound /\ job[h].mine[s] # 0
    BY <1>0, <1>6 DEF Outcomes, Bound, Rejects, BoundMine
  <2> QED BY <1>6, <2>1, <2>2, SetsKept DEF Rejects
<1>7. ASSUME NEW s \in Step, Marked(h, s) PROVE Goal
  <2>1. PICK outcome \in {"settled", "rejected"} :
          Sets(h, s, "closing", outcome, job[h].mine[s])
    BY <1>7, Zenon DEF Marked
  <2>2. /\ job[h].at = "proving" /\ Settles(h, s)
        /\ UNCHANGED <<attempt, run, delivered>>
    BY <1>7 DEF Marked
  <2>3. job[h].outcome[s] = "recorded" /\ job[h].mine[s] # 0
    BY <1>0, <2>2, FirstRecorded DEF BoundMine, Bound
  <2>4. /\ outcome \in Outcomes /\ outcome \in Bound /\ RowsKept
        /\ outcome \notin {"working", "recorded"}
    BY <2>2 DEF Outcomes, Bound, RowsKept
  <2>5. MineInv'
    BY <1>0, <2>1, <2>3, <2>4, MineKept
  <2>6. RevisionInv'
    BY <1>0, <2>1, <2>2, <2>4, RevisionKept
  <2>7. RowsInv'
    BY <1>0, <2>2 DEF RowsInv
  <2>8. /\ \A g \in Host \ {h} : job'[g] = job[g]
        /\ job'[h].at = "closing" /\ job'[h].outcome[s] = outcome
        /\ \A t \in Step \ {s} : job'[h].outcome[t] = job[h].outcome[t]
                                 /\ job'[h].mine[t] = job[h].mine[t]
    BY <1>0, <1>a, <2>1, <2>4, SetsIs
  <2>9. ClosingInv' /\ DeliveredInv'
    BY <1>0, <2>2, <2>4, <2>8 DEF ClosingInv, DeliveredInv
  <2> QED BY <2>5, <2>6, <2>7, <2>9
<1>8. ASSUME Select(h) PROVE Goal
  <2>1. run.revision <= run.revision
    BY <1>0, Constants DEF ClaimsTypeOK
  <2> QED BY <1>0, <1>8, <2>1, SelectIs, EmptyKept
<1>9. ASSUME Deliver(h) PROVE Goal
  <2>1. Moves(h, "settling")
    BY <1>9 DEF Deliver, Moves
  <2>2. /\ \A g \in Host \ {h} : job'[g] = job[g]
        /\ job'[h].at = "settling" /\ job'[h].snapshot = job[h].snapshot
        /\ job'[h].outcome = job[h].outcome /\ job'[h].mine = job[h].mine
    BY <1>0, <2>1, MovesIs
  <2>3. /\ UNCHANGED <<step, attempt>>
        /\ run' = [run EXCEPT !.revision = @ + 1]
        /\ delivered' = delivered \cup {job[h].mine[s] : s \in Recorded(h)}
    BY <1>9 DEF Deliver
  <2>4. MineInv' /\ RowsInv'
    BY <1>0, <2>2, <2>3 DEF MineInv, BoundMine, RowsInv
  <2>5. RevisionInv'
    <3>1. /\ run.revision \in Nat /\ run'.revision = run.revision + 1
          /\ \A g \in Host : job[g].snapshot \in Nat
          /\ \A a \in Attempt : attempt[a].revision \in Nat
      BY <1>0, <2>3, Constants DEF ClaimsTypeOK, Job, AttemptRow
    <3> QED BY <1>0, <2>2, <2>3, <3>1 DEF RevisionInv
  <2>6. ClosingInv' /\ DeliveredInv'
    BY <1>0, <2>2, <2>3 DEF ClosingInv, DeliveredInv, Recorded
  <2> QED BY <2>4, <2>5, <2>6
<1>10. ASSUME Close(h) PROVE Goal
  <2>1. /\ RowsKept /\ Moves(h, "settling") /\ run'.revision = run.revision
        /\ UNCHANGED delivered /\ job[h].at = "closing"
        /\ \A a \in Attempt : attempt'[a].status = "none" <=> attempt[a].status = "none"
    BY <1>0, <1>10, CloseIs, CloseRows DEF Close
  <2>2. /\ \A g \in Host \ {h} : job'[g] = job[g]
        /\ job'[h].at = "settling" /\ job'[h].snapshot = job[h].snapshot
        /\ job'[h].outcome = job[h].outcome /\ job'[h].mine = job[h].mine
    BY <1>0, <2>1, MovesIs
  <2>3. \A g \in Host, t \in Step :
          /\ job'[g].outcome[t] = job[g].outcome[t] /\ job'[g].mine[t] = job[g].mine[t]
          /\ job'[g].snapshot = job[g].snapshot
          /\ job[g].mine[t] \in Attempt \cup {0}
    BY <1>0, <2>2 DEF ClaimsTypeOK, Job
  <2>4. MineInv'
    BY <1>0, <2>1, <2>3 DEF MineInv, BoundMine, RowsKept
  <2>5. RowsInv'
    BY <1>0, <2>1, RowsInvKept
  <2>6. RevisionInv'
    <3>1. \A a \in Attempt : attempt'[a].revision <= run'.revision
      BY <1>0, <2>1 DEF RevisionInv, RowsKept
    <3>2. \A g \in Host : job'[g].snapshot <= run'.revision
      BY <1>0, <2>1, <2>2 DEF RevisionInv
    <3>3. \A g \in Host, t \in Step : job[g].outcome[t] \in {"working", "recorded"} =>
            job[g].mine[t] \in Attempt
      BY <1>0, <2>3 DEF BoundMine, Bound
    <3> QED BY <1>0, <2>1, <2>3, <3>1, <3>2, <3>3 DEF RevisionInv, RowsKept
  <2>7. ClosingInv' /\ DeliveredInv'
    BY <1>0, <2>1, <2>2 DEF ClosingInv, DeliveredInv
  <2> QED BY <2>4, <2>5, <2>6, <2>7
<1>11. ASSUME Ends(h) PROVE Goal
  <2>1. run.revision >= 0
    BY <1>0, Constants DEF ClaimsTypeOK
  <2> QED BY <1>0, <1>11, <2>1, EndsIs, NoJobIs, EmptyKept DEF Ends
<1> QED BY <1>b, <1>1, <1>2, <1>3, <1>4, <1>5, <1>6, <1>7, <1>8, <1>9, <1>10, <1>11
        DEF HostSteps, ClaimInv

LEMMA AroundKept ==
  ASSUME ClaimInv, Around
  PROVE  ClaimInv'
<1>1. ClaimsTypeOK'
  BY DEF ClaimInv, Around, ClaimsTypeOK
<1>2. MineInv' /\ RowsInv' /\ ClosingInv' /\ DeliveredInv'
  BY DEF ClaimInv, Around, MineInv, BoundMine, RowsInv, ClosingInv, DeliveredInv
<1>3. RevisionInv'
  <2>1. /\ run.revision \in Nat /\ run'.revision \in Nat /\ run'.revision >= run.revision
        /\ \A h \in Host : job[h].snapshot \in Nat
        /\ \A a \in Attempt : attempt[a].revision \in Nat
    BY Constants DEF ClaimInv, ClaimsTypeOK, Job, AttemptRow, Around
  <2> QED BY <2>1 DEF ClaimInv, Around, RevisionInv
<1> QED BY <1>1, <1>2, <1>3 DEF ClaimInv

LEMMA ClaimsInit == Init => ClaimInv
<1> SUFFICES ASSUME Init PROVE ClaimInv
  OBVIOUS
<1>1. ClaimsTypeOK
  BY InitTyped
<1>2. /\ \A h \in Host : job[h] = NoJob
      /\ \A a \in Attempt : attempt[a] = [step |-> 0, revision |-> 0, status |-> "none"]
      /\ run.revision = 0
  BY DEF Init
<1>3. MineInv /\ RowsInv /\ RevisionInv /\ ClosingInv /\ DeliveredInv
  <2>1. MineInv /\ RowsInv
    BY <1>2, NoJobIs DEF MineInv, BoundMine, Bound, RowsInv
  <2>2. RevisionInv
    BY <1>2, NoJobIs DEF RevisionInv
  <2>3. ClosingInv /\ DeliveredInv
    BY <1>2, NoJobIs DEF ClosingInv, DeliveredInv
  <2> QED BY <2>1, <2>2, <2>3
<1> QED BY <1>1, <1>3 DEF ClaimInv

LEMMA ClaimStep == ClaimInv /\ [Next]_vars => ClaimInv'
<1> SUFFICES ASSUME ClaimInv, [Next]_vars PROVE ClaimInv'
  OBVIOUS
<1>1. CASE Next
  <2>1. ClaimsTypeOK
    BY DEF ClaimInv
  <2> QED BY <1>1, <2>1, Kinds, HostKept, AroundKept
<1>2. CASE UNCHANGED vars
  BY <1>2 DEF vars, ClaimInv, ClaimsTypeOK, MineInv, BoundMine, RowsInv, RevisionInv,
              ClosingInv, DeliveredInv
<1> QED BY <1>1, <1>2

LEMMA ClaimsInvariant == Spec => []ClaimInv
BY ClaimsInit, ClaimStep, PTL DEF Spec

(* The rows keep their shape through every interleaving of the Hosts: what a   *)
(* settlement writes is always a status (ClaimsTypeOK).                        *)
THEOREM ClaimsTypeCorrect == Spec => []ClaimsTypeOK
<1>1. ClaimInv => ClaimsTypeOK
  BY DEF ClaimInv
<1> QED BY <1>1, ClaimsInvariant, PTL

(* No worker's patch is applied to another revision than the one it was made   *)
(* on (PatchOnItsBase).                                                        *)
THEOREM PatchOnItsBaseHolds == Spec => PatchOnItsBase
<1> DEFINE Fits ==
      \A a \in delivered' \ delivered :
        attempt[a].step \in Step /\ attempt[a].revision = run.revision
<1>1. ASSUME ClaimInv, [Next]_vars PROVE [Fits]_vars
  <2>1. CASE UNCHANGED vars
    BY <2>1
  <2>2. CASE Next
    <3>0. ClaimsTypeOK
      BY <1>1 DEF ClaimInv
    <3>1. ASSUME UNCHANGED delivered PROVE Fits
      BY <3>1
    <3>2. ASSUME NEW h \in Host, Deliver(h) PROVE Fits
      <4>1. ASSUME NEW s \in Recorded(h)
            PROVE  attempt[job[h].mine[s]].step = s
                   /\ attempt[job[h].mine[s]].revision = run.revision
        <5>1. s \in Step /\ job[h].outcome[s] = "recorded"
          BY DEF Recorded
        <5>2. job[h].mine[s] # 0
          BY <1>1, <5>1 DEF ClaimInv, MineInv, BoundMine, Bound
        <5>3. job[h].mine[s] \in Attempt /\ attempt[job[h].mine[s]].step = s
          BY <1>1, <5>1, <5>2, MineUsed
        <5>4. run.revision = job[h].snapshot
          BY <3>2 DEF Deliver, Fresh
        <5>5. attempt[job[h].mine[s]].revision \in Nat /\ run.revision \in Nat
          BY <3>0, <5>3, Constants DEF ClaimsTypeOK, AttemptRow
        <5> QED BY <1>1, <5>1, <5>3, <5>4, <5>5 DEF ClaimInv, RevisionInv
      <4>2. delivered' = delivered \cup {job[h].mine[s] : s \in Recorded(h)}
        BY <3>2 DEF Deliver
      <4>3. Recorded(h) \subseteq Step
        BY DEF Recorded
      <4> QED BY <4>1, <4>2, <4>3
    <3>3. ASSUME Around PROVE Fits
      BY <3>3 DEF Around
    <3>4. ASSUME NEW h \in Host, HostSteps(h) PROVE Fits
      <4>1. ASSUME NEW s \in Step,
                   \/ Claimed(h, s) \/ Yields(h, s) \/ Fails(h, s) \/ Records(h, s)
                   \/ Proves(h, s) \/ Rejects(h, s) \/ Marked(h, s)
            PROVE  UNCHANGED delivered
        BY <4>1 DEF Claimed, Yields, Fails, Records, Proves, Rejects, Marked
      <4>2. ASSUME Select(h) \/ Close(h) \/ Ends(h) PROVE UNCHANGED delivered
        BY <3>0, <4>2, CloseIs DEF Select, Ends
      <4> HIDE DEF Fits
      <4> QED BY <3>1, <3>2, <3>4, <4>1, <4>2 DEF HostSteps
    <3> QED BY <2>2, <3>0, <3>3, <3>4, Kinds
  <2> QED BY <1>1, <2>1, <2>2
<1> QED BY <1>1, ClaimsInvariant, PTL DEF Spec, PatchOnItsBase

-----------------------------------------------------------------------------
(* As long as no Host has failed what was another's: who works at a step or    *)
(* has a result for it holds its latest attempt, who was rejected does not     *)
(* hold a passed step, and what passed is in the workspace.                    *)

Held ==
  \A h \in Host, s \in Step :
    job[h].outcome[s] \in {"working", "recorded"} =>
      /\ step[s].state = "running"
      /\ job[h].mine[s] = Latest(s)
      /\ attempt[job[h].mine[s]].status = "started"
      /\ job[h].outcome[s] = "recorded" => step[s].result = job[h].mine[s]

Lost ==
  \A h \in Host, s \in Step :
    job[h].outcome[s] = "rejected" /\ job[h].mine[s] = Latest(s) =>
      step[s].state \in {"running", "failed"}

Placed ==
  \A s \in Step : step[s].state = "passed" =>
    /\ step[s].result \in delivered
    /\ step[s].result = Latest(s)
    /\ attempt[step[s].result].status # "failed"

Safe == Held /\ Lost /\ Placed
SafeInv == ~trespass => Safe

(* One step of the table: where it stands, and who has it. *)
LEMMA LatestKept ==
  ASSUME RowsKept, NEW s \in Step
  PROVE  Latest(s)' = Latest(s)
<1>1. {a \in Attempt : attempt'[a].step = s} = {a \in Attempt : attempt[a].step = s}
  BY DEF RowsKept
<1> QED BY <1>1 DEF Latest

LEMMA HolderIs ==
  ASSUME ClaimInv, Held, NEW g \in Host, NEW h \in Host, NEW s \in Step,
         job[g].outcome[s] \in {"working", "recorded"}, job[h].mine[s] = Latest(s)
  PROVE  g = h
<1>1. job[g].mine[s] # 0
  BY DEF ClaimInv, MineInv, BoundMine, Bound
<1> QED BY <1>1 DEF Held, ClaimInv, MineInv

(* The tables stand, the outcome of one step changes. *)
LEMMA SafeSets ==
  ASSUME ClaimInv, Safe, NEW h \in Host, NEW s \in Step,
         NEW place \in {"idle", "dispatching", "settling", "proving", "closing"},
         NEW outcome \in Outcomes, NEW mine \in {0, job[h].mine[s]},
         Sets(h, s, place, outcome, mine),
         outcome \notin {"working", "recorded"},
         outcome = "rejected" => job[h].outcome[s] = "recorded",
         UNCHANGED <<step, attempt, delivered>>
  PROVE  Safe'
<1>1. /\ job[h].mine[s] \in Attempt \cup {0} /\ ClaimsTypeOK
  BY DEF ClaimInv, ClaimsTypeOK, Job
<1>2. /\ \A g \in Host \ {h} : job'[g] = job[g]
      /\ job'[h].outcome[s] = outcome /\ job'[h].mine[s] = mine
      /\ \A t \in Step \ {s} : job'[h].outcome[t] = job[h].outcome[t]
                               /\ job'[h].mine[t] = job[h].mine[t]
  BY <1>1, SetsIs
<1>3. RowsKept
  BY DEF RowsKept
<1>4. \A t \in Step : Latest(t)' = Latest(t)
  BY <1>3, LatestKept
<1>5. Held'
  BY <1>2, <1>4 DEF Held, Safe
<1>6. Lost'
  BY <1>2, <1>4 DEF Lost, Held, Safe
<1>7. Placed'
  BY <1>4 DEF Placed, Safe
<1> QED BY <1>5, <1>6, <1>7 DEF Safe

(* The tables stand, and every outcome that matters does. *)
LEMMA SafeStands ==
  ASSUME ClaimInv, Safe, UNCHANGED <<step, attempt>>, delivered \subseteq delivered',
         \A h \in Host, s \in Step :
           job'[h].outcome[s] \in {"working", "recorded", "rejected"} =>
             /\ job'[h].outcome[s] = job[h].outcome[s]
             /\ job'[h].mine[s] = job[h].mine[s]
  PROVE  Safe'
<1>1. \A t \in Step : Latest(t)' = Latest(t)
  BY LatestKept DEF RowsKept
<1>2. Held'
  BY <1>1 DEF Held, Safe
<1>3. Lost'
  BY <1>1 DEF Lost, Safe
<1>4. Placed'
  BY <1>1 DEF Placed, Safe
<1> QED BY <1>2, <1>3, <1>4 DEF Safe

LEMMA SafeClaimed ==
  ASSUME ClaimInv, Safe, NEW h \in Host, NEW s \in Step, Claimed(h, s)
  PROVE  Safe'
<1> DEFINE a == First(Unused)
<1>1. ClaimsTypeOK /\ RowsInv /\ Held /\ Lost /\ Placed
  BY DEF ClaimInv, Safe
<1>2. /\ a \in Attempt /\ attempt[a].status = "none"
      /\ \A b \in Attempt : attempt[b].status = "none" => a <= b
      /\ attempt' \in [Attempt -> AttemptRow]
      /\ attempt'[a] = [step |-> s, revision |-> run.revision, status |-> "started"]
      /\ \A b \in Attempt \ {a} : attempt'[b] = attempt[b]
      /\ step'[s].state = "running" /\ step'[s].result = step[s].result
      /\ \A t \in Step \ {s} : step'[t] = step[t]
  BY <1>1, ClaimedIs
<1>3. /\ Sets(h, s, "dispatching", "working", a)
      /\ step[s].state \in {"ready", "failed"} /\ UNCHANGED <<run, delivered>>
  BY DEF Claimed, Claimable
<1> HIDE DEF a
<1>4. /\ \A g \in Host \ {h} : job'[g] = job[g]
      /\ job'[h].outcome[s] = "working" /\ job'[h].mine[s] = a
      /\ \A t \in Step \ {s} : job'[h].outcome[t] = job[h].outcome[t]
                               /\ job'[h].mine[t] = job[h].mine[t]
  <2>1. /\ "dispatching" \in {"idle", "dispatching", "settling", "proving", "closing"}
        /\ "working" \in Outcomes /\ a \in Attempt \cup {0}
    BY <1>2 DEF Outcomes
  <2> QED BY <1>1, <1>3, <2>1, SetsIs
<1>5. a # 0 /\ a \in Nat /\ Attempt \subseteq Nat /\ s # 0 /\ attempt[a].step = 0 /\ 0 \notin Step
  BY <1>1, <1>2, Constants DEF Attempt, Step, RowsInv
<1>6. \A t \in Step \ {s} : Latest(t)' = Latest(t)
  <2> TAKE t \in Step \ {s}
  <2>1. attempt'[a].step # t /\ attempt[a].step # t
    BY <1>2, <1>5
  <2>2. \A b \in Attempt : attempt'[b].step = t <=> attempt[b].step = t
    BY <1>2, <2>1
  <2>3. {b \in Attempt : attempt'[b].step = t} = {b \in Attempt : attempt[b].step = t}
    BY <2>2
  <2> QED BY <2>3 DEF Latest
<1>7. Latest(s)' = a
  <2> DEFINE S == {b \in Attempt : attempt'[b].step = s}
  <2>1. S \in SUBSET (1..MaxAttempts) /\ a \in S
    BY <1>2 DEF Attempt
  <2>2. Last(S) \in S /\ \A m \in S : m <= Last(S)
    <3> HIDE DEF S
    <3> QED BY <2>1, LastOrNone, Constants
  <2>3. \A b \in S : b <= a
    <3> TAKE b \in S
    <3>1. CASE b = a
      BY <1>5, <3>1
    <3>2. CASE b # a
      <4>1. b \in Attempt /\ attempt[b].step = s
        BY <1>2, <3>2
      <4>2. attempt[b].status # "none"
        BY <1>1, <1>5, <4>1 DEF RowsInv
      <4>3. ~(a < b)
        <5>1. \A c, d \in Attempt :
                c < d /\ attempt[d].status # "none" => attempt[c].status # "none"
          BY <1>1 DEF RowsInv
        <5>2. a \in Attempt /\ attempt[a].status = "none"
          BY <1>2
        <5> QED BY <4>1, <4>2, <5>1, <5>2, Zenon
      <4>4. a \in Nat /\ b \in Nat
        BY <1>5, <4>1
      <4> QED
        <5> HIDE DEF S
        <5> QED BY <4>3, <4>4
    <3> QED BY <3>1, <3>2
  <2>4. Last(S) \in Nat
    BY <1>5, <2>2
  <2>5. a <= Last(S) /\ Last(S) <= a
    BY <2>1, <2>2, <2>3
  <2>6. Last(S) = a
    <3> HIDE DEF S
    <3> QED BY <1>5, <2>4, <2>5
  <2> QED BY <2>6 DEF Latest
<1>8. \A g \in Host, t \in Step : job[g].mine[t] # 0 => job[g].mine[t] \in Attempt \ {a}
  BY <1>2, MineUsed
<1>9. Held'
  <2> SUFFICES ASSUME NEW g \in Host, NEW t \in Step,
                      job'[g].outcome[t] \in {"working", "recorded"}
               PROVE  /\ step'[t].state = "running"
                      /\ job'[g].mine[t] = Latest(t)'
                      /\ attempt'[job'[g].mine[t]].status = "started"
                      /\ job'[g].outcome[t] = "recorded" => step'[t].result = job'[g].mine[t]
    BY Zenon DEF Held
  <2>1. CASE t = s
    <3>1. g = h
      BY <1>1, <1>3, <1>4, <2>1 DEF Held
    <3> QED BY <1>2, <1>4, <1>7, <2>1, <3>1
  <2>2. CASE t # s
    <3>1. job'[g].outcome[t] = job[g].outcome[t] /\ job'[g].mine[t] = job[g].mine[t]
      BY <1>4, <2>2
    <3>2. job[g].mine[t] \in Attempt \ {a}
      BY <1>8, <3>1 DEF ClaimInv, MineInv, BoundMine, Bound
    <3> QED BY <1>1, <1>2, <1>6, <2>2, <3>1, <3>2 DEF Held
  <2> QED BY <2>1, <2>2
<1>10. Lost'
  <2> SUFFICES ASSUME NEW g \in Host, NEW t \in Step,
                      job'[g].outcome[t] = "rejected", job'[g].mine[t] = Latest(t)'
               PROVE  step'[t].state \in {"running", "failed"}
    BY Zenon DEF Lost
  <2> QED BY <1>1, <1>2, <1>4, <1>6 DEF Lost
<1>11. Placed'
  <2> SUFFICES ASSUME NEW t \in Step, step'[t].state = "passed"
               PROVE  /\ step'[t].result \in delivered'
                      /\ step'[t].result = Latest(t)'
                      /\ attempt'[step'[t].result].status # "failed"
    BY Zenon DEF Placed
  <2>1. t # s
    BY <1>2
  <2>2. step[t].result \in Attempt /\ step[t].result = Latest(t)
    BY <1>1, <1>2, <2>1 DEF Placed, ClaimsTypeOK
  <2>3. step[t].result # a
    BY <1>5, <2>2, LatestIs
  <2> QED BY <1>1, <1>2, <1>3, <1>6, <2>1, <2>2, <2>3 DEF Placed
<1> QED BY <1>9, <1>10, <1>11 DEF Safe

LEMMA SafeFails ==
  ASSUME ClaimInv, Safe, NEW h \in Host, NEW s \in Step, Fails(h, s), ~trespass'
  PROVE  Safe' /\ step[s].state # "passed"
<1>1. ClaimsTypeOK /\ BoundMine /\ Held /\ Lost /\ Placed
  BY DEF ClaimInv, MineInv, Safe
<1>2. /\ RowsKept /\ step'[s].state = "failed"
      /\ \A a \in Attempt :
           attempt'[a].status = IF a = ToFail(s) THEN "failed" ELSE attempt[a].status
      /\ \A t \in Step \ {s} : step'[t] = step[t]
      /\ ~Others(h, s)
  BY <1>1, FailIs DEF Fails
<1>3. /\ \A g \in Host \ {h} : job'[g] = job[g]
      /\ job'[h].outcome[s] = "dropped"
      /\ \A t \in Step \ {s} : job'[h].outcome[t] = job[h].outcome[t]
                               /\ job'[h].mine[t] = job[h].mine[t]
  <2>1. Sets(h, s, job[h].at, "dropped", 0)
        /\ job[h].at \in {"idle", "dispatching", "settling", "proving", "closing"}
    BY <1>1 DEF Fails, ClaimsTypeOK, Job
  <2>2. "dropped" \in Outcomes
    BY DEF Outcomes
  <2> QED BY <1>1, <2>1, <2>2, SetsIs
<1>4. \A t \in Step : Latest(t)' = Latest(t)
  BY <1>2, LatestKept
<1>5. \A t \in Step \ {s} : Latest(t) # 0 => Latest(t) \in Attempt /\ Latest(t) # ToFail(s)
  BY LatestIs, ToFailIs
<1>6. step[s].state # "passed"
  <2> SUFFICES ASSUME step[s].state = "passed" PROVE FALSE
    OBVIOUS
  <2>1. Latest(s) = job[h].mine[s]
    BY <1>2 DEF Others
  <2>2. Latest(s) # 0
    BY <1>1, Constants DEF Placed, ClaimsTypeOK, Attempt
  <2>3. job[h].outcome[s] \in {"working", "rejected"}
    BY <1>1, <2>1, <2>2 DEF Fails, BoundMine, Bound
  <2> QED BY <1>1, <2>1, <2>3 DEF Held, Lost
<1>7. \A g \in Host \ {h} : job[g].outcome[s] \notin {"working", "recorded"}
  <2> SUFFICES ASSUME NEW g \in Host \ {h}, job[g].outcome[s] \in {"working", "recorded"}
               PROVE  FALSE
    OBVIOUS
  <2>1. step[s].state = "running"
    BY <1>1 DEF Held
  <2>2. Latest(s) = job[h].mine[s]
    BY <1>2, <2>1 DEF Others
  <2> QED BY <1>1, <2>2, HolderIs
<1>8. Held'
  <2> SUFFICES ASSUME NEW g \in Host, NEW t \in Step,
                      job'[g].outcome[t] \in {"working", "recorded"}
               PROVE  /\ step'[t].state = "running"
                      /\ job'[g].mine[t] = Latest(t)'
                      /\ attempt'[job'[g].mine[t]].status = "started"
                      /\ job'[g].outcome[t] = "recorded" => step'[t].result = job'[g].mine[t]
    BY Zenon DEF Held
  <2>1. t # s
    BY <1>3, <1>7
  <2>2. job'[g].outcome[t] = job[g].outcome[t] /\ job'[g].mine[t] = job[g].mine[t]
    BY <1>3, <2>1
  <2>3. job[g].mine[t] # 0 /\ job[g].mine[t] = Latest(t)
    BY <1>1, <2>2 DEF BoundMine, Bound, Held
  <2> QED BY <1>1, <1>2, <1>4, <1>5, <2>1, <2>2, <2>3 DEF Held
<1>9. Lost'
  <2> SUFFICES ASSUME NEW g \in Host, NEW t \in Step,
                      job'[g].outcome[t] = "rejected", job'[g].mine[t] = Latest(t)'
               PROVE  step'[t].state \in {"running", "failed"}
    BY Zenon DEF Lost
  <2> QED BY <1>1, <1>2, <1>3, <1>4 DEF Lost
<1>10. Placed'
  <2> SUFFICES ASSUME NEW t \in Step, step'[t].state = "passed"
               PROVE  /\ step'[t].result \in delivered'
                      /\ step'[t].result = Latest(t)'
                      /\ attempt'[step'[t].result].status # "failed"
    BY Zenon DEF Placed
  <2>1. t # s
    BY <1>2
  <2>2. step[t].result \in Attempt /\ step[t].result = Latest(t)
    BY <1>1, <1>2, <2>1 DEF Placed, ClaimsTypeOK
  <2>3. Latest(t) # 0
    BY <2>2, Constants DEF Attempt
  <2>4. delivered' = delivered
    BY DEF Fails
  <2> QED BY <1>1, <1>2, <1>4, <1>5, <2>1, <2>2, <2>3, <2>4 DEF Placed
<1> QED BY <1>6, <1>8, <1>9, <1>10 DEF Safe

LEMMA SafeRecords ==
  ASSUME ClaimInv, Safe, NEW h \in Host, NEW s \in Step, Records(h, s)
  PROVE  Safe'
<1>1. ClaimsTypeOK /\ BoundMine /\ Held /\ Lost /\ Placed
  BY DEF ClaimInv, MineInv, Safe
<1>2. /\ job[h].outcome[s] = "working" /\ job[h].mine[s] = Latest(s)
      /\ UNCHANGED <<attempt, delivered>>
  BY DEF Records
<1>3. /\ step'[s].state = step[s].state /\ step'[s].result = job[h].mine[s]
      /\ \A t \in Step \ {s} : step'[t] = step[t]
  BY <1>1 DEF Records, ClaimsTypeOK, StepRow
<1>4. /\ \A g \in Host \ {h} : job'[g] = job[g]
      /\ job'[h].outcome[s] = "recorded" /\ job'[h].mine[s] = job[h].mine[s]
      /\ \A t \in Step \ {s} : job'[h].outcome[t] = job[h].outcome[t]
                               /\ job'[h].mine[t] = job[h].mine[t]
  <2>1. /\ Sets(h, s, job[h].at, "recorded", job[h].mine[s])
        /\ job[h].at \in {"idle", "dispatching", "settling", "proving", "closing"}
        /\ job[h].mine[s] \in Attempt \cup {0}
    BY <1>1 DEF Records, ClaimsTypeOK, Job
  <2>2. "recorded" \in Outcomes
    BY DEF Outcomes
  <2> QED BY <1>1, <2>1, <2>2, SetsIs
<1>5. \A t \in Step : Latest(t)' = Latest(t)
  BY <1>2, LatestKept DEF RowsKept
<1>6. \A g \in Host \ {h} : job[g].outcome[s] \notin {"working", "recorded"}
  BY <1>1, <1>2, HolderIs
<1>7. Held'
  BY <1>1, <1>2, <1>3, <1>4, <1>5, <1>6 DEF Held
<1>8. Lost'
  BY <1>1, <1>3, <1>4, <1>5 DEF Lost
<1>9. Placed'
  <2>1. step'[s].state = "running"
    BY <1>1, <1>2, <1>3 DEF Held
  <2> QED BY <1>1, <1>2, <1>3, <1>5, <2>1 DEF Placed
<1> QED BY <1>7, <1>8, <1>9 DEF Safe

LEMMA SafeMarked ==
  ASSUME ClaimInv, Safe, NEW h \in Host, NEW s \in Step, Marked(h, s)
  PROVE  Safe' /\ step[s].state # "passed"
<1>1. ClaimsTypeOK /\ BoundMine /\ DeliveredInv /\ Held /\ Lost /\ Placed
  BY DEF ClaimInv, MineInv, Safe
<1>2. PICK passed \in BOOLEAN :
        /\ step[s].state # "passed"
        /\ step' = [step EXCEPT ![s].state = IF passed THEN "passed" ELSE "failed"]
        /\ Sets(h, s, "closing", IF passed THEN "settled" ELSE "rejected", job[h].mine[s])
  BY Zenon DEF Marked
<1>3. job[h].at = "proving" /\ UNCHANGED <<attempt, delivered>>
  BY DEF Marked
<1>4. job[h].outcome[s] = "recorded"
  BY FirstRecorded DEF Marked
<1>5. /\ step'[s].state \in {"passed", "failed"} /\ step'[s].result = step[s].result
      /\ \A t \in Step \ {s} : step'[t] = step[t]
      /\ passed <=> step'[s].state = "passed"
  BY <1>1, <1>2 DEF ClaimsTypeOK, StepRow
<1>6. /\ \A g \in Host \ {h} : job'[g] = job[g]
      /\ job'[h].outcome[s] = (IF passed THEN "settled" ELSE "rejected")
      /\ \A t \in Step \ {s} : job'[h].outcome[t] = job[h].outcome[t]
                               /\ job'[h].mine[t] = job[h].mine[t]
  <2>1. /\ (IF passed THEN "settled" ELSE "rejected") \in Outcomes
        /\ job[h].mine[s] \in Attempt \cup {0}
    BY <1>1 DEF ClaimsTypeOK, Job, Outcomes
  <2> QED BY <1>1, <1>2, <2>1, SetsIs
<1>7. \A t \in Step : Latest(t)' = Latest(t)
  BY <1>3, LatestKept DEF RowsKept
<1>8. /\ job[h].mine[s] = Latest(s) /\ step[s].result = job[h].mine[s]
      /\ attempt[job[h].mine[s]].status = "started"
      /\ job[h].mine[s] \in delivered
  BY <1>1, <1>3, <1>4 DEF Held, DeliveredInv
<1>9. \A g \in Host \ {h} : job[g].outcome[s] \notin {"working", "recorded"}
  BY <1>1, <1>8, HolderIs
<1>10. \A g \in Host \ {h} : job[g].mine[s] # Latest(s)
  BY <1>1, <1>4, <1>8 DEF ClaimInv, MineInv, BoundMine, Bound
<1>11. Held'
  BY <1>1, <1>3, <1>5, <1>6, <1>7, <1>9 DEF Held
<1>12. Lost'
  BY <1>1, <1>5, <1>6, <1>7, <1>10 DEF Lost
<1>13. Placed'
  BY <1>1, <1>3, <1>5, <1>7, <1>8 DEF Placed
<1> QED BY <1>2, <1>11, <1>12, <1>13 DEF Safe

LEMMA SafeCloses ==
  ASSUME ClaimInv, Safe, NEW h \in Host, Close(h)
  PROVE  Safe'
<1> DEFINE c == Closing(h)
           m == job[h].mine[c]
<1>1. ClaimsTypeOK /\ BoundMine /\ ClosingInv /\ Held /\ Lost /\ Placed
  BY DEF ClaimInv, MineInv, Safe
<1>2. /\ job[h].at = "closing" /\ RowsKept /\ UNCHANGED <<step, delivered>>
      /\ \A a \in Attempt : attempt'[a].status =
           IF a = m THEN Status(job[h].outcome[c]) ELSE attempt[a].status
      /\ Moves(h, "settling")
  BY <1>1, CloseIs DEF Close
<1>3. c \in Step /\ job[h].outcome[c] \in {"settled", "rejected"}
  BY <1>1, <1>2, ClosingIs DEF ClosingInv
<1>4. m \in Attempt /\ attempt[m].step = c
  BY <1>1, <1>3, MineUsed DEF BoundMine, Bound
<1> HIDE DEF c
<1>5. \A g \in Host, t \in Step :
        job'[g].outcome[t] = job[g].outcome[t] /\ job'[g].mine[t] = job[g].mine[t]
  BY <1>1, <1>2, MovesIs
<1>6. \A t \in Step : Latest(t)' = Latest(t)
  BY <1>2, LatestKept
<1>7. \A g \in Host, t \in Step : job[g].outcome[t] \in {"working", "recorded"} =>
        job[g].mine[t] \in Attempt \ {m}
  <2> SUFFICES ASSUME NEW g \in Host, NEW t \in Step,
                      job[g].outcome[t] \in {"working", "recorded"}
               PROVE  job[g].mine[t] \in Attempt \ {m}
    OBVIOUS
  <2>1. job[g].mine[t] # 0
    BY <1>1 DEF BoundMine, Bound
  <2>2. job[g].mine[t] \in Attempt /\ attempt[job[g].mine[t]].step = t
    BY <2>1, MineUsed
  <2>3. CASE t = c
    <3>1. g # h
      BY <1>3, <2>3
    <3> QED BY <2>1, <2>2, <2>3, <3>1 DEF ClaimInv, MineInv
  <2>4. CASE t # c
    BY <1>4, <2>2, <2>4
  <2> QED BY <2>3, <2>4
<1>8. Held'
  BY <1>1, <1>2, <1>5, <1>6, <1>7 DEF Held
<1>9. Lost'
  BY <1>1, <1>2, <1>5, <1>6 DEF Lost
<1>10. Placed'
  <2> SUFFICES ASSUME NEW t \in Step, step'[t].state = "passed"
               PROVE  /\ step'[t].result \in delivered'
                      /\ step'[t].result = Latest(t)'
                      /\ attempt'[step'[t].result].status # "failed"
    BY Zenon DEF Placed
  <2>1. /\ step[t].result \in delivered /\ step[t].result = Latest(t)
        /\ attempt[step[t].result].status # "failed" /\ step[t].state = "passed"
    BY <1>1, <1>2 DEF Placed
  <2>2. step[t].result \in Attempt
    BY <1>1, <2>1 DEF ClaimsTypeOK
  <2>3. CASE step[t].result # m
    BY <1>2, <1>6, <2>1, <2>2, <2>3
  <2>4. CASE step[t].result = m
    <3>1. t = c
      <4>1. attempt[Latest(t)].step = t
        BY <2>1, <2>2, LatestIs, Constants DEF Attempt
      <4> QED BY <1>4, <2>1, <2>4, <4>1
    <3>2. job[h].outcome[c] = "settled"
      BY <1>1, <1>3, <2>1, <2>4, <3>1 DEF Lost
    <3>3. attempt'[m].status = "passed"
      BY <1>2, <1>4, <3>2 DEF Status
    <3> QED BY <1>2, <1>6, <2>1, <2>4, <3>3
  <2> QED BY <2>3, <2>4
<1> QED BY <1>8, <1>9, <1>10 DEF Safe

(* A step that takes no other's work away keeps Safe, and un-passes nothing. *)
Unpasses == \E s \in Step : step[s].state = "passed" /\ step'[s].state # "passed"

LEMMA SafeHost ==
  ASSUME ClaimInv, SafeInv, NEW h \in Host, HostSteps(h), ~trespass'
  PROVE  Safe' /\ ~Unpasses
<1>0. ClaimsTypeOK /\ BoundMine
  BY DEF ClaimInv, MineInv
<1>a. /\ job[h].at \in {"idle", "dispatching", "settling", "proving", "closing"}
      /\ \A s \in Step : job[h].mine[s] \in Attempt \cup {0}
  BY <1>0 DEF ClaimsTypeOK, Job
<1>b. ~trespass /\ Safe
  <2>1. ASSUME NEW s \in Step, Fails(h, s) PROVE ~trespass
    BY <1>0, <2>1, FailIs DEF Fails
  <2>2. ASSUME NEW s \in Step,
               \/ Claimed(h, s) \/ Yields(h, s) \/ Records(h, s)
               \/ Proves(h, s) \/ Rejects(h, s) \/ Marked(h, s)
        PROVE  ~trespass
    BY <2>2 DEF Claimed, Yields, Records, Proves, Rejects, Marked
  <2>3. ASSUME Select(h) \/ Deliver(h) \/ Close(h) \/ Ends(h) PROVE ~trespass
    BY <1>0, <2>3, CloseIs DEF Select, Deliver, Ends
  <2> QED BY <2>1, <2>2, <2>3 DEF HostSteps, SafeInv
<1>1. ASSUME NEW s \in Step, Claimed(h, s) PROVE Safe' /\ ~Unpasses
  <2>1. Safe'
    BY <1>b, <1>1, SafeClaimed
  <2>2. /\ step[s].state # "passed"
        /\ \A t \in Step \ {s} : step'[t] = step[t]
    BY <1>0, <1>1, ClaimedIs DEF Claimed, Claimable
  <2> QED BY <2>1, <2>2 DEF Unpasses
<1>2. ASSUME NEW s \in Step, Yields(h, s) PROVE Safe' /\ ~Unpasses
  <2>1. PICK outcome \in {"stale", "taken", "conflict"}, mine \in {0, job[h].mine[s]} :
          Sets(h, s, job[h].at, outcome, mine)
    BY <1>2 DEF Yields
  <2>2. outcome \in Outcomes /\ outcome \notin {"working", "recorded", "rejected"}
    BY DEF Outcomes
  <2>3. UNCHANGED <<step, attempt, delivered>>
    BY <1>2 DEF Yields
  <2>4. Safe'
    BY <1>a, <1>b, <2>1, <2>2, <2>3, SafeSets
  <2> QED BY <2>3, <2>4 DEF Unpasses
<1>3. ASSUME NEW s \in Step, Fails(h, s) PROVE Safe' /\ ~Unpasses
  <2>1. Safe' /\ step[s].state # "passed"
    BY <1>b, <1>3, SafeFails
  <2>2. \A t \in Step \ {s} : step'[t] = step[t]
    BY <1>0, <1>3, FailIs DEF Fails
  <2> QED BY <2>1, <2>2 DEF Unpasses
<1>4. ASSUME NEW s \in Step, Records(h, s) PROVE Safe' /\ ~Unpasses
  <2>1. Safe'
    BY <1>b, <1>4, SafeRecords
  <2>2. \A t \in Step : step'[t].state = step[t].state
    BY <1>0, <1>4 DEF Records, ClaimsTypeOK, StepRow
  <2> QED BY <2>1, <2>2 DEF Unpasses
<1>5. ASSUME NEW s \in Step, Proves(h, s) PROVE Safe' /\ ~Unpasses
  <2>1. UNCHANGED <<step, attempt, delivered>>
    BY <1>5 DEF Proves
  <2>2. \A g \in Host, t \in Step :
          job'[g].outcome[t] = job[g].outcome[t] /\ job'[g].mine[t] = job[g].mine[t]
    BY <1>0, <1>5, MovesIs DEF Proves
  <2>3. Safe'
    BY <1>b, <2>1, <2>2, SafeStands
  <2> QED BY <2>1, <2>3 DEF Unpasses
<1>6. ASSUME NEW s \in Step, Rejects(h, s) PROVE Safe' /\ ~Unpasses
  <2>1. /\ UNCHANGED <<step, attempt, delivered>> /\ job[h].outcome[s] = "recorded"
        /\ Sets(h, s, job[h].at, "rejected", job[h].mine[s])
    BY <1>6 DEF Rejects
  <2>2. Safe'
    BY <1>a, <1>b, <2>1, SafeSets DEF Outcomes
  <2> QED BY <2>1, <2>2 DEF Unpasses
<1>7. ASSUME NEW s \in Step, Marked(h, s) PROVE Safe' /\ ~Unpasses
  <2>1. Safe' /\ step[s].state # "passed"
    BY <1>b, <1>7, SafeMarked
  <2>2. \A t \in Step \ {s} : step'[t] = step[t]
    BY <1>0, <1>7 DEF Marked, ClaimsTypeOK
  <2> QED BY <2>1, <2>2 DEF Unpasses
<1>8. ASSUME Select(h) PROVE Safe' /\ ~Unpasses
  <2>1. /\ UNCHANGED <<step, attempt, delivered>>
        /\ \A g \in Host \ {h} : job'[g] = job[g]
        /\ \A s \in Step : job'[h].outcome[s] \in {"none", "todo"}
    BY <1>0, <1>8, SelectIs
  <2>2. Safe'
    BY <1>b, <2>1, SafeStands
  <2> QED BY <2>1, <2>2 DEF Unpasses
<1>9. ASSUME Deliver(h) PROVE Safe' /\ ~Unpasses
  <2>1. /\ Moves(h, "settling") /\ UNCHANGED <<step, attempt>>
        /\ delivered \subseteq delivered'
    BY <1>9 DEF Deliver, Moves
  <2>2. \A g \in Host, t \in Step :
          job'[g].outcome[t] = job[g].outcome[t] /\ job'[g].mine[t] = job[g].mine[t]
    BY <1>0, <2>1, MovesIs
  <2>3. Safe'
    BY <1>b, <2>1, <2>2, SafeStands
  <2> QED BY <2>1, <2>3 DEF Unpasses
<1>10. ASSUME Close(h) PROVE Safe' /\ ~Unpasses
  <2>1. Safe' /\ step' = step
    BY <1>0, <1>b, <1>10, SafeCloses, CloseIs
  <2> QED BY <2>1 DEF Unpasses
<1>11. ASSUME Ends(h) PROVE Safe' /\ ~Unpasses
  <2>1. /\ UNCHANGED <<step, attempt, delivered>>
        /\ \A g \in Host \ {h} : job'[g] = job[g]
        /\ \A s \in Step : job'[h].outcome[s] = "none"
    BY <1>0, <1>11, EndsIs, NoJobIs DEF Ends
  <2>2. Safe'
    BY <1>b, <2>1, SafeStands
  <2> QED BY <2>1, <2>2 DEF Unpasses
<1> QED BY <1>1, <1>2, <1>3, <1>4, <1>5, <1>6, <1>7, <1>8, <1>9, <1>10, <1>11 DEF HostSteps

LEMMA SafeStep ==
  ASSUME ClaimInv, SafeInv, [Next]_vars
  PROVE  SafeInv' /\ (~trespass' => ~Unpasses)
<1>1. CASE UNCHANGED vars
  <2>1. UNCHANGED <<step, attempt, job, delivered, trespass>>
    BY <1>1 DEF vars
  <2>2. Safe => Safe'
    BY <2>1, SafeStands
  <2> QED BY <2>1, <2>2 DEF SafeInv, Unpasses
<1>2. CASE Around
  <2>1. UNCHANGED <<step, attempt, job, delivered, trespass>>
    BY <1>2 DEF Around
  <2>2. Safe => Safe'
    BY <2>1, SafeStands
  <2> QED BY <2>1, <2>2 DEF SafeInv, Unpasses
<1>3. CASE \E h \in Host : HostSteps(h)
  BY <1>3, SafeHost DEF SafeInv
<1>4. ClaimsTypeOK
  BY DEF ClaimInv
<1> QED BY <1>1, <1>2, <1>3, <1>4, Kinds

LEMMA SafeInvariant == Spec => []SafeInv
<1>1. Init => SafeInv
  <2> SUFFICES ASSUME Init PROVE Safe
    BY DEF SafeInv
  <2>1. /\ \A h \in Host : job[h] = NoJob
        /\ \A s \in Step : step[s] = [state |-> "ready", result |-> 0]
    BY DEF Init
  <2> QED BY <2>1, NoJobIs DEF Safe, Held, Lost, Placed
<1>2. ClaimInv /\ SafeInv /\ [Next]_vars => SafeInv'
  BY SafeStep
<1> QED BY <1>1, <1>2, ClaimsInvariant, PTL DEF Spec

(* Two workers are never at one step, as long as no Host has failed a step     *)
(* that was another's (OneWriter).                                             *)
THEOREM OneWriterHolds == Spec => []OneWriter
<1>1. ClaimInv /\ SafeInv => OneWriter
  <2> SUFFICES ASSUME ClaimInv, Safe, NEW s \in Step, NEW g \in Host, NEW h \in Host,
                      job[g].outcome[s] = "working", job[h].outcome[s] = "working"
               PROVE  g = h
    BY DEF SafeInv, OneWriter
  <2>1. job[h].mine[s] = Latest(s) /\ Held
    BY DEF Safe, Held
  <2> QED BY <2>1, HolderIs
<1> QED BY <1>1, ClaimsInvariant, SafeInvariant, PTL

(* A passed step holds the result that was delivered for it                    *)
(* (PassedIsDelivered).                                                        *)
THEOREM PassedDelivered == Spec => []PassedIsDelivered
<1>1. ClaimInv /\ SafeInv => PassedIsDelivered
  <2> SUFFICES ASSUME ClaimInv, Placed, NEW s \in Step, step[s].state = "passed"
               PROVE  /\ step[s].result \in delivered
                      /\ attempt[step[s].result].step = s
                      /\ attempt[step[s].result].status # "failed"
    BY DEF SafeInv, Safe, PassedIsDelivered
  <2>1. step[s].result \in delivered /\ step[s].result = Latest(s)
        /\ attempt[step[s].result].status # "failed"
    BY DEF Placed
  <2>2. step[s].result # 0
    BY <2>1, Constants DEF ClaimInv, ClaimsTypeOK, Attempt
  <2> QED BY <2>1, <2>2, LatestIs
<1> QED BY <1>1, ClaimsInvariant, SafeInvariant, PTL

(* No step of any Host takes a passed step back, unless it fails what was       *)
(* another's (PassedStays).                                                    *)
THEOREM PassedStaysHolds == Spec => PassedStays
<1>1. ClaimInv /\ SafeInv /\ [Next]_vars =>
        [\A s \in Step : (step[s].state = "passed" /\ ~trespass') => step'[s].state = "passed"]_vars
  BY SafeStep DEF Unpasses
<1> QED BY <1>1, ClaimsInvariant, SafeInvariant, PTL DEF Spec, PassedStays

=============================================================================
