----------------------- MODULE IndependentReview_proofs -----------------------
(***************************************************************************)
(* Proofs about IndependentReview, for any sets of Hosts and operators, any *)
(* contents, evidence and paths, and any bounds.                           *)
(***************************************************************************)
EXTENDS IndependentReview, TLAPS

(* What a call has by the time it needs it: a subject once it has a turn, a   *)
(* verdict once it has ingested or approved, a receipt once it has settled.   *)
Ripe == {"ingested", "recording", "settled", "approving"}
FormedJob(j) ==
  /\ j.at # "idle" => j.content \in Content
  /\ j.at \in Ripe => j.verdict \in Verdict
  /\ j.at = "settled" => j.receipt \in Receipt
Formed == \A a \in Actor : FormedJob(job[a])

TypeInv == ReviewTypeOK /\ Formed

-----------------------------------------------------------------------------
(* Types. *)

LEMMA NoJobTyped == NoJob \in Job /\ FormedJob(NoJob)
<1>1. MaxRevision \in Nat
  BY ReviewAssumption
<1> QED
  BY <1>1 DEF NoJob, Job, Places, FormedJob, Ripe

LEMMA TypeInit == Init => TypeInv
<1> SUFFICES ASSUME Init PROVE TypeInv
  OBVIOUS
<1>1. MaxRevision \in Nat /\ MaxOthers \in Nat
  BY ReviewAssumption
<1>2. job \in [Actor -> Job] /\ Formed
  BY NoJobTyped DEF Init, Formed
<1>3. run \in [revision : 0..MaxRevision, content : Content]
  BY <1>1 DEF Init
<1>4. others \in 0..MaxOthers
  BY <1>1 DEF Init
<1> QED
  BY <1>2, <1>3, <1>4, Zenon DEF Init, TypeInv, ReviewTypeOK

(* A job that is replaced by a well-formed one leaves all of them well-formed. *)
LEMMA OneJob ==
  ASSUME TypeInv, NEW a \in Actor, NEW j \in Job, FormedJob(j),
         job' = [job EXCEPT ![a] = j]
  PROVE  job' \in [Actor -> Job] /\ Formed'
<1>1. job' \in [Actor -> Job]
  BY DEF TypeInv, ReviewTypeOK
<1>2. ASSUME NEW b \in Actor PROVE FormedJob(job[b])'
  <2>1. CASE b = a
    BY <2>1, <1>1 DEF TypeInv, ReviewTypeOK, FormedJob
  <2>2. CASE b # a
    <3>1. job'[b] = job[b]
      BY <2>2 DEF TypeInv, ReviewTypeOK
    <3> QED
      BY <3>1 DEF TypeInv, Formed, FormedJob
  <2> QED
    BY <2>1, <2>2
<1> QED
  BY <1>1, <1>2 DEF Formed

(* What one job is: its fields, and nothing else. *)
LEMMA JobFields ==
  ASSUME TypeInv, NEW a \in Actor
  PROVE  /\ job[a] = [at |-> job[a].at, revision |-> job[a].revision,
                      content |-> job[a].content, found |-> job[a].found,
                      verdict |-> job[a].verdict, receipt |-> job[a].receipt,
                      late |-> job[a].late]
         /\ job[a] \in Job /\ FormedJob(job[a])
  BY DEF TypeInv, ReviewTypeOK, Job, Formed

LEMMA JobTyped ==
  ASSUME TypeInv, NEW a \in Actor PROVE job[a] \in Job /\ FormedJob(job[a])
  BY JobFields

LEMMA GoesTyped ==
  ASSUME TypeInv, NEW a \in Actor, NEW from, NEW to \in Places, Go(a, from, to),
         from # "idle", to \notin Ripe
  PROVE  job' \in [Actor -> Job] /\ Formed'
<1> DEFINE j == [job[a] EXCEPT !.at = to]
<1>1. j \in Job
  BY JobFields DEF Job
<1>2. FormedJob(j)
  BY JobFields DEF FormedJob, Go, Job, Ripe
<1>3. job' = [job EXCEPT ![a] = j]
  BY DEF Go
<1> QED
  BY <1>1, <1>2, <1>3, OneJob

LEMMA EndsTyped ==
  ASSUME TypeInv, NEW a \in Actor, NEW from, Ends(a, from)
  PROVE  job' \in [Actor -> Job] /\ Formed'
  BY NoJobTyped, OneJob DEF Ends

LEMMA ObservesTyped ==
  ASSUME TypeInv, NEW who, Observes(who)
  PROVE  /\ run' \in [revision : 0..MaxRevision, content : Content]
         /\ moved' \in BOOLEAN /\ run.revision <= run'.revision
         /\ run.content = tree => run' = run /\ moved' = moved
         /\ tree = run'.content
<1>1. run \in [revision : 0..MaxRevision, content : Content] /\ tree \in Content
      /\ MaxRevision \in Nat /\ moved \in BOOLEAN
  BY ReviewAssumption DEF TypeInv, ReviewTypeOK
<1>2. CASE run.content = tree
  BY <1>1, <1>2 DEF Observes
<1>3. CASE run.content # tree
  <2>1. run' = [revision |-> run.revision + 1, content |-> tree] /\ run.revision < MaxRevision
    BY <1>3 DEF Observes
  <2>2. moved' \in BOOLEAN
    BY <1>3 DEF Observes
  <2> QED
    BY <1>1, <1>3, <2>1, <2>2
<1> QED
  BY <1>2, <1>3

(* The receipt that settles a review is a receipt, the new one or an old one. *)
LEMMA SettlesTyped ==
  ASSUME TypeInv, NEW a \in Actor, NEW r \in Receipt, Settles(a, r),
         job[a].at \in {"recording", "approving"}
  PROVE  /\ job' \in [Actor -> Job] /\ Formed'
         /\ receipts' \subseteq Receipt
         /\ Settled(r) \in Receipt /\ Settled(r) \in receipts'
<1>1. Settled(r) \in Receipt
  BY DEF Settled, TypeInv, ReviewTypeOK
<1> DEFINE j == [job[a] EXCEPT !.at = "settled", !.receipt = Settled(r)]
<1>2. j \in Job
  BY <1>1, JobFields DEF Job, Places, Working
<1>3. FormedJob(j)
  BY <1>1, JobFields DEF FormedJob, Ripe, Job
<1>4. job' = [job EXCEPT ![a] = j]
  BY DEF Settles
<1> QED
  BY <1>1, <1>2, <1>3, <1>4, OneJob DEF Settles, TypeInv, ReviewTypeOK

-----------------------------------------------------------------------------
(* Each step keeps the types. *)

LEMMA DispatchTyped ==
  ASSUME TypeInv, NEW h \in Host, Dispatch(h) PROVE TypeInv'
<1> USE DEF Actor
<1>0. MaxRevision \in Nat /\ MaxOthers \in Nat
  BY ReviewAssumption
<1>1. CASE Prepare(h)
  <2> DEFINE j == [job[h] EXCEPT !.at = "prepared", !.revision = run.revision,
                                 !.content = run.content]
  <2>a. job[h] \in Job /\ run.revision \in 0..MaxRevision /\ run.content \in Content
    BY JobTyped DEF TypeInv, ReviewTypeOK
  <2>b. j \in Job /\ j.at = "prepared" /\ j.content \in Content
    BY <2>a DEF Job, Places
  <2>2. job' = [job EXCEPT ![h] = j]
    BY <1>1 DEF Prepare
  <2> HIDE DEF j
  <2>1. j \in Job /\ FormedJob(j)
    BY <2>b DEF FormedJob, Ripe
  <2>3. job' \in [Actor -> Job] /\ Formed'
    BY <2>1, <2>2, OneJob
  <2> QED
    BY <1>1, <2>3 DEF Prepare, TypeInv, ReviewTypeOK
<1>2. CASE LookAgain(h)
  <2>1. job' \in [Actor -> Job] /\ Formed'
    BY <1>2, GoesTyped, EndsTyped DEF LookAgain, Places, Ripe
  <2> QED
    BY <1>2, <2>1 DEF LookAgain, TypeInv, ReviewTypeOK
<1>3. CASE Claim(h)
  <2>1. job' \in [Actor -> Job] /\ Formed'
    BY <1>3, GoesTyped, EndsTyped DEF Claim, Places, Working, Ripe
  <2>2. claim' \in [by : Host, revision : 0..MaxRevision] \cup {None}
    BY <1>3, JobFields DEF Claim, TypeInv, ReviewTypeOK, Job
  <2> QED
    BY <1>3, <2>1, <2>2 DEF Claim, TypeInv, ReviewTypeOK
<1>4. CASE FallBack(h)
  BY <1>4, EndsTyped, ObservesTyped DEF FallBack, TypeInv, ReviewTypeOK
<1>5. CASE GiveUp(h)
  BY <1>5, EndsTyped DEF GiveUp, TypeInv, ReviewTypeOK
<1>6. ASSUME NEW verdict \in Verdict \cup {None}, Ingest(h, verdict) PROVE TypeInv'
  <2>1. CASE tree # run.content \/ ~Chain(h) \/ verdict = None
    <3>1. Ends(h, "reviewing") /\ (Observes(h) \/ UNCHANGED <<run, moved>>)
      BY <1>6, <2>1 DEF Ingest
    <3> QED
      BY <1>6, <3>1, EndsTyped, ObservesTyped DEF Ingest, TypeInv, ReviewTypeOK
  <2>2. CASE tree = run.content /\ Chain(h) /\ verdict # None
    <3> DEFINE j == [job[h] EXCEPT !.at = "ingested", !.verdict = verdict]
    <3>1. job' = [job EXCEPT ![h] = j] /\ job[h].at = "reviewing" /\ UNCHANGED <<run, moved>>
      BY <1>6, <2>2 DEF Ingest
    <3>2. j \in Job /\ FormedJob(j)
      BY <2>2, <3>1, JobFields DEF Job, Places, Working, FormedJob, Ripe
    <3>3. job' \in [Actor -> Job] /\ Formed'
      BY <3>1, <3>2, OneJob
    <3> QED
      BY <1>6, <3>1, <3>3 DEF Ingest, TypeInv, ReviewTypeOK
  <2> QED
    BY <2>1, <2>2
<1>7. CASE Record(h)
  <2>1. job' \in [Actor -> Job] /\ Formed'
    <3>1. CASE tree # run.content
      BY <1>7, <3>1, EndsTyped DEF Record
    <3>2. CASE tree = run.content
      <4> DEFINE j == [job[h] EXCEPT !.at = "recording", !.found = run.content]
      <4>1. job' = [job EXCEPT ![h] = j] /\ job[h].at = "ingested"
        BY <1>7, <3>2 DEF Record
      <4>a. job[h] \in Job /\ run.content \in Content
            /\ job[h].content \in Content /\ job[h].verdict \in Verdict
        BY <4>1, JobFields DEF FormedJob, Ripe, TypeInv, ReviewTypeOK
      <4>b. /\ j \in Job /\ j.at = "recording"
            /\ j.content = job[h].content /\ j.verdict = job[h].verdict
        BY <4>a DEF Job, Places, Working
      <4> HIDE DEF j
      <4>2. j \in Job /\ FormedJob(j)
        BY <4>a, <4>b DEF FormedJob
      <4> QED
        BY <4>1, <4>2, OneJob
    <3> QED
      BY <3>1, <3>2
  <2> QED
    BY <1>7, <2>1, ObservesTyped DEF Record, TypeInv, ReviewTypeOK
<1>8. CASE Settle(h)
  <2>1. CASE Ends(h, "recording") /\ Observes(h) /\ UNCHANGED receipts
    BY <1>8, <2>1, EndsTyped, ObservesTyped DEF Settle, TypeInv, ReviewTypeOK
  <2>2. CASE ~(Ends(h, "recording") /\ Observes(h) /\ UNCHANGED receipts)
    <3> DEFINE r == [subject |-> [revision |-> run.revision, content |-> run.content,
                                  evidence |-> evidence, paths |-> PathsOf[h]],
                     verdict |-> job[h].verdict, routed |-> TRUE, shown |-> job[h].content]
    <3>1. r \in Receipt
      BY <1>8, JobFields, ReviewAssumption
      DEF Settle, Receipt, Subject, TypeInv, ReviewTypeOK, FormedJob, Ripe
    <3>2. Settles(h, r) /\ job[h].at = "recording" /\ UNCHANGED <<run, moved>>
      BY <1>8, <2>2 DEF Settle
    <3> QED
      BY <1>8, <3>1, <3>2, SettlesTyped DEF Settle, TypeInv, ReviewTypeOK
  <2> QED
    BY <2>1, <2>2
<1> QED
  BY <1>1, <1>2, <1>3, <1>4, <1>5, <1>6, <1>7, <1>8 DEF Dispatch

LEMMA OthersTyped ==
  ASSUME TypeInv, Next, \A h \in Host : ~Dispatch(h) PROVE TypeInv'
<1>0. MaxRevision \in Nat /\ MaxOthers \in Nat /\ others \in 0..MaxOthers
  BY ReviewAssumption DEF TypeInv, ReviewTypeOK
<1>1. ASSUME NEW o \in Operator, Approve(o) PROVE TypeInv'
  <2>1. run' \in [revision : 0..MaxRevision, content : Content] /\ moved' \in BOOLEAN
    BY <1>1, ObservesTyped DEF Approve
  <2> DEFINE j == [job[o] EXCEPT !.at = "approving", !.revision = run'.revision,
                                 !.content = run'.content, !.verdict = "pass"]
  <2>2. o \in Actor
    BY DEF Actor
  <2>3. j \in Job /\ FormedJob(j)
    BY <2>1, <2>2, JobFields DEF Job, Places, FormedJob, Ripe, Verdict
  <2>4. job' = [job EXCEPT ![o] = j]
    BY <1>1 DEF Approve
  <2>5. job' \in [Actor -> Job] /\ Formed'
    BY <2>2, <2>3, <2>4, OneJob
  <2> QED
    BY <1>0, <1>1, <2>1, <2>5 DEF Approve, TypeInv, ReviewTypeOK
<1>2. ASSUME NEW o \in Operator, SettleApproval(o) PROVE TypeInv'
  <2> DEFINE r == [subject |-> [revision |-> job[o].revision, content |-> job[o].content,
                                evidence |-> evidence, paths |-> PathsOf[o]],
                   verdict |-> "pass", routed |-> TRUE, shown |-> job[o].content]
  <2>1. o \in Actor
    BY DEF Actor
  <2>2. r \in Receipt
    BY <1>2, <2>1, JobFields, ReviewAssumption
    DEF SettleApproval, Receipt, Subject, Verdict, Job, TypeInv, ReviewTypeOK, FormedJob
  <2>3. Settles(o, r) /\ job[o].at = "approving"
    BY <1>2 DEF SettleApproval
  <2> QED
    BY <1>2, <2>1, <2>2, <2>3, SettlesTyped DEF SettleApproval, TypeInv, ReviewTypeOK
<1>3. ASSUME NEW a \in Actor, Prove(a) PROVE TypeInv'
  <2>1. proof' \in [passed : BOOLEAN, revision : 0..MaxRevision, receipt : Receipt]
    BY <1>3, JobFields DEF Prove, Ends, FormedJob, TypeInv, ReviewTypeOK
  <2> QED
    BY <1>3, <2>1, EndsTyped DEF Prove, TypeInv, ReviewTypeOK
<1>4. ASSUME NEW a \in Actor, Crash(a) PROVE TypeInv'
  BY <1>4, EndsTyped DEF Crash, TypeInv, ReviewTypeOK
<1>5. ASSUME NEW verdict \in Verdict, NEW p \in Paths, CallerReviews(verdict, p)
      PROVE  TypeInv'
  <2> DEFINE r == [subject |-> [revision |-> run.revision, content |-> tree,
                                evidence |-> evidence, paths |-> p],
                   verdict |-> verdict, routed |-> FALSE, shown |-> tree]
  <2>1. r \in Receipt
    BY DEF Receipt, Subject, TypeInv, ReviewTypeOK
  <2>2. receipts' = receipts \cup {r}
        /\ proof' = [passed |-> verdict = "pass", revision |-> run.revision, receipt |-> r]
    BY <1>5 DEF CallerReviews
  <2>3. proof' \in [passed : BOOLEAN, revision : 0..MaxRevision, receipt : Receipt]
    BY <2>1, <2>2 DEF TypeInv, ReviewTypeOK
  <2>4. receipts' \subseteq Receipt
    BY <2>1, <2>2 DEF TypeInv, ReviewTypeOK
  <2>5. others' \in 0..MaxOthers
    BY <1>0, <1>5 DEF CallerReviews
  <2>6. UNCHANGED <<tree, run, evidence, claim, job, moved>>
    BY <1>5 DEF CallerReviews
  <2> QED
    BY <2>3, <2>4, <2>5, <2>6 DEF TypeInv, ReviewTypeOK, Formed
<1>6. CASE Edit
  BY <1>6 DEF Edit, TypeInv, ReviewTypeOK, Formed
<1>7. CASE ReportObserves
  BY <1>7, ObservesTyped DEF ReportObserves, TypeInv, ReviewTypeOK, Formed
<1>8. CASE ProofRuns
  BY <1>0, <1>8 DEF ProofRuns, TypeInv, ReviewTypeOK, Formed
<1>9. CASE ClaimExpires
  <2> DEFINE a == claim.by
             j == [job[a] EXCEPT !.late = (job[a].at \in Working)]
  <2>1. a \in Actor
    BY <1>9 DEF ClaimExpires, TypeInv, ReviewTypeOK, Actor
  <2>2. j \in Job /\ FormedJob(j)
    <3>1. ASSUME NEW b \in BOOLEAN
          PROVE  [job[a] EXCEPT !.late = b] \in Job /\ FormedJob([job[a] EXCEPT !.late = b])
      <4>1. job[a] \in Job /\ FormedJob(job[a])
        BY <2>1, JobTyped
      <4> DEFINE l == [job[a] EXCEPT !.late = b]
      <4>2. /\ l \in Job /\ l.at = job[a].at /\ l.content = job[a].content
            /\ l.verdict = job[a].verdict /\ l.receipt = job[a].receipt
        BY <4>1 DEF Job
      <4> HIDE DEF l
      <4>3. FormedJob(l)
        BY <4>1, <4>2 DEF FormedJob
      <4> QED
        BY <4>2, <4>3 DEF l
    <3>2. (job[a].at \in Working) \in BOOLEAN
      OBVIOUS
    <3> QED
      BY <3>1, <3>2, Zenon
  <2>3. job' = [job EXCEPT ![a] = j]
    BY <1>9 DEF ClaimExpires
  <2>4. job' \in [Actor -> Job] /\ Formed'
    BY <2>1, <2>2, <2>3, OneJob
  <2> QED
    BY <1>9, <2>4 DEF ClaimExpires, TypeInv, ReviewTypeOK
<1> QED
  BY <1>1, <1>2, <1>3, <1>4, <1>5, <1>6, <1>7, <1>8, <1>9 DEF Next

LEMMA TypeStep == TypeInv /\ [Next]_vars => TypeInv'
<1>1. ASSUME TypeInv, UNCHANGED vars PROVE TypeInv'
  BY <1>1 DEF vars, TypeInv, ReviewTypeOK, Formed
<1> QED
  BY <1>1, DispatchTyped, OthersTyped

LEMMA TypeInvariant == Spec => []TypeInv
  BY TypeInit, TypeStep, PTL DEF Spec

(* Every reachable state is of the declared shape. *)
THEOREM ReviewTypeCorrect == Spec => []ReviewTypeOK
  BY TypeInvariant, PTL DEF TypeInv

-----------------------------------------------------------------------------
(* Receipts.  A subject has at most one receipt of a routed review, and what is  *)
(* about to prove the obligation, or does, is on record.                        *)
OneRouted ==
  \A q, r \in receipts : (q.routed /\ r.routed /\ q.subject = r.subject) => q = r
OnRecord ==
  /\ proof # None => proof.receipt \in receipts
  /\ \A a \in Actor : job[a].at = "settled" => job[a].receipt \in receipts
RecordInv == OneRouted /\ OnRecord

(* Nobody settles or proves anything. *)
Unsettling ==
  /\ UNCHANGED <<receipts, proof>>
  /\ \A a \in Actor : job'[a].at = "settled" =>
       job[a].at = "settled" /\ job'[a].receipt = job[a].receipt

LEMMA UnsettlingGo ==
  ASSUME TypeInv, NEW a \in Actor, NEW from, NEW to, UNCHANGED <<receipts, proof>>,
         Go(a, from, to), to # "settled"
  PROVE  Unsettling
<1>1. \A b \in Actor : job'[b] = IF b = a THEN [job[a] EXCEPT !.at = to] ELSE job[b]
  BY DEF Go, TypeInv, ReviewTypeOK
<1>2. [job[a] EXCEPT !.at = to].at = to
  BY JobFields DEF Job
<1> QED
  BY <1>1, <1>2 DEF Unsettling

LEMMA UnsettlingEnd ==
  ASSUME TypeInv, NEW a \in Actor, NEW from, UNCHANGED <<receipts, proof>>, Ends(a, from)
  PROVE  Unsettling
  BY DEF Ends, NoJob, Unsettling, TypeInv, ReviewTypeOK

LEMMA Kinds ==
  ASSUME TypeInv, Next
  PROVE  \/ Unsettling
         \/ \E a \in Actor, r \in Receipt :
              r.routed /\ Settles(a, r) /\ job[a].at # "settled" /\ UNCHANGED proof
         \/ \E a \in Actor : Prove(a)
         \/ \E verdict \in Verdict, p \in Paths : CallerReviews(verdict, p)
<1> DEFINE Goal == \/ Unsettling
                   \/ \E a \in Actor, r \in Receipt :
                        r.routed /\ Settles(a, r) /\ job[a].at # "settled" /\ UNCHANGED proof
                   \/ \E a \in Actor : Prove(a)
                   \/ \E verdict \in Verdict, p \in Paths : CallerReviews(verdict, p)
<1> HIDE DEF Goal
<1>1. ASSUME NEW h \in Host, Dispatch(h) PROVE Goal
  <2>0. h \in Actor
    BY DEF Actor
  <2>1. CASE Prepare(h)
    <3>1. \A b \in Actor : job'[b] = IF b = h
            THEN [job[h] EXCEPT !.at = "prepared", !.revision = run.revision,
                                !.content = run.content]
            ELSE job[b]
      BY <2>1 DEF Prepare, TypeInv, ReviewTypeOK
    <3>2. [job[h] EXCEPT !.at = "prepared", !.revision = run.revision,
                         !.content = run.content].at = "prepared"
      BY <2>0, JobFields DEF Job
    <3> QED
      BY <2>1, <3>1, <3>2 DEF Prepare, Unsettling, Goal
  <2>2. CASE LookAgain(h) \/ Claim(h)
    BY <2>0, <2>2, UnsettlingGo, UnsettlingEnd DEF LookAgain, Claim, Goal
  <2>3. CASE FallBack(h) \/ GiveUp(h)
    BY <2>0, <2>3, UnsettlingEnd DEF FallBack, GiveUp, Goal
  <2>4. ASSUME NEW verdict \in Verdict \cup {None}, Ingest(h, verdict) PROVE Goal
    <3>1. CASE Ends(h, "reviewing")
      BY <2>0, <2>4, <3>1, UnsettlingEnd DEF Ingest, Goal
    <3>2. CASE job' = [job EXCEPT ![h].at = "ingested", ![h].verdict = verdict]
      <4>1. \A b \in Actor : job'[b] = IF b = h
              THEN [job[h] EXCEPT !.at = "ingested", !.verdict = verdict] ELSE job[b]
        BY <3>2 DEF TypeInv, ReviewTypeOK
      <4>2. [job[h] EXCEPT !.at = "ingested", !.verdict = verdict].at = "ingested"
        BY <2>0, JobFields DEF Job
      <4> QED
        BY <2>4, <4>1, <4>2 DEF Ingest, Unsettling, Goal
    <3> QED
      BY <2>4, <3>1, <3>2 DEF Ingest
  <2>5. CASE Record(h)
    <3>1. CASE Ends(h, "ingested")
      BY <2>0, <2>5, <3>1, UnsettlingEnd DEF Record, Goal
    <3>2. CASE job' = [job EXCEPT ![h].at = "recording", ![h].found = run.content]
      <4>1. \A b \in Actor : job'[b] = IF b = h
              THEN [job[h] EXCEPT !.at = "recording", !.found = run.content] ELSE job[b]
        BY <3>2 DEF TypeInv, ReviewTypeOK
      <4>2. [job[h] EXCEPT !.at = "recording", !.found = run.content].at = "recording"
        BY <2>0, JobFields DEF Job
      <4> QED
        BY <2>5, <4>1, <4>2 DEF Record, Unsettling, Goal
    <3> QED
      BY <2>5, <3>1, <3>2 DEF Record
  <2>6. CASE Settle(h)
    <3>1. CASE Ends(h, "recording") /\ UNCHANGED receipts
      BY <2>0, <2>6, <3>1, UnsettlingEnd DEF Settle, Goal
    <3>2. CASE ~(Ends(h, "recording") /\ UNCHANGED receipts)
      <4> DEFINE r == [subject |-> [revision |-> run.revision, content |-> run.content,
                                    evidence |-> evidence, paths |-> PathsOf[h]],
                       verdict |-> job[h].verdict, routed |-> TRUE, shown |-> job[h].content]
      <4>1. r \in Receipt
        BY <2>0, <2>6, JobFields, ReviewAssumption
        DEF Settle, Receipt, Subject, TypeInv, ReviewTypeOK, FormedJob, Ripe
      <4>2. Settles(h, r) /\ job[h].at = "recording" /\ UNCHANGED proof
        BY <2>6, <3>2 DEF Settle
      <4>3. r.routed
        OBVIOUS
      <4> QED
        BY <2>0, <4>1, <4>2, <4>3 DEF Goal
    <3> QED
      BY <3>1, <3>2
  <2> QED
    BY <1>1, <2>1, <2>2, <2>3, <2>4, <2>5, <2>6 DEF Dispatch
<1>2. ASSUME NEW o \in Operator, Approve(o) PROVE Goal
  <2>0. o \in Actor
    BY DEF Actor
  <2> DEFINE j == [job[o] EXCEPT !.at = "approving", !.revision = run'.revision,
                                 !.content = run'.content, !.verdict = "pass"]
  <2>1. \A b \in Actor : job'[b] = IF b = o THEN j ELSE job[b]
    BY <1>2 DEF Approve, TypeInv, ReviewTypeOK
  <2>2. j.at = "approving"
    BY <2>0, JobFields DEF Job
  <2> QED
    BY <1>2, <2>1, <2>2 DEF Approve, Unsettling, Goal
<1>3. ASSUME NEW o \in Operator, SettleApproval(o) PROVE Goal
  <2> DEFINE r == [subject |-> [revision |-> job[o].revision, content |-> job[o].content,
                                evidence |-> evidence, paths |-> PathsOf[o]],
                   verdict |-> "pass", routed |-> TRUE, shown |-> job[o].content]
  <2>1. o \in Actor
    BY DEF Actor
  <2>2. r \in Receipt
    BY <1>3, <2>1, JobFields, ReviewAssumption
    DEF SettleApproval, Receipt, Subject, Verdict, Job, TypeInv, ReviewTypeOK, FormedJob
  <2>3. Settles(o, r) /\ job[o].at = "approving" /\ UNCHANGED proof
    BY <1>3 DEF SettleApproval
  <2>4. r.routed
    OBVIOUS
  <2> QED
    BY <2>1, <2>2, <2>3, <2>4 DEF Goal
<1>4. ASSUME NEW a \in Actor, Prove(a) \/ Crash(a) PROVE Goal
  BY <1>4, UnsettlingEnd DEF Crash, Goal
<1>5. ASSUME NEW verdict \in Verdict, NEW p \in Paths, CallerReviews(verdict, p) PROVE Goal
  BY <1>5 DEF Goal
<1>6. CASE Edit \/ ReportObserves \/ ProofRuns
  BY <1>6 DEF Edit, ReportObserves, ProofRuns, Unsettling, Goal
<1>7. CASE ClaimExpires
  <2>0. claim.by \in Actor
    BY <1>7 DEF ClaimExpires, TypeInv, ReviewTypeOK, Actor
  <2>1. \A b \in Actor : job'[b].at = job[b].at /\ job'[b].receipt = job[b].receipt
    BY <1>7, <2>0, JobFields DEF ClaimExpires, TypeInv, ReviewTypeOK, Job
  <2> QED
    BY <1>7, <2>1 DEF ClaimExpires, Unsettling, Goal
<1> QED
  BY <1>1, <1>2, <1>3, <1>4, <1>5, <1>6, <1>7 DEF Next, Goal

LEMMA SettledOnce ==
  ASSUME TypeInv, RecordInv, NEW a \in Actor, NEW r \in Receipt, r.routed,
         Settles(a, r), job[a].at # "settled", UNCHANGED proof
  PROVE  RecordInv'
<1> DEFINE same == {q \in receipts : q.routed /\ q.subject = r.subject}
<1>1. CASE same = {}
  <2>1. Settled(r) = r /\ receipts' = receipts \cup {r}
    BY <1>1 DEF Settled, Settles
  <2>2. OneRouted'
    BY <1>1, <2>1 DEF OneRouted, RecordInv
  <2>3. \A b \in Actor : job'[b].at = "settled" => job'[b].receipt \in receipts'
    BY <2>1, JobFields DEF Settles, RecordInv, OnRecord, Job, TypeInv, ReviewTypeOK
  <2> QED
    BY <2>1, <2>2, <2>3 DEF RecordInv, OnRecord
<1>2. CASE same # {}
  <2>1. Settled(r) \in receipts
    BY <1>2 DEF Settled
  <2>2. receipts' = receipts
    BY <2>1 DEF Settles
  <2>3. \A b \in Actor : job'[b].at = "settled" => job'[b].receipt \in receipts'
    BY <2>1, <2>2, JobFields DEF Settles, RecordInv, OnRecord, Job, TypeInv, ReviewTypeOK
  <2> QED
    BY <2>2, <2>3 DEF RecordInv, OnRecord, OneRouted
<1> QED
  BY <1>1, <1>2

LEMMA RecordStep == TypeInv /\ RecordInv /\ [Next]_vars => RecordInv'
<1> SUFFICES ASSUME TypeInv, RecordInv, [Next]_vars PROVE RecordInv'
  OBVIOUS
<1>1. CASE UNCHANGED vars
  BY <1>1 DEF vars, RecordInv, OneRouted, OnRecord
<1>2. CASE Unsettling
  BY <1>2 DEF Unsettling, RecordInv, OneRouted, OnRecord
<1>3. ASSUME NEW a \in Actor, Prove(a) PROVE RecordInv'
  <2>1. proof' = [passed |-> job[a].verdict = "pass", revision |-> run.revision,
                  receipt |-> job[a].receipt]
        /\ job[a].receipt \in receipts /\ receipts' = receipts
    BY <1>3 DEF Prove, Ends, RecordInv, OnRecord
  <2>2. \A b \in Actor : job'[b].at = "settled" => job'[b] = job[b]
    BY <1>3 DEF Prove, Ends, NoJob, TypeInv, ReviewTypeOK
  <2>3. proof'.receipt \in receipts'
    BY <2>1
  <2> QED
    BY <2>1, <2>2, <2>3 DEF RecordInv, OneRouted, OnRecord
<1>4. ASSUME NEW verdict \in Verdict, NEW p \in Paths, CallerReviews(verdict, p)
      PROVE  RecordInv'
  <2> DEFINE r == [subject |-> [revision |-> run.revision, content |-> tree,
                                evidence |-> evidence, paths |-> p],
                   verdict |-> verdict, routed |-> FALSE, shown |-> tree]
  <2>1. /\ receipts' = receipts \cup {r} /\ job' = job
        /\ proof' = [passed |-> verdict = "pass", revision |-> run.revision, receipt |-> r]
    BY <1>4 DEF CallerReviews
  <2>2. ~r.routed
    OBVIOUS
  <2>3. proof'.receipt = r
    BY <2>1
  <2> HIDE DEF r
  <2> QED
    BY <2>1, <2>2, <2>3 DEF RecordInv, OneRouted, OnRecord
<1> QED
  BY <1>1, <1>2, <1>3, <1>4, Kinds, SettledOnce

LEMMA RecordInvariant == Spec => [](TypeInv /\ RecordInv)
<1>1. Init => RecordInv
  BY DEF Init, NoJob, RecordInv, OneRouted, OnRecord
<1> QED
  BY <1>1, TypeInit, TypeStep, RecordStep, PTL DEF Spec

(* No subject whose review failed is proven by another review of it. *)
THEOREM FirstVerdictHolds == Spec => []FirstVerdictStands
<1>1. RecordInv => FirstVerdictStands
  BY DEF RecordInv, OneRouted, OnRecord, FirstVerdictStands, Satisfied
<1> QED
  BY <1>1, RecordInvariant, PTL

(* A receipt that is settled is a judgement of a subject that had none, or was    *)
(* adopted and changes nothing.                                                  *)
LEMMA JudgedStep ==
  ASSUME TypeInv, RecordInv, NEW a \in Actor, NEW r \in Receipt, r.routed,
         Settles(a, r), UNCHANGED proof
  PROVE  First!Next \/ UNCHANGED <<Judged, Resting>>
<1> DEFINE same == {q \in receipts : q.routed /\ q.subject = r.subject}
<1>1. UNCHANGED Resting
  BY DEF Resting
<1>2. CASE same = {}
  <2>1. receipts' = receipts \cup {r}
    BY <1>2 DEF Settled, Settles
  <2>2. Judged' = Judged \cup {First!Judgement(r.subject, r.verdict)}
    BY <2>1 DEF Judged, First!Judgement
  <2>3. \A j \in Judged : j.subject # r.subject
    BY <1>2 DEF Judged
  <2>4. r.subject \in Subject /\ r.verdict \in Verdict
    BY DEF Receipt
  <2> QED
    BY <1>1, <2>2, <2>3, <2>4 DEF First!Next, First!Judge
<1>3. CASE same # {}
  <2>1. Settled(r) \in receipts
    BY <1>3 DEF Settled
  <2> QED
    BY <1>1, <2>1 DEF Settles, Judged
<1> QED
  BY <1>2, <1>3

(* Every proof rests on a receipt on record: the routed ones are judgements. *)
LEMMA RestsOnRecord == RecordInv => Resting \in Judged \cup {None}
  BY DEF RecordInv, OnRecord, Resting, Judged

(* Reviews, take-overs, approvals and late answers keep what FirstVerdict       *)
(* promises: a subject is judged once, and proofs rest on judgements on record.  *)
THEOREM ReviewRefinesFirstVerdict == Spec => SubjectsAreJudgedOnce
<1>1. Init => First!Init
  BY DEF Init, First!Init, Judged, Resting
<1>2. TypeInv /\ RecordInv /\ RecordInv' /\ [Next]_vars => [First!Next]_First!vars
  <2> SUFFICES ASSUME TypeInv, RecordInv, RecordInv', [Next]_vars
               PROVE  First!Next \/ UNCHANGED <<Judged, Resting>>
    BY DEF First!vars
  <2>1. Resting' \in Judged' \cup {None}
    <3>1. RecordInv' => (Resting \in Judged \cup {None})'
      BY RestsOnRecord, PTL
    <3> QED
      BY <3>1
  <2>2. CASE UNCHANGED Judged
    BY <2>1, <2>2 DEF First!Next, First!Rest
  <2>3. CASE UNCHANGED vars
    BY <2>2, <2>3 DEF vars, Judged
  <2>4. CASE Unsettling
    BY <2>2, <2>4 DEF Unsettling, Judged
  <2>5. ASSUME NEW a \in Actor, Prove(a)
        PROVE  First!Next \/ UNCHANGED <<Judged, Resting>>
    BY <2>2, <2>5 DEF Prove, Judged
  <2>6. ASSUME NEW verdict \in Verdict, NEW p \in Paths, CallerReviews(verdict, p)
        PROVE  First!Next \/ UNCHANGED <<Judged, Resting>>
    <3> DEFINE r == [subject |-> [revision |-> run.revision, content |-> tree,
                                  evidence |-> evidence, paths |-> p],
                     verdict |-> verdict, routed |-> FALSE, shown |-> tree]
    <3>1. receipts' = receipts \cup {r} /\ ~r.routed
      BY <2>6 DEF CallerReviews
    <3> HIDE DEF r
    <3> QED
      BY <2>2, <3>1 DEF Judged
  <2> QED
    BY <2>3, <2>4, <2>5, <2>6, Kinds, JudgedStep
<1>3. RecordInv /\ TypeInv /\ [Next]_vars => RecordInv'
  BY RecordStep
<1> QED
  BY <1>1, <1>2, <1>3, RecordInvariant, PTL DEF Spec, First!Spec, SubjectsAreJudgedOnce

-----------------------------------------------------------------------------
(* Claims.  A reviewer whose claim has not run out holds the claim of its        *)
(* revision, or the run has moved past it, and then that subject cannot be      *)
(* claimed again.                                                               *)
Behind == \A h \in Host : job[h].revision <= run.revision
HoldsClaim(h) == claim # None /\ claim.by = h /\ claim.revision = job[h].revision
ClaimHeld == \A h \in Host : AtWork(h) => job[h].revision < run.revision \/ HoldsClaim(h)
ClaimInv == Behind /\ ClaimHeld /\ OneReviewer

(* Nobody's claim changes and nobody starts to work. *)
Calm ==
  /\ claim' = claim /\ run.revision <= run'.revision
  /\ \A h \in Host :
       \/ job'[h].revision = job[h].revision /\ (AtWork(h)' => AtWork(h))
       \/ job'[h].revision <= run'.revision /\ ~AtWork(h)'

LEMMA Numbers ==
  ASSUME TypeInv
  PROVE  run.revision \in Nat /\ \A h \in Host : job[h].revision \in Nat
<1>1. MaxRevision \in Nat
  BY ReviewAssumption
<1>2. \A h \in Host : job[h] \in Job
  BY DEF TypeInv, ReviewTypeOK, Actor
<1>3. \A j \in Job : j.revision \in Nat
  BY <1>1 DEF Job
<1>4. run.revision \in Nat
  BY <1>1 DEF TypeInv, ReviewTypeOK
<1> QED
  BY <1>2, <1>3, <1>4

LEMMA CalmInv ==
  ASSUME TypeInv, TypeInv', ClaimInv, Calm PROVE ClaimInv'
<1>1. /\ run.revision \in Nat /\ run'.revision \in Nat
      /\ \A h \in Host : job[h].revision \in Nat /\ job'[h].revision \in Nat
  <2>1. MaxRevision \in Nat
    BY ReviewAssumption
  <2>2. run' \in [revision : 0..MaxRevision, content : Content] /\ job' \in [Actor -> Job]
    BY DEF TypeInv, ReviewTypeOK
  <2>3. \A h \in Host : job'[h] \in Job
    BY <2>2 DEF Actor
  <2>4. \A h \in Host : job'[h].revision \in Nat
    BY <2>1, <2>3 DEF Job
  <2>5. run'.revision \in Nat
    BY <2>1, <2>2
  <2> QED
    BY <2>4, <2>5, Numbers
<1>2. Behind'
  BY <1>1 DEF ClaimInv, Behind, Calm
<1>3. ClaimHeld'
  BY <1>1 DEF ClaimInv, ClaimHeld, HoldsClaim, Calm
<1>4. OneReviewer'
  BY DEF ClaimInv, OneReviewer, Calm
<1> QED
  BY <1>2, <1>3, <1>4 DEF ClaimInv

LEMMA CalmGo ==
  ASSUME TypeInv, NEW a \in Actor, NEW from, NEW to, Go(a, from, to),
         claim' = claim, run.revision <= run'.revision,
         to \notin Working \/ from \in Working
  PROVE  Calm
<1>1. \A b \in Actor : job'[b] = IF b = a THEN [job[a] EXCEPT !.at = to] ELSE job[b]
  BY DEF Go, TypeInv, ReviewTypeOK
<1>2. LET j == [job[a] EXCEPT !.at = to]
      IN j.at = to /\ j.revision = job[a].revision /\ j.late = job[a].late
  BY JobFields DEF Job
<1>3. job[a].at = from
  BY DEF Go
<1> QED
  BY <1>1, <1>2, <1>3 DEF Calm, AtWork, Actor

LEMMA CalmEnd ==
  ASSUME TypeInv, TypeInv', NEW a \in Actor, NEW from, Ends(a, from),
         claim' = claim, run.revision <= run'.revision
  PROVE  Calm
<1>1. \A b \in Actor : job'[b] = IF b = a THEN NoJob ELSE job[b]
  BY DEF Ends, TypeInv, ReviewTypeOK
<1>2. NoJob.revision = 0 /\ NoJob.at = "idle" /\ NoJob.at \notin Working
  BY DEF NoJob, Working
<1>3. 0 <= run'.revision
  <2>1. MaxRevision \in Nat
    BY ReviewAssumption
  <2> QED
    BY <2>1 DEF TypeInv, ReviewTypeOK
<1> QED
  BY <1>1, <1>2, <1>3 DEF Calm, AtWork, Actor

LEMMA CalmSteps ==
  ASSUME TypeInv, TypeInv', Next
  PROVE  \/ Calm \/ ClaimExpires \/ \E h \in Host : Claim(h) \/ GiveUp(h)
<1> DEFINE Goal == \/ Calm \/ ClaimExpires \/ \E h \in Host : Claim(h) \/ GiveUp(h)
<1> HIDE DEF Goal
<1>0. run.revision \in Nat /\ run.revision <= run.revision
  BY Numbers
<1>1. ASSUME NEW h \in Host, Dispatch(h) PROVE Goal
  <2>0. h \in Actor
    BY DEF Actor
  <2>1. CASE Prepare(h)
    <3> DEFINE j == [job[h] EXCEPT !.at = "prepared", !.revision = run.revision,
                                   !.content = run.content]
    <3>1. \A b \in Actor : job'[b] = IF b = h THEN j ELSE job[b]
      BY <2>1 DEF Prepare, TypeInv, ReviewTypeOK
    <3>2. j.at = "prepared" /\ j.revision = run.revision
      BY <2>0, JobFields DEF Job
    <3>3. ~AtWork(h)' /\ job'[h].revision <= run'.revision /\ claim' = claim /\ run' = run
      BY <1>0, <2>0, <2>1, <3>1, <3>2 DEF AtWork, Working, Prepare
    <3>4. \A b \in Host \ {h} : job'[b] = job[b]
      BY <3>1 DEF Actor
    <3> QED
      BY <1>0, <3>3, <3>4 DEF Calm, AtWork, Goal
  <2>2. CASE LookAgain(h)
    BY <1>0, <2>0, <2>2, CalmGo, CalmEnd DEF LookAgain, Working, Goal
  <2>3. CASE Claim(h) \/ GiveUp(h)
    BY <2>3 DEF Goal
  <2>4. CASE FallBack(h)
    BY <2>0, <2>4, ObservesTyped, CalmEnd DEF FallBack, Goal
  <2>5. ASSUME NEW verdict \in Verdict \cup {None}, Ingest(h, verdict) PROVE Goal
    <3>1. claim' = claim /\ run.revision <= run'.revision
      BY <1>0, <2>5, ObservesTyped DEF Ingest
    <3>2. CASE Ends(h, "reviewing")
      BY <2>0, <3>1, <3>2, CalmEnd DEF Goal
    <3>3. CASE job[h].at = "reviewing" /\
               job' = [job EXCEPT ![h].at = "ingested", ![h].verdict = verdict]
      <4> DEFINE j == [job[h] EXCEPT !.at = "ingested", !.verdict = verdict]
      <4>1. \A b \in Actor : job'[b] = IF b = h THEN j ELSE job[b]
        BY <3>3 DEF TypeInv, ReviewTypeOK
      <4>2. j.revision = job[h].revision /\ j.late = job[h].late
        BY <2>0, JobFields DEF Job
      <4> QED
        BY <2>0, <3>1, <3>3, <4>1, <4>2 DEF Calm, AtWork, Working, Actor, Goal
    <3> QED
      BY <2>5, <3>2, <3>3 DEF Ingest
  <2>6. CASE Record(h)
    <3>1. claim' = claim /\ run.revision <= run'.revision
      BY <1>0, <2>6, ObservesTyped DEF Record
    <3>2. CASE Ends(h, "ingested")
      BY <2>0, <3>1, <3>2, CalmEnd DEF Goal
    <3>3. CASE job[h].at = "ingested" /\
               job' = [job EXCEPT ![h].at = "recording", ![h].found = run.content]
      <4> DEFINE j == [job[h] EXCEPT !.at = "recording", !.found = run.content]
      <4>1. \A b \in Actor : job'[b] = IF b = h THEN j ELSE job[b]
        BY <3>3 DEF TypeInv, ReviewTypeOK
      <4>2. j.revision = job[h].revision /\ j.late = job[h].late
        BY <2>0, JobFields DEF Job
      <4> QED
        BY <2>0, <3>1, <3>3, <4>1, <4>2 DEF Calm, AtWork, Working, Actor, Goal
    <3> QED
      BY <2>6, <3>2, <3>3 DEF Record
  <2>7. CASE Settle(h)
    <3>1. claim' = claim /\ run.revision <= run'.revision
      BY <1>0, <2>7, ObservesTyped DEF Settle
    <3>2. CASE Ends(h, "recording")
      BY <2>0, <3>1, <3>2, CalmEnd DEF Goal
    <3>3. ASSUME NEW r, job' = [job EXCEPT ![h].at = "settled", ![h].receipt = r] PROVE Goal
      <4> DEFINE j == [job[h] EXCEPT !.at = "settled", !.receipt = r]
      <4>1. \A b \in Actor : job'[b] = IF b = h THEN j ELSE job[b]
        BY <3>3 DEF TypeInv, ReviewTypeOK
      <4>2. j.revision = job[h].revision /\ j.late = job[h].late
        BY <2>0, JobFields DEF Job
      <4>3. job[h].at = "recording"
        BY <2>7 DEF Settle
      <4> QED
        BY <2>0, <3>1, <4>1, <4>2, <4>3 DEF Calm, AtWork, Working, Actor, Goal
    <3> QED
      BY <2>7, <3>2, <3>3 DEF Settle, Settles
  <2> QED
    BY <1>1, <2>1, <2>2, <2>3, <2>4, <2>5, <2>6, <2>7 DEF Dispatch
<1>2. ASSUME NEW o \in Operator, Approve(o) \/ SettleApproval(o) PROVE Goal
  <2>1. o \notin Host /\ \A h \in Host : job'[h] = job[h]
    BY <1>2, ReviewAssumption
    DEF Approve, SettleApproval, Settles, Actor, TypeInv, ReviewTypeOK
  <2>2. claim' = claim /\ run.revision <= run'.revision
    BY <1>0, <1>2, ObservesTyped DEF Approve, SettleApproval
  <2> QED
    BY <2>1, <2>2 DEF Calm, AtWork, Goal
<1>3. ASSUME NEW a \in Actor, Prove(a) \/ Crash(a) PROVE Goal
  BY <1>0, <1>3, CalmEnd DEF Prove, Crash, Goal
<1>4. ASSUME NEW verdict \in Verdict, NEW p \in Paths, CallerReviews(verdict, p) PROVE Goal
  BY <1>0, <1>4 DEF CallerReviews, Calm, AtWork, Goal
<1>5. CASE Edit \/ ReportObserves \/ ProofRuns
  BY <1>0, <1>5, ObservesTyped DEF Edit, ReportObserves, ProofRuns, Calm, AtWork, Goal
<1>6. CASE ClaimExpires
  BY <1>6 DEF Goal
<1> QED
  BY <1>1, <1>2, <1>3, <1>4, <1>5, <1>6 DEF Next, Goal

LEMMA ClaimStep == TypeInv /\ TypeInv' /\ ClaimInv /\ [Next]_vars => ClaimInv'
<1> SUFFICES ASSUME TypeInv, TypeInv', ClaimInv, [Next]_vars PROVE ClaimInv'
  OBVIOUS
<1>0. run.revision \in Nat /\ \A h \in Host : job[h].revision \in Nat
  BY Numbers
<1>1. CASE UNCHANGED vars
  BY <1>1 DEF vars, ClaimInv, Behind, ClaimHeld, HoldsClaim, OneReviewer, AtWork
<1>2. ASSUME NEW h \in Host, Claim(h) PROVE ClaimInv'
  <2>0. h \in Actor
    BY DEF Actor
  <2>1. CASE run.revision # job[h].revision \/ Claimed(h)
    <3>1. Ends(h, "looked") /\ claim' = claim /\ run' = run
      BY <1>2, <2>1 DEF Claim
    <3> QED
      BY <1>0, <2>0, <3>1, CalmEnd, CalmInv
  <2>2. CASE run.revision = job[h].revision /\ ~Claimed(h)
    <3> DEFINE j == [job[h] EXCEPT !.at = "reviewing"]
    <3>1. /\ claim' = [by |-> h, revision |-> job[h].revision] /\ run' = run
          /\ \A b \in Actor : job'[b] = IF b = h THEN j ELSE job[b]
      BY <1>2, <2>2 DEF Claim, Go, TypeInv, ReviewTypeOK
    <3>2. j.revision = job[h].revision
      BY <2>0, JobFields DEF Job
    <3>3. \A g \in Host : job'[g].revision = job[g].revision
      BY <3>1, <3>2 DEF Actor
    <3>4. \A g \in Host \ {h} : AtWork(g)' => AtWork(g) /\ job[g].revision < run.revision
      BY <1>0, <2>2, <3>1 DEF AtWork, ClaimInv, ClaimHeld, HoldsClaim, Behind, Claimed, Actor
    <3>5. HoldsClaim(h)'
      <4>1. claim' # None
        BY <3>1, ReviewAssumption, <1>0
      <4> QED
        BY <3>1, <3>3, <4>1 DEF HoldsClaim
    <3>6. Behind'
      BY <3>1, <3>3 DEF ClaimInv, Behind
    <3>7. ClaimHeld'
      BY <3>1, <3>3, <3>4, <3>5 DEF ClaimHeld
    <3>8. OneReviewer'
      BY <1>0, <2>2, <3>3, <3>4 DEF ClaimInv, OneReviewer
    <3> QED
      BY <3>6, <3>7, <3>8 DEF ClaimInv
  <2> QED
    BY <2>1, <2>2
<1>3. ASSUME NEW h \in Host, GiveUp(h) PROVE ClaimInv'
  <2>1. /\ run' = run
        /\ \A g \in Host : job'[g] = IF g = h THEN NoJob ELSE job[g]
    BY <1>3 DEF GiveUp, Ends, Actor, TypeInv, ReviewTypeOK
  <2>2. NoJob.revision = 0 /\ NoJob.at \notin Working
    BY DEF NoJob, Working
  <2>3. \A g \in Host \ {h} : HoldsClaim(g) => HoldsClaim(g)'
    BY <1>3, <2>1 DEF GiveUp, Owns, HoldsClaim
  <2>4. ~AtWork(h)' /\ \A g \in Host \ {h} : AtWork(g)' => AtWork(g)
    BY <2>1, <2>2 DEF AtWork
  <2>5. Behind'
    BY <1>0, <2>1, <2>2 DEF ClaimInv, Behind
  <2>6. ClaimHeld'
    BY <2>1, <2>3, <2>4 DEF ClaimInv, ClaimHeld
  <2>7. OneReviewer'
    BY <2>1, <2>4 DEF ClaimInv, OneReviewer
  <2> QED
    BY <2>5, <2>6, <2>7 DEF ClaimInv
<1>4. CASE ClaimExpires
  <2>1. PICK a \in Host : a = claim.by
    BY <1>4 DEF ClaimExpires, TypeInv, ReviewTypeOK
  <2>2. /\ run' = run
        /\ \A g \in Host : job'[g] =
             IF g = a THEN [job[a] EXCEPT !.late = (job[a].at \in Working)] ELSE job[g]
    BY <1>4, <2>1 DEF ClaimExpires, Actor, TypeInv, ReviewTypeOK
  <2>3. LET j == [job[a] EXCEPT !.late = (job[a].at \in Working)]
        IN j.at = job[a].at /\ j.revision = job[a].revision /\ (j.late <=> job[a].at \in Working)
    <3>1. a \in Actor
      BY DEF Actor
    <3>2. \A b \in BOOLEAN : LET j == [job[a] EXCEPT !.late = b]
            IN j.at = job[a].at /\ j.revision = job[a].revision /\ j.late = b
      BY <3>1, JobFields DEF Job
    <3>3. (job[a].at \in Working) \in BOOLEAN
      OBVIOUS
    <3> QED
      BY <3>2, <3>3, Zenon
  <2>4. /\ \A g \in Host : job'[g].revision = job[g].revision
        /\ ~AtWork(a)' /\ \A g \in Host \ {a} : AtWork(g)' => AtWork(g)
    BY <2>2, <2>3 DEF AtWork
  <2>5. \A g \in Host \ {a} : ~HoldsClaim(g)
    BY <2>1 DEF HoldsClaim
  <2>6. Behind'
    BY <2>2, <2>4 DEF ClaimInv, Behind
  <2>7. ClaimHeld'
    BY <2>2, <2>4, <2>5 DEF ClaimInv, ClaimHeld
  <2>8. OneReviewer'
    BY <2>4 DEF ClaimInv, OneReviewer
  <2> QED
    BY <2>6, <2>7, <2>8 DEF ClaimInv
<1> QED
  BY <1>1, <1>2, <1>3, <1>4, CalmSteps, CalmInv

(* Two reviewers are never at work on one subject, unless a claim ran out. *)
THEOREM OneReviewerHolds == Spec => []OneReviewer
<1>1. Init => ClaimInv
  BY DEF Init, NoJob, ClaimInv, Behind, ClaimHeld, OneReviewer, AtWork, Working, Actor
<1>2. TypeInv /\ ClaimInv /\ [Next]_vars => (TypeInv /\ ClaimInv)'
  BY TypeStep, ClaimStep
<1>3. ClaimInv => OneReviewer
  BY DEF ClaimInv
<1> QED
  BY <1>1, <1>2, <1>3, TypeInit, PTL DEF Spec

-----------------------------------------------------------------------------
(* Verdicts and their subjects.  As long as no change came in between, a Host   *)
(* that ingests holds the content the run is at, so that its receipt names the  *)
(* content its verdict was formed on.                                           *)
Current(h) == job[h].at \in Ingesting => job[h].content = run.content
ShownInv ==
  ~moved => (\A h \in Host : Current(h)) /\ \A r \in receipts : r.shown = r.subject.content

(* Whoever is ingesting afterwards was ingesting before, and is not a. *)
Leaves(a) == \A h \in Host : job'[h].at \in Ingesting => h # a /\ job'[h] = job[h]

LEMMA OneLeaves ==
  ASSUME TypeInv, NEW a \in Actor, NEW j, job' = [job EXCEPT ![a] = j],
         j.at \notin Ingesting
  PROVE  Leaves(a)
  BY DEF Leaves, Actor, TypeInv, ReviewTypeOK

LEMMA GoLeaves ==
  ASSUME TypeInv, NEW a \in Actor, NEW from, NEW to, Go(a, from, to), to \notin Ingesting
  PROVE  Leaves(a)
<1> DEFINE j == [job[a] EXCEPT !.at = to]
<1>1. j.at = to
  BY JobFields DEF Job
<1>2. job' = [job EXCEPT ![a] = j]
  BY DEF Go
<1> HIDE DEF j
<1> QED
  BY <1>1, <1>2, OneLeaves

LEMMA EndLeaves ==
  ASSUME TypeInv, NEW a \in Actor, NEW from, Ends(a, from)
  PROVE  Leaves(a)
<1>1. NoJob.at \notin Ingesting
  BY DEF NoJob, Ingesting
<1> QED
  BY <1>1, OneLeaves DEF Ends

LEMMA ShownLeft ==
  ASSUME TypeInv, ShownInv, NEW a, Leaves(a), receipts' = receipts,
         Observes(a) \/ (run' = run /\ moved' = moved)
  PROVE  ShownInv'
<1> SUFFICES ASSUME ~moved' PROVE (\A h \in Host : Current(h)') /\
                                  \A r \in receipts' : r.shown = r.subject.content
  BY DEF ShownInv
<1>1. ~moved
  BY DEF Observes
<1>2. run' = run \/ \A h \in Host \ {a} : job[h].at \notin Ingesting
  BY DEF Observes
<1> QED
  BY <1>1, <1>2 DEF ShownInv, Current, Leaves

LEMMA ShownSettled ==
  ASSUME TypeInv, ShownInv, NEW a \in Actor, NEW r \in Receipt, Settles(a, r),
         run' = run, moved' = moved, moved \/ r.shown = r.subject.content
  PROVE  ShownInv'
<1> DEFINE j == [job[a] EXCEPT !.at = "settled", !.receipt = Settled(r)]
<1>1. j.at = "settled"
  BY JobFields DEF Job
<1>2. job' = [job EXCEPT ![a] = j]
  BY DEF Settles
<1>3. Leaves(a)
  <2> HIDE DEF j
  <2> QED
    BY <1>1, <1>2, OneLeaves DEF Ingesting
<1>4. receipts' \subseteq receipts \cup {r}
  BY DEF Settles, Settled
<1> QED
  BY <1>3, <1>4 DEF ShownInv, Current, Leaves

LEMMA DispatchShown ==
  ASSUME TypeInv, ShownInv, NEW h \in Host, Dispatch(h) PROVE ShownInv'
<1>0. h \in Actor
  BY DEF Actor
<1>1. CASE Prepare(h)
  <2> DEFINE j == [job[h] EXCEPT !.at = "prepared", !.revision = run.revision,
                                 !.content = run.content]
  <2>1. j.at = "prepared"
    BY <1>0, JobFields DEF Job
  <2>2. job' = [job EXCEPT ![h] = j]
    BY <1>1 DEF Prepare
  <2>3. Leaves(h)
    <3> HIDE DEF j
    <3> QED
      BY <1>0, <2>1, <2>2, OneLeaves DEF Ingesting
  <2> QED
    BY <1>1, <2>3, ShownLeft DEF Prepare
<1>2. CASE LookAgain(h) \/ Claim(h)
  <2>1. Leaves(h)
    BY <1>0, <1>2, GoLeaves, EndLeaves DEF LookAgain, Claim, Ingesting
  <2> QED
    BY <1>2, <2>1, ShownLeft DEF LookAgain, Claim
<1>3. CASE FallBack(h) \/ GiveUp(h)
  <2>1. Leaves(h)
    BY <1>0, <1>3, EndLeaves DEF FallBack, GiveUp
  <2> QED
    BY <1>3, <2>1, ShownLeft DEF FallBack, GiveUp
<1>4. ASSUME NEW verdict \in Verdict \cup {None}, Ingest(h, verdict) PROVE ShownInv'
  <2>1. CASE Ends(h, "reviewing")
    BY <1>0, <1>4, <2>1, EndLeaves, ShownLeft DEF Ingest
  <2>2. CASE /\ job' = [job EXCEPT ![h].at = "ingested", ![h].verdict = verdict]
             /\ Chain(h) /\ run' = run /\ moved' = moved
    <3> DEFINE j == [job[h] EXCEPT !.at = "ingested", !.verdict = verdict]
    <3>1. j.content = run.content
      BY <1>0, <2>2, JobFields DEF Job, Chain
    <3>2. \A g \in Host : job'[g] = IF g = h THEN j ELSE job[g]
      BY <2>2 DEF Actor, TypeInv, ReviewTypeOK
    <3>3. receipts' = receipts
      BY <1>4 DEF Ingest
    <3> HIDE DEF j
    <3> QED
      BY <2>2, <3>1, <3>2, <3>3 DEF ShownInv, Current
  <2> QED
    BY <1>4, <2>1, <2>2 DEF Ingest
<1>5. CASE Record(h)
  <2>1. CASE Ends(h, "ingested")
    BY <1>0, <1>5, <2>1, EndLeaves, ShownLeft DEF Record
  <2>2. CASE /\ job[h].at = "ingested"
             /\ job' = [job EXCEPT ![h].at = "recording", ![h].found = run.content]
             /\ tree = run.content
    <3> DEFINE j == [job[h] EXCEPT !.at = "recording", !.found = run.content]
    <3>1. j.content = job[h].content
      BY <1>0, JobFields DEF Job
    <3>2. \A g \in Host : job'[g] = IF g = h THEN j ELSE job[g]
      BY <2>2 DEF Actor, TypeInv, ReviewTypeOK
    <3>3. receipts' = receipts /\ run' = run /\ moved' = moved
      BY <1>5, <2>2 DEF Record, Observes
    <3> HIDE DEF j
    <3> QED
      BY <2>2, <3>1, <3>2, <3>3 DEF ShownInv, Current, Ingesting
  <2> QED
    BY <1>5, <2>1, <2>2 DEF Record
<1>6. CASE Settle(h)
  <2>1. CASE Ends(h, "recording") /\ Observes(h) /\ UNCHANGED receipts
    BY <1>0, <2>1, EndLeaves, ShownLeft
  <2>2. CASE ~(Ends(h, "recording") /\ Observes(h) /\ UNCHANGED receipts)
    <3> DEFINE r == [subject |-> [revision |-> run.revision, content |-> run.content,
                                  evidence |-> evidence, paths |-> PathsOf[h]],
                     verdict |-> job[h].verdict, routed |-> TRUE, shown |-> job[h].content]
    <3>1. r \in Receipt
      BY <1>0, <1>6, JobFields, ReviewAssumption
      DEF Settle, Receipt, Subject, TypeInv, ReviewTypeOK, FormedJob, Ripe
    <3>2. r.shown = job[h].content /\ r.subject.content = run.content
      OBVIOUS
    <3>3. moved \/ job[h].content = run.content
      BY <1>6 DEF ShownInv, Current, Settle, Ingesting
    <3>4. Settles(h, r) /\ run' = run /\ moved' = moved
      BY <1>6, <2>2 DEF Settle
    <3> HIDE DEF r
    <3> QED
      BY <1>0, <3>1, <3>2, <3>3, <3>4, ShownSettled
  <2> QED
    BY <2>1, <2>2
<1> QED
  BY <1>1, <1>2, <1>3, <1>4, <1>5, <1>6 DEF Dispatch

LEMMA ShownStep == TypeInv /\ ShownInv /\ [Next]_vars => ShownInv'
<1> SUFFICES ASSUME TypeInv, ShownInv, [Next]_vars PROVE ShownInv'
  OBVIOUS
<1>1. CASE UNCHANGED vars
  BY <1>1 DEF vars, ShownInv, Current
<1>2. ASSUME NEW o \in Operator, Approve(o) PROVE ShownInv'
  <2>1. o \notin Host /\ \A h \in Host : job'[h] = job[h]
    BY <1>2, ReviewAssumption DEF Approve, Actor, TypeInv, ReviewTypeOK
  <2>2. Leaves(o)
    BY <2>1 DEF Leaves
  <2> QED
    BY <1>2, <2>2, ShownLeft DEF Approve
<1>3. ASSUME NEW o \in Operator, SettleApproval(o) PROVE ShownInv'
  <2> DEFINE r == [subject |-> [revision |-> job[o].revision, content |-> job[o].content,
                                evidence |-> evidence, paths |-> PathsOf[o]],
                   verdict |-> "pass", routed |-> TRUE, shown |-> job[o].content]
  <2>1. o \in Actor
    BY DEF Actor
  <2>2. r \in Receipt
    BY <1>3, <2>1, JobFields, ReviewAssumption
    DEF SettleApproval, Receipt, Subject, Verdict, Job, TypeInv, ReviewTypeOK, FormedJob
  <2>3. Settles(o, r) /\ run' = run /\ moved' = moved
    BY <1>3 DEF SettleApproval
  <2>4. r.shown = r.subject.content
    OBVIOUS
  <2> HIDE DEF r
  <2> QED
    BY <2>1, <2>2, <2>3, <2>4, ShownSettled
<1>4. ASSUME NEW a \in Actor, Prove(a) \/ Crash(a) PROVE ShownInv'
  <2>1. Leaves(a)
    BY <1>4, EndLeaves DEF Prove, Crash
  <2> QED
    BY <1>4, <2>1, ShownLeft DEF Prove, Crash
<1>5. ASSUME NEW verdict \in Verdict, NEW p \in Paths, CallerReviews(verdict, p)
      PROVE  ShownInv'
  <2> DEFINE r == [subject |-> [revision |-> run.revision, content |-> tree,
                                evidence |-> evidence, paths |-> p],
                   verdict |-> verdict, routed |-> FALSE, shown |-> tree]
  <2>1. /\ receipts' = receipts \cup {r} /\ job' = job
        /\ run' = run /\ moved' = moved
    BY <1>5 DEF CallerReviews
  <2>2. r.shown = r.subject.content
    OBVIOUS
  <2> HIDE DEF r
  <2> QED
    BY <2>1, <2>2 DEF ShownInv, Current
<1>6. CASE Edit \/ ProofRuns
  BY <1>6 DEF Edit, ProofRuns, ShownInv, Current
<1>7. CASE ReportObserves
  <2>1. None \notin Host /\ receipts' = receipts /\ Observes(None) /\ job' = job
    BY <1>7, ReviewAssumption DEF ReportObserves, Actor
  <2>2. Leaves(None)
    BY <2>1 DEF Leaves
  <2> QED
    BY <2>1, <2>2, ShownLeft
<1>8. CASE ClaimExpires
  <2>1. \A g \in Host : job'[g].at = job[g].at /\ job'[g].content = job[g].content
    BY <1>8, JobFields DEF ClaimExpires, TypeInv, ReviewTypeOK, Job, Actor
  <2> QED
    BY <1>8, <2>1 DEF ClaimExpires, ShownInv, Current
<1> QED
  BY <1>1, <1>2, <1>3, <1>4, <1>5, <1>6, <1>7, <1>8, DispatchShown DEF Next

(* What proves the obligation is a verdict on the content the run is at, unless *)
(* a change came between the comparison and the receipt.                        *)
THEOREM VerdictHolds == Spec => []VerdictOnSubject
<1>1. Init => ShownInv
  BY DEF Init, NoJob, ShownInv, Current, Ingesting, Actor
<1>2. TypeInv /\ ShownInv /\ [Next]_vars => (TypeInv /\ ShownInv)'
  BY TypeStep, ShownStep
<1>3. RecordInv /\ ShownInv => VerdictOnSubject
  BY DEF RecordInv, OnRecord, ShownInv, VerdictOnSubject, Satisfied, IsCurrent
<1> QED
  BY <1>1, <1>2, <1>3, TypeInit, RecordInvariant, PTL DEF Spec

=============================================================================
