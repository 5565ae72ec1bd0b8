--------------------------- MODULE KnowledgeLedger ---------------------------
(***************************************************************************)
(* What a project learns from its runs.  A finalization has the run's       *)
(* observations reviewed and commits those that are verified to the ledger  *)
(* of the project, against the knowledge revision the run began with: when  *)
(* others committed since, it takes the new revision and tries again, a few *)
(* times, and then leaves the knowledge for a later finalization of another *)
(* run to bring in.  A run that is settled may be retired: all rows of it   *)
(* are deleted, the ledger stays.                                           *)
(*                                                                         *)
(* One project.  A Fact is a record's identity (type, statement, scope).    *)
(* Between any two transactions other processes come, and a process may die;*)
(* a review and the rows it writes are one step.                            *)
(***************************************************************************)
EXTENDS Naturals, SequencesExt

CONSTANTS
  Worker,      \* processes that finalize, or record observations
  Run, Fact,
  None,        \* no run
  Observed,    \* [Run -> SUBSET Fact]: what is observed in a run
  Promoted,    \* runs whose observations are promotions or feedback
  Retries,     \* attempts to commit (3 in the code)
  MaxCommands, \* bound: finalizations, and recordings of observations
  MaxImports,  \* bound: imports by the user
  MaxEvents,   \* bound: all of these together
  MaxCrashes   \* bound: processes that die

ASSUME LedgerAssumption ==
  /\ IsFiniteSet(Fact)
  /\ Observed \in [Run -> SUBSET Fact] /\ None \notin Run
  /\ Promoted \subseteq Run
  /\ Retries \in Nat \ {0}
  /\ MaxCommands \in Nat /\ MaxImports \in Nat /\ MaxEvents \in Nat /\ MaxCrashes \in Nat

VARIABLES
  revision,   \* knowledge_revisions
  records,    \* knowledge_records, in the order they were inserted
  ledger,     \* knowledge_transactions: <<run, revision>> of each commit
  run,        \* rows of runs with their finalization receipts
  candidate,  \* knowledge_candidates: their status
  review,     \* knowledge_review_receipts
  receipt,    \* knowledge_commit_receipts
  written,    \* the runs with a receipt, by the time it was written
  job,        \* locals of each worker
  disturbed,  \* history: runs two workers were at, or observed once settled
  commands, imports, crashes

tables == <<revision, records, ledger>>
rows == <<run, candidate, review, receipt, written>>
bounds == <<commands, imports, crashes>>
vars == <<tables, rows, job, disturbed, bounds>>
Events == commands + imports + crashes

Settling == {"committed", "no_change"}
NoCandidates == [f \in Fact |-> "none"]
NoReceipt == [status |-> "none", revision |-> 0, retry |-> FALSE]
NoRun == [at |-> "new", start |-> 0, target |-> 0, finalization |-> "pending",
          said |-> "none"]
Idle == [at |-> "idle", kind |-> "none", run |-> None, other |-> None,
         expected |-> 0, attempt |-> 0, said |-> "none", after |-> 0]

Init ==
  /\ revision = 1 /\ records = <<>> /\ ledger = {}
  /\ run = [r \in Run |-> NoRun]
  /\ candidate = [r \in Run |-> NoCandidates]
  /\ review = [r \in Run |-> "none"]
  /\ receipt = [r \in Run |-> NoReceipt]
  /\ written = <<>>
  /\ job = [w \in Worker |-> Idle]
  /\ disturbed = {} /\ commands = 0 /\ imports = 0 /\ crashes = 0

-----------------------------------------------------------------------------
(* What the steps are made of.                                               *)

At(w, place) == job[w].at = place
Become(w, locals) == job' = [job EXCEPT ![w] = locals]
Mine(w) == job[w].run
Say(w, said) == Become(w, [job[w] EXCEPT !.at = "recording", !.said = said])
Touched(w) == {job[w].run, job[w].other} \ {None}
Alive(w) == \A r \in Touched(w) : run[r].at = "open"

(* The records that hold: status `committed'.                                *)
InForce(i) == ~records[i].superseded
Known(f) == \E i \in DOMAIN records : records[i].fact = f /\ InForce(i)
Held == {i \in DOMAIN records : InForce(i)}

Given(r) == {f \in Fact : candidate[r][f] # "none"}
Verified(r) == {f \in Fact : candidate[r][f] = "verified"}

(* recordKnowledgeCommitReceipt: overwrites, and renews the time.             *)
WriteReceiptOnly(r, status, after, retry) ==  \* mutant: without its time
  /\ receipt' = [receipt EXCEPT ![r] =
       [status |-> status, revision |-> after, retry |-> retry]]
  /\ UNCHANGED written

WriteReceipt(r, status, after, retry) ==
  /\ receipt' = [receipt EXCEPT ![r] =
       [status |-> status, revision |-> after, retry |-> retry]]
  /\ written' = Append(RemoveFirst(written, r), r)

(* The next revision: the records `renewed' written again, those `superseded' no *)
(* longer in force, and `facts' added.                                         *)
Rewritten(i, superseded, renewed) ==
  IF i \in renewed
    THEN [records[i] EXCEPT !.superseded = i \in superseded, !.revision = revision + 1]
    ELSE [records[i] EXCEPT !.superseded = @ \/ i \in superseded]

Enter(facts, imported, superseded, renewed) ==
  /\ records' =
       [i \in DOMAIN records |-> Rewritten(i, superseded, renewed)]
       \o [i \in DOMAIN SetToSeq(facts) |->
             [fact |-> SetToSeq(facts)[i], imported |-> imported,
              superseded |-> FALSE, revision |-> revision + 1]]
  /\ revision' = revision + 1

-----------------------------------------------------------------------------
(* A run begins, with the revision of that time; what is learnt in it may be   *)
(* meant to supersede a record that holds then.                               *)
Start(r) ==
  /\ run[r].at = "new"
  /\ \E target \in {0} \cup Held :
       run' = [run EXCEPT ![r] =
         [NoRun EXCEPT !.at = "open", !.start = revision, !.target = target]]
  /\ UNCHANGED <<tables, candidate, review, receipt, written, job, bounds>>

(* Observations are recorded as pending candidates, and reviewed.              *)
Submit(r) ==
  candidate' = [candidate EXCEPT ![r] =
    [f \in Fact |-> IF f \in Observed[r] THEN "pending" ELSE @[f]]]

Begin(w, r, kind) ==
  /\ At(w, "idle") /\ run[r].at = "open"
  /\ commands < MaxCommands /\ Events < MaxEvents /\ commands' = commands + 1
  /\ Become(w, [Idle EXCEPT !.at = "reviewing", !.kind = kind, !.run = r])
  /\ UNCHANGED <<tables, run, review, receipt, written, imports, crashes>>

Observe(w, r) == Begin(w, r, "observe") /\ Submit(r)

(* finalizeRun is for a run that is accepted and not finished, one at a time    *)
(* (RunLease); when it brings no observations those on record are reviewed.     *)
Finalize(w, r) ==
  /\ run[r].finalization # "completed"
  /\ \A v \in Worker : ~(job[v].kind = "finalize" /\ Mine(v) = r)
  /\ Begin(w, r, "finalize")
  /\ Submit(r) \/ UNCHANGED candidate

-----------------------------------------------------------------------------
(* reviewKnowledgeCandidates.  A candidate is verified, rejected for want of    *)
(* evidence, or waits for an approval or a verification; a promotion whose      *)
(* target no longer holds is rejected.                                         *)
Stale(r) == run[r].target # 0 /\ ~InForce(run[r].target)

Verdicts(r) ==
  [Given(r) -> IF r \in Promoted /\ Stale(r) THEN {"rejected"}
               ELSE {"verified", "rejected", "pending"}]

Outcome(verdict) ==
  CASE DOMAIN verdict # {} /\ \A f \in DOMAIN verdict : verdict[f] = "rejected" -> "failed"
    [] \E f \in DOMAIN verdict : verdict[f] = "pending" -> "waiting"
    [] OTHER -> "passed"

Review(w) ==
  LET r == Mine(w) IN
  /\ At(w, "reviewing") /\ Alive(w)
  /\ \E verdict \in Verdicts(r) :
       /\ candidate' = [candidate EXCEPT ![r] =
            [f \in Fact |-> IF f \in DOMAIN verdict THEN verdict[f] ELSE "none"]]
       /\ review' = [review EXCEPT ![r] = Outcome(verdict)]
  /\ Become(w, IF job[w].kind = "observe" THEN Idle
               ELSE [job[w] EXCEPT !.at = "deciding"])
  /\ UNCHANGED <<tables, run, receipt, written, bounds>>

(* A review that did not pass defers the knowledge; a commit that is on record *)
(* is not repeated.                                                           *)
Decide(w) ==
  LET r == Mine(w) IN
  /\ At(w, "deciding") /\ Alive(w)
  /\ \/ /\ review[r] # "passed"
        /\ WriteReceipt(r, "deferred", run[r].start, FALSE)
        /\ Say(w, "deferred")
     \/ /\ review[r] = "passed" /\ receipt[r].status \in Settling
        /\ Say(w, receipt[r].status)
        /\ UNCHANGED <<receipt, written>>
     \/ /\ review[r] = "passed" /\ receipt[r].status \notin Settling
        /\ Become(w, [job[w] EXCEPT !.at = "committing", !.attempt = 1,
                                    !.expected = run[r].start])
        /\ UNCHANGED <<receipt, written>>
  /\ UNCHANGED <<tables, run, candidate, review, bounds>>

-----------------------------------------------------------------------------
(* commitKnowledgeTransaction: the verified facts no record in force has, and   *)
(* the end of the record they supersede, if it still holds.                    *)
FreshAny(r) == Verified(r)  \* mutant: not compared with the records in force
Fresh(r) == {f \in Verified(r) : ~Known(f)}
Ended(r) == {run[r].target} \cap Held
Targets(r) == IF Verified(r) = {} THEN {} ELSE Ended(r)
Changes(r) == Fresh(r) # {} \/ Targets(r) # {}

Transact(r) ==
  \/ /\ Changes(r)
     /\ Enter(Fresh(r), FALSE, Targets(r), {})
     /\ ledger' = ledger \cup {<<r, revision + 1>>}
     /\ WriteReceipt(r, "committed", revision + 1, FALSE)
  \/ /\ ~Changes(r)
     /\ WriteReceipt(r, "no_change", revision, FALSE)
     /\ UNCHANGED tables

Result(r) == IF Changes(r) THEN "committed" ELSE "no_change"
Permitted(r) == review[r] \in {"none", "passed"}

Commit(w) ==
  LET r == Mine(w) IN
  /\ At(w, "committing") /\ Alive(w)
  /\ Permitted(r) /\ job[w].expected = revision
  /\ Transact(r)
  /\ Say(w, Result(r))
  /\ UNCHANGED <<run, candidate, review, bounds>>

(* A transaction that fails changes nothing.  After a stale revision the one    *)
(* of now is taken; when the attempts are used up the commit is deferred.       *)
Miss(w) ==
  LET r == Mine(w) IN
  /\ At(w, "committing") /\ Alive(w)
  /\ \/ /\ ~Permitted(r)
        /\ Say(w, "failed")
        /\ UNCHANGED <<receipt, written>>
     \/ /\ Permitted(r) /\ job[w].expected # revision /\ job[w].attempt < Retries
        /\ Become(w, [job[w] EXCEPT !.expected = revision, !.attempt = @ + 1])
        /\ UNCHANGED <<receipt, written>>
     \/ /\ Permitted(r) /\ job[w].expected # revision /\ job[w].attempt = Retries
        /\ WriteReceipt(r, "deferred", job[w].expected, TRUE)
        /\ Say(w, "deferred")
  /\ UNCHANGED <<tables, run, candidate, review, bounds>>

(* The finalization receipt, with the knowledge status; Git or required         *)
(* knowledge may leave the finalization partial.                               *)
Record(w) ==
  LET r == Mine(w) IN
  /\ At(w, "recording") /\ Alive(w)
  /\ \E status \in {"partial", "completed"} :
       run' = [run EXCEPT ![r].said = job[w].said, ![r].finalization = status]
  /\ Become(w, [job[w] EXCEPT !.at = "choosing"])
  /\ UNCHANGED <<tables, candidate, review, receipt, written, bounds>>

-----------------------------------------------------------------------------
(* recoverBoundedDeferredKnowledge: after its own, a finalization commits what   *)
(* the oldest deferred run left, without an expected revision, and writes the   *)
(* receipt of that run again.                                                  *)
Waiting(r) == {i \in DOMAIN written :
  /\ written[i] # r
  /\ receipt[written[i]].status = "deferred" /\ receipt[written[i]].retry}
Oldest(r) == written[Min(Waiting(r))]

PickDeferred(w) ==
  /\ At(w, "choosing")
  /\ Become(w, IF Waiting(Mine(w)) # {} /\ Verified(Oldest(Mine(w))) # {}
               THEN [job[w] EXCEPT !.at = "recovering", !.other = Oldest(Mine(w))]
               ELSE Idle)
  /\ UNCHANGED <<tables, rows, bounds>>

Recover(w) ==
  LET r == job[w].other IN
  /\ At(w, "recovering") /\ run[r].at = "open"
  /\ \/ /\ Permitted(r)
        /\ Transact(r)
        /\ Become(w, [job[w] EXCEPT !.at = "receipting", !.said = Result(r),
                                    !.after = revision'])
     \/ /\ ~Permitted(r)
        /\ Become(w, Idle)
        /\ UNCHANGED <<tables, receipt, written>>
  /\ UNCHANGED <<run, candidate, review, bounds>>

Receipt(w) ==
  /\ At(w, "receipting") /\ run[job[w].other].at = "open"
  /\ WriteReceipt(job[w].other, job[w].said, job[w].after, FALSE)
  /\ Become(w, Idle)
  /\ UNCHANGED <<tables, run, candidate, review, bounds>>

-----------------------------------------------------------------------------
(* assessRunSettlement, and the deletion of all rows of a settled run.          *)
SettledAny(r) == run[r].finalization = "completed"  \* mutant: a completed finalization
Settled(r) ==
  /\ run[r].finalization = "completed"
  /\ run[r].said \in Settling /\ receipt[r].status = run[r].said
  /\ run[r].said = "committed" => <<r, receipt[r].revision>> \in ledger

Retire(r) ==
  /\ run[r].at = "open" /\ Settled(r)
  /\ \A w \in Worker : ~(job[w].kind = "finalize" /\ Mine(w) = r)
  /\ run' = [run EXCEPT ![r] = [NoRun EXCEPT !.at = "retired"]]
  /\ candidate' = [candidate EXCEPT ![r] = NoCandidates]
  /\ review' = [review EXCEPT ![r] = "none"]
  /\ receipt' = [receipt EXCEPT ![r] = NoReceipt]
  /\ written' = RemoveFirst(written, r)
  /\ UNCHANGED <<tables, job, bounds>>

(* A command whose run is gone ends with an error, and a process may die.       *)
Leave(w) ==
  /\ ~At(w, "idle")
  /\ \/ ~Alive(w) /\ UNCHANGED crashes
     \/ crashes < MaxCrashes /\ Events < MaxEvents /\ crashes' = crashes + 1
  /\ Become(w, Idle)
  /\ UNCHANGED <<tables, rows, commands, imports>>

(* commitImportedKnowledgeTransaction: a statement the user approved, new or     *)
(* further evidence for a record, and perhaps the end of another.  Its records   *)
(* are known by source and statement: one that is imported again after it was   *)
(* superseded is written over.                                                 *)
Revivable == {i \in DOMAIN records \ Held : records[i].imported /\ ~Known(records[i].fact)}

Import ==
  /\ imports < MaxImports /\ Events < MaxEvents
  /\ \E superseded \in {{}} \cup {{i} : i \in Held} :
       \/ \E f \in Fact : Enter(IF Known(f) THEN {} ELSE {f}, TRUE, superseded,
                              {i \in Held : records[i].fact = f})
       \/ \E i \in Revivable : Enter({}, TRUE, superseded, {i})
  /\ imports' = imports + 1
  /\ UNCHANGED <<ledger, rows, job, commands, crashes>>

-----------------------------------------------------------------------------
Crossed == {r \in Run : \E v, w \in Worker : v # w /\ r \in Touched(v) \cap Touched(w)}
Again == {r \in Run : receipt[r].status \in Settling /\ candidate[r] # candidate'[r]}

Step ==
  \/ Import
  \/ \E r \in Run : Start(r) \/ Retire(r)
  \/ \E w \in Worker :
       \/ \E r \in Run : Observe(w, r) \/ Finalize(w, r)
       \/ Review(w) \/ Decide(w) \/ Commit(w) \/ Miss(w) \/ Record(w)
       \/ PickDeferred(w) \/ Recover(w) \/ Receipt(w) \/ Leave(w)

Next == Step /\ disturbed' = disturbed \cup Crossed' \cup {r \in Again : run'[r].at = "open"}

Spec == Init /\ [][Next]_vars

-----------------------------------------------------------------------------
(* Types, and what the tables say of each other: a record has the revision of   *)
(* its commit, and the receipts are those of `written'.                         *)
KnowledgeTypeOK ==
  /\ \A i \in DOMAIN records :
       /\ records[i].fact \in Fact
       /\ records[i].imported \in BOOLEAN /\ records[i].superseded \in BOOLEAN
       /\ records[i].revision \in 2 .. revision
  /\ ledger \subseteq Run \X (2 .. revision)
  /\ candidate \in [Run -> [Fact -> {"none", "pending", "verified", "rejected"}]]
  /\ review \in [Run -> {"none", "passed", "waiting", "failed"}]
  /\ \A r \in Run :
       /\ receipt[r].status \in Settling \cup {"none", "deferred"}
       /\ receipt[r].status # "none" <=> \E i \in DOMAIN written : written[i] = r
       /\ run[r].at = "open" => run[r].start \in 1 .. revision

(* However finalizations, recoveries of deferred knowledge and imports of one   *)
(* fact cross, on a stale revision or without one, it is in force once.         *)
OneRecordPerFact ==
  \A i, j \in Held : records[i].fact = records[j].fact => i = j

(* Whatever commits on a stale revision, recovers what others deferred, imports, *)
(* retires or dies: to its readers the ledger is a book that is only written on. *)
Facts == [i \in DOMAIN records |-> records[i].fact]
Over == {i \in DOMAIN records : records[i].superseded}
Book == INSTANCE KnowledgeBook WITH book <- Facts, ended <- Over
LedgerIsABook == Book!Spec

(* Ephemeral work, persistent knowledge: when the rows of a run are deleted,    *)
(* every fact that was verified in it is on record, after stale revisions,      *)
(* deferral, recovery by other runs and crashes; as long as nobody else was at  *)
(* its knowledge meanwhile and none of it came after the knowledge was settled. *)
RetiredKeepsKnowledge ==
  [][\A r \in Run :
       run[r].at = "open" /\ run'[r].at = "retired" /\ r \notin disturbed =>
         Verified(r) \subseteq {records[i].fact : i \in DOMAIN records}]_vars

=============================================================================
