----------------------- MODULE RunLifecycle_proofs -----------------------
(***************************************************************************)
(* Proofs about RunLifecycle, for any sets of runs, worktrees, sessions,   *)
(* digests and processes.                                                  *)
(***************************************************************************)
EXTENDS Invocation, TLAPS

-----------------------------------------------------------------------------
(* Type correctness. *)

LEMMA TypeInit == Init => TypeOK
  BY DEF Init, TypeOK, Statuses, Finalizations

(* Writing a process's intention keeps the type of pend. *)
LEMMA DoType ==
  ASSUME TypeOK, NEW p \in Process, NEW r \in Run, NEW v \in Verdicts,
         NEW op \in {"start", "report", "block", "resume", "decide", "finish"},
         Do(p, op, r, v)
  PROVE  pend' \in [Process -> Operation \cup {None}]
  BY DEF TypeOK, Do, Operation

(* What a process that is doing something remembers. *)
LEMMA DoingType ==
  ASSUME TypeOK, NEW p \in Process, pend[p] # None
  PROVE  pend[p] \in Operation /\ pend[p].run \in Run /\ pend[p].verdict \in Verdicts
  BY DEF TypeOK, Operation

LEMMA DropRowType ==
  ASSUME TypeOK, NEW r \in Run, NEW gone \in {"absent", "retired"}, DropRow(r, gone)
  PROVE  /\ status' \in [Run -> Statuses]
         /\ worktree' \in [Run -> Worktree \cup {None}]
         /\ finalization' \in [Run -> Finalizations]
         /\ mutated' \in [Run -> BOOLEAN]
         /\ key' \in [Run -> SuccessorKey \cup {None}]
         /\ owner' \in [Run -> Session \cup {None}]
         /\ bound' \in [Run -> BOOLEAN]
         /\ heir' \in [Run -> Run \cup {None}]
         /\ lease' \in [Worktree -> Run \cup {None}]
         /\ ended' \in SUBSET Run
  BY DEF TypeOK, DropRow, WithoutLeaseOf, Statuses, Finalizations

LEMMA TypeStep == TypeOK /\ [Next]_vars => TypeOK'
<1> SUFFICES ASSUME TypeOK, [Next]_vars PROVE TypeOK'
  OBVIOUS
<1> USE DEF Statuses, Finalizations, Verdicts
<1>1. ASSUME NEW p \in Process, ProcessStep(p) PROVE TypeOK'
  <2>1. ASSUME NEW r \in Run, NEW w \in Worktree, StartRun(p, r, w) PROVE TypeOK'
    BY <2>1, DoType DEF StartRun, TypeOK
  <2>2. ASSUME NEW s \in Session, BindOwner(p, s) PROVE TypeOK'
    BY <2>2, DoingType DEF BindOwner, Doing, TypeOK
  <2>3. CASE RollbackStart(p)
    BY <2>3, DoingType, DropRowType DEF RollbackStart, Doing, TypeOK
  <2>4. ASSUME NEW r \in Run, BeginReport(p, r) PROVE TypeOK'
    BY <2>4, DoType DEF BeginReport, rowVars, TypeOK
  <2>5. CASE Leave(p)
    BY <2>5 DEF Leave, rowVars, TypeOK
  <2>6. CASE ObserveMutation(p)
    BY <2>6, DoingType DEF ObserveMutation, Doing, TypeOK
  <2>7. CASE ReadForBlock(p)
    BY <2>7, DoingType, DoType DEF ReadForBlock, Doing, rowVars, TypeOK
  <2>8. CASE CommitBlock(p)
    BY <2>8, DoingType DEF CommitBlock, Doing, TypeOK
  <2>9. CASE ReadForResume(p)
    BY <2>9, DoingType, DoType DEF ReadForResume, Doing, rowVars, TypeOK
  <2>10. CASE CommitResume(p)
    BY <2>10, DoingType, DoType DEF CommitResume, Doing, rowVars, TypeOK
  <2>11. ASSUME NEW v \in Verdicts, Evaluate(p, v) PROVE TypeOK'
    BY <2>11, DoingType, DoType DEF Evaluate, Doing, rowVars, TypeOK
  <2>12. CASE Decide(p)
    BY <2>12, DoingType, DoType DEF Decide, Doing, WithoutLeaseOf, TypeOK
  <2>13. CASE Finish(p)
    BY <2>13, DoingType DEF Finish, Outcome, Doing, TypeOK
  <2> QED
    BY <1>1, <2>1, <2>2, <2>3, <2>4, <2>5, <2>6, <2>7, <2>8, <2>9, <2>10,
       <2>11, <2>12, <2>13 DEF ProcessStep
<1>2. CASE StoreStep
  <2>1. ASSUME NEW s \in Session, NEW r \in Run, AdoptOwner(s, r) PROVE TypeOK'
    BY <2>1 DEF AdoptOwner, TypeOK
  <2>2. ASSUME NEW s \in Session, NEW r \in Run, ReactivateOwner(s, r) PROVE TypeOK'
    BY <2>2 DEF ReactivateOwner, TypeOK
  <2>3. ASSUME NEW r \in Run, ClaimLease(r) PROVE TypeOK'
    BY <2>3 DEF ClaimLease, rowVars, TypeOK
  <2>4. ASSUME NEW r \in Run, Abandon(r) PROVE TypeOK'
    BY <2>4 DEF Abandon, WithoutLeaseOf, TypeOK
  <2>5. CASE Reconcile
    BY <2>5 DEF Reconcile, Stale, TypeOK
  <2>6. ASSUME NEW q \in Run, NEW r \in Run, NEW d \in Digest,
               NEW s \in Session \cup {None}, CreateSuccessor(q, r, d, s)
        PROVE  TypeOK'
    <3>1. [pred |-> q, digest |-> d] \in SuccessorKey
      BY DEF SuccessorKey
    <3> QED BY <2>6, <3>1 DEF CreateSuccessor, TypeOK
  <2>7. ASSUME NEW r \in Run, Retire(r) PROVE TypeOK'
    BY <2>7, DropRowType DEF Retire, TypeOK
  <2> QED
    BY <1>2, <2>1, <2>2, <2>3, <2>4, <2>5, <2>6, <2>7 DEF StoreStep
<1>3. CASE UNCHANGED vars
  BY <1>3 DEF vars, TypeOK
<1> QED BY <1>1, <1>2, <1>3 DEF Next

(* Every reachable state of the store has the shape the schema gives it:     *)
(* no transaction writes a status, a reference or a lease of another kind.   *)
THEOREM TypeCorrect == Spec => []TypeOK
  BY TypeInit, TypeStep, PTL DEF Spec

-----------------------------------------------------------------------------
(* The worktree lease.                                                       *)
(*                                                                           *)
(* Neither lease invariant is inductive alone.  A claim is safe because the  *)
(* holder it would displace is mutable (LeaseHolderMutable); a blocking      *)
(* write may find the run in any status, and what keeps it from making a     *)
(* lease-less run of the never-ended kind is that an ended run is            *)
(* remembered.                                                               *)

(* Rows have a worktree, and a run that is over has been recorded as ended.  *)
RowsConsistent ==
  \A r \in Run :
    /\ Exists(r) => worktree[r] \in Worktree
    /\ status[r] \in {"completed", "abandoned"} => r \in ended

LeaseInv == TypeOK /\ RowsConsistent /\ LeaseHolderMutable /\ MutableRunHoldsLease

LEMMA LeaseInit == Init => LeaseInv
  BY TypeInit DEF Init, LeaseInv, RowsConsistent, Exists, LeaseHolderMutable,
     MutableRunHoldsLease

(* While LeaseHolderMutable holds a claim never displaces a holder. *)
LEMMA ClaimFindsFree ==
  ASSUME LeaseHolderMutable, NEW w \in Worktree, NEW r \in Run, Claimable(w, r)
  PROVE  lease[w] \in {None, r}
  BY DEF LeaseHolderMutable, Claimable, Exists, LeaseTerminal

(* The end of run r: its lease goes and with it r's status becomes gone. *)
LEMMA EndKeepsLeaseInv ==
  ASSUME LeaseInv, NEW r \in Run, TypeOK', NEW gone \in Statuses,
         gone \notin {"active", "blocked"},
         status' = [status EXCEPT ![r] = gone],
         lease' = WithoutLeaseOf(r),
         \A q \in Run \ {r} : worktree'[q] = worktree[q] /\ (q \in ended' <=> q \in ended),
         gone \in {"completed", "abandoned"} =>
           worktree'[r] = worktree[r] /\ Exists(r) /\ r \in ended'
  PROVE  LeaseInv'
<1> USE NoneAssumption DEF LeaseInv, TypeOK, WithoutLeaseOf
<1>1. RowsConsistent'
  BY DEF RowsConsistent, Exists, Statuses
<1>2. LeaseHolderMutable'
  BY DEF LeaseHolderMutable
<1>3. MutableRunHoldsLease'
  BY DEF MutableRunHoldsLease, RowsConsistent, Exists
<1> QED BY <1>1, <1>2, <1>3

(* A run r that exists becomes active or blocked and the lease stays. *)
LEMMA WriteKeepsLeaseInv ==
  ASSUME LeaseInv, NEW r \in Run, TypeOK', NEW st \in {"active", "blocked"},
         Exists(r),
         status' = [status EXCEPT ![r] = st],
         UNCHANGED <<worktree, lease, ended>>
  PROVE  LeaseInv'
<1> USE NoneAssumption DEF LeaseInv, TypeOK
<1>1. RowsConsistent'
  BY DEF RowsConsistent, Exists
<1>2. LeaseHolderMutable'
  BY DEF LeaseHolderMutable
<1>3. MutableRunHoldsLease'
  BY DEF MutableRunHoldsLease, RowsConsistent, Exists, Statuses
<1> QED BY <1>1, <1>2, <1>3

(* A run r becomes active in worktree w and claims w's lease. *)
LEMMA ClaimKeepsLeaseInv ==
  ASSUME LeaseInv, NEW r \in Run, NEW w \in Worktree, TypeOK',
         Claimable(w, r),
         status' = [status EXCEPT ![r] = "active"],
         worktree' = [worktree EXCEPT ![r] = w],
         lease' = [lease EXCEPT ![w] = r],
         status[r] = "absent" \/ worktree[r] = w,
         UNCHANGED ended
  PROVE  LeaseInv'
<1> USE NoneAssumption DEF LeaseInv, TypeOK
<1>1. lease[w] \in {None, r}
  BY ClaimFindsFree
<1>2. RowsConsistent'
  BY DEF RowsConsistent, Exists
<1>3. LeaseHolderMutable'
  BY <1>1 DEF LeaseHolderMutable
<1>4. MutableRunHoldsLease'
  <2> SUFFICES ASSUME NEW q \in Run, status'[q] \in {"active", "blocked"}, q \notin ended'
               PROVE  lease'[worktree'[q]] = q
    BY DEF MutableRunHoldsLease
  <2>1. CASE q = r
    BY <2>1
  <2>2. CASE q # r
    <3>1. worktree'[q] = worktree[q] /\ status'[q] = status[q]
      BY <2>2
    <3>2. lease[worktree[q]] = q /\ worktree[q] \in Worktree
      BY <3>1 DEF MutableRunHoldsLease, RowsConsistent, Exists
    <3> QED BY <1>1, <2>2, <3>1, <3>2
  <2> QED BY <2>1, <2>2
<1> QED BY <1>2, <1>3, <1>4

LEMMA LeaseStep == LeaseInv /\ [Next]_vars => LeaseInv'
<1> SUFFICES ASSUME LeaseInv, [Next]_vars PROVE LeaseInv'
  OBVIOUS
<1>t. TypeOK /\ TypeOK'
  BY TypeStep DEF LeaseInv
<1>u. ASSUME UNCHANGED <<status, worktree, lease, ended>> PROVE LeaseInv'
  BY <1>t, <1>u DEF LeaseInv, RowsConsistent, Exists, LeaseHolderMutable,
     MutableRunHoldsLease
<1>1. ASSUME NEW p \in Process, ProcessStep(p) PROVE LeaseInv'
  <2>1. ASSUME NEW r \in Run, NEW w \in Worktree, StartRun(p, r, w) PROVE LeaseInv'
    BY <1>t, <2>1, ClaimKeepsLeaseInv DEF StartRun
  <2>2. CASE RollbackStart(p)
    <3> DEFINE r == pend[p].run
    <3>1. r \in Run /\ DropRow(r, "absent")
      BY <1>t, <2>2, DoingType DEF RollbackStart, Doing
    <3>2. \A q \in Run \ {r} : worktree'[q] = worktree[q] /\ (q \in ended' <=> q \in ended)
      BY <1>t, <3>1 DEF DropRow, TypeOK
    <3> QED BY <1>t, <3>1, <3>2, EndKeepsLeaseInv DEF DropRow, Statuses
  <2>3. CASE CommitBlock(p)
    BY <1>t, <2>3, DoingType, WriteKeepsLeaseInv DEF CommitBlock, Doing
  <2>4. CASE CommitResume(p)
    <3> DEFINE r == pend[p].run
    <3>1. r \in Run /\ Exists(r)
      BY <1>t, <2>4, DoingType DEF CommitResume, Doing
    <3>2. worktree[r] \in Worktree
      BY <3>1 DEF LeaseInv, RowsConsistent
    <3>3. worktree' = [worktree EXCEPT ![r] = worktree[r]]
      BY <1>t, <2>4 DEF CommitResume, rowVars, TypeOK
    <3> QED BY <1>t, <2>4, <3>1, <3>2, <3>3, ClaimKeepsLeaseInv DEF CommitResume
  <2>5. CASE Decide(p)
    <3> DEFINE r == pend[p].run
    <3>1. r \in Run /\ Exists(r) /\ UNCHANGED worktree
      BY <1>t, <2>5, DoingType DEF Decide, Doing
    <3>2. CASE pend[p].verdict = "accepted"
      <4>1. /\ status' = [status EXCEPT ![r] = "completed"]
            /\ lease' = WithoutLeaseOf(r)
            /\ ended' = ended \cup {r}
        BY <2>5, <3>2 DEF Decide
      <4>2. "completed" \in Statuses
        BY DEF Statuses
      <4> QED BY <1>t, <3>1, <4>1, <4>2, EndKeepsLeaseInv
    <3>3. CASE pend[p].verdict # "accepted"
      BY <1>t, <2>5, <3>1, <3>3, WriteKeepsLeaseInv DEF Decide
    <3> QED BY <3>2, <3>3
  <2>6. ASSUME \/ \E s \in Session : BindOwner(p, s)
               \/ \E r \in Run : BeginReport(p, r)
               \/ Leave(p)
               \/ ObserveMutation(p)
               \/ ReadForBlock(p)
               \/ ReadForResume(p)
               \/ \E v \in Verdicts : Evaluate(p, v)
               \/ Finish(p)
        PROVE  LeaseInv'
    <3>1. UNCHANGED <<status, worktree, lease, ended>>
      BY <2>6 DEF BindOwner, BeginReport, Leave, ObserveMutation, ReadForBlock,
         ReadForResume, Evaluate, Finish, rowVars
    <3> QED BY <1>u, <3>1
  <2> QED
    BY <1>1, <2>1, <2>2, <2>3, <2>4, <2>5, <2>6 DEF ProcessStep
<1>2. CASE StoreStep
  <2>1. ASSUME NEW s \in Session, NEW r \in Run, AdoptOwner(s, r) PROVE LeaseInv'
    BY <1>u, <2>1 DEF AdoptOwner
  <2>2. ASSUME NEW s \in Session, NEW r \in Run, ReactivateOwner(s, r) PROVE LeaseInv'
    BY <1>t, <2>2, WriteKeepsLeaseInv DEF ReactivateOwner, Exists
  <2>3. ASSUME NEW r \in Run, ClaimLease(r) PROVE LeaseInv'
    <3>1. Exists(r) /\ worktree[r] \in Worktree
      BY <2>3 DEF ClaimLease, LeaseInv, RowsConsistent, Exists
    <3>2. /\ worktree' = [worktree EXCEPT ![r] = worktree[r]]
          /\ status' = [status EXCEPT ![r] = "active"]
      BY <1>t, <2>3 DEF ClaimLease, rowVars, TypeOK
    <3> QED BY <1>t, <2>3, <3>1, <3>2, ClaimKeepsLeaseInv DEF ClaimLease
  <2>4. ASSUME NEW r \in Run, Abandon(r) PROVE LeaseInv'
    <3>1. "abandoned" \in Statuses
      BY DEF Statuses
    <3> QED BY <1>t, <2>4, <3>1, EndKeepsLeaseInv DEF Abandon
  <2>5. CASE Reconcile
    <3>1. lease' = lease
      BY <1>t, <2>5 DEF Reconcile, LeaseInv, LeaseHolderMutable, LeaseTerminal, TypeOK
    <3> QED BY <1>u, <2>5, <3>1 DEF Reconcile
  <2>6. ASSUME NEW q \in Run, NEW r \in Run, NEW d \in Digest,
               NEW s \in Session \cup {None}, CreateSuccessor(q, r, d, s)
        PROVE  LeaseInv'
    <3>1. worktree[q] \in Worktree
      BY <2>6 DEF CreateSuccessor, LeaseInv, RowsConsistent, Exists
    <3> QED BY <1>t, <2>6, <3>1, ClaimKeepsLeaseInv DEF CreateSuccessor
  <2>7. ASSUME NEW r \in Run, Retire(r) PROVE LeaseInv'
    <3>1. \A q \in Run \ {r} : worktree'[q] = worktree[q] /\ (q \in ended' <=> q \in ended)
      BY <1>t, <2>7 DEF Retire, DropRow, TypeOK
    <3> QED BY <1>t, <2>7, <3>1, EndKeepsLeaseInv DEF Retire, DropRow, Statuses
  <2> QED
    BY <1>2, <2>1, <2>2, <2>3, <2>4, <2>5, <2>6, <2>7 DEF StoreStep
<1>3. CASE UNCHANGED vars
  BY <1>u, <1>3 DEF vars
<1> QED BY <1>1, <1>2, <1>3 DEF Next

(* The holder of a worktree's lease can always still write: no path of any   *)
(* process that ends a run leaves its lease behind.                          *)
THEOREM LeaseHolderCorrect == Spec => []LeaseHolderMutable
<1>1. LeaseInv => LeaseHolderMutable
  BY DEF LeaseInv
<1> QED BY LeaseInit, LeaseStep, <1>1, PTL DEF Spec

(* A run that was never ended holds its worktree as long as it can be worked *)
(* on.                                                                       *)
THEOREM MutableRunCorrect == Spec => []MutableRunHoldsLease
<1>1. LeaseInv => MutableRunHoldsLease
  BY DEF LeaseInv
<1> QED BY LeaseInit, LeaseStep, <1>1, PTL DEF Spec

-----------------------------------------------------------------------------
(* How a lease moves, and that it moves as LeaseMutex says. *)

(* r takes w, which is free or already its own, and holds no other worktree. *)
LeaseTaken(r, w) ==
  /\ lease[w] \in {None, r}
  /\ \A v \in Worktree : lease[v] = r => v = w
  /\ lease' = [lease EXCEPT ![w] = r]

LeaseGivenUp(r) ==
  /\ lease' = WithoutLeaseOf(r)
  /\ status'[r] \in {"absent", "completed", "abandoned"}

LEMMA TakenByClaim ==
  ASSUME LeaseInv, NEW r \in Run, NEW w \in Worktree, Claimable(w, r),
         status[r] = "absent" \/ worktree[r] = w,
         lease' = [lease EXCEPT ![w] = r]
  PROVE  LeaseTaken(r, w)
<1>1. lease[w] \in {None, r}
  BY ClaimFindsFree DEF LeaseInv
<1>2. \A v \in Worktree : lease[v] = r => v = w
  BY NoneAssumption DEF LeaseInv, LeaseHolderMutable
<1> QED BY <1>1, <1>2 DEF LeaseTaken

LEMMA LeaseMoves ==
  ASSUME LeaseInv, [Next]_vars
  PROVE  \/ UNCHANGED lease
         \/ \E r \in Run, w \in Worktree : LeaseTaken(r, w)
         \/ \E r \in Run : LeaseGivenUp(r)
<1> DEFINE Moved == \/ UNCHANGED lease
                    \/ \E r \in Run, w \in Worktree : LeaseTaken(r, w)
                    \/ \E r \in Run : LeaseGivenUp(r)
<1> SUFFICES Moved
  OBVIOUS
<1>t. TypeOK
  BY DEF LeaseInv
<1>1. ASSUME NEW p \in Process, ProcessStep(p) PROVE Moved
  <2>1. ASSUME NEW r \in Run, NEW w \in Worktree, StartRun(p, r, w) PROVE Moved
    BY <2>1, TakenByClaim DEF StartRun
  <2>2. CASE RollbackStart(p)
    <3> DEFINE r == pend[p].run
    <3>1. r \in Run /\ DropRow(r, "absent")
      BY <1>t, <2>2, DoingType DEF RollbackStart, Doing
    <3>2. LeaseGivenUp(r)
      BY <1>t, <3>1 DEF DropRow, LeaseGivenUp, TypeOK
    <3> QED BY <3>1, <3>2
  <2>3. CASE CommitResume(p)
    <3> DEFINE r == pend[p].run
    <3>1. r \in Run /\ worktree[r] \in Worktree
      BY <1>t, <2>3, DoingType DEF CommitResume, Doing, LeaseInv, RowsConsistent
    <3> QED BY <2>3, <3>1, TakenByClaim DEF CommitResume
  <2>4. CASE Decide(p)
    <3> DEFINE r == pend[p].run
    <3>1. r \in Run
      BY <1>t, <2>4, DoingType DEF Decide, Doing
    <3>2. UNCHANGED lease \/ LeaseGivenUp(r)
      BY <1>t, <2>4, <3>1 DEF Decide, LeaseGivenUp, TypeOK
    <3> QED BY <3>1, <3>2
  <2>5. ASSUME \/ \E s \in Session : BindOwner(p, s)
               \/ \E r \in Run : BeginReport(p, r)
               \/ Leave(p)
               \/ ObserveMutation(p)
               \/ ReadForBlock(p)
               \/ CommitBlock(p)
               \/ ReadForResume(p)
               \/ \E v \in Verdicts : Evaluate(p, v)
               \/ Finish(p)
        PROVE  Moved
    BY <2>5 DEF BindOwner, BeginReport, Leave, ObserveMutation, ReadForBlock,
       CommitBlock, ReadForResume, Evaluate, Finish
  <2> QED
    BY <1>1, <2>1, <2>2, <2>3, <2>4, <2>5 DEF ProcessStep
<1>2. CASE StoreStep
  <2>1. ASSUME NEW r \in Run, ClaimLease(r) PROVE Moved
    <3>1. worktree[r] \in Worktree
      BY <2>1 DEF ClaimLease, LeaseInv, RowsConsistent, Exists
    <3> QED BY <2>1, <3>1, TakenByClaim DEF ClaimLease
  <2>2. ASSUME NEW r \in Run, Abandon(r) PROVE Moved
    BY <1>t, <2>2 DEF Abandon, LeaseGivenUp, TypeOK
  <2>3. CASE Reconcile
    BY <1>t, <2>3 DEF Reconcile, LeaseInv, LeaseHolderMutable, LeaseTerminal, TypeOK
  <2>4. ASSUME NEW q \in Run, NEW r \in Run, NEW d \in Digest,
               NEW s \in Session \cup {None}, CreateSuccessor(q, r, d, s)
        PROVE  Moved
    <3>1. worktree[q] \in Worktree
      BY <2>4 DEF CreateSuccessor, LeaseInv, RowsConsistent, Exists
    <3> QED BY <2>4, <3>1, TakenByClaim DEF CreateSuccessor
  <2>5. ASSUME NEW r \in Run, Retire(r) PROVE Moved
    BY <1>t, <2>5 DEF Retire, DropRow, WithoutLeaseOf, TypeOK
  <2>6. ASSUME \/ \E s \in Session, r \in Run : AdoptOwner(s, r)
               \/ \E s \in Session, r \in Run : ReactivateOwner(s, r)
        PROVE  Moved
    BY <2>6 DEF AdoptOwner, ReactivateOwner
  <2> QED
    BY <1>2, <2>1, <2>2, <2>3, <2>4, <2>5, <2>6 DEF StoreStep
<1>3. CASE UNCHANGED vars
  BY <1>3 DEF vars
<1> QED BY <1>1, <1>2, <1>3 DEF Next

(* A run keeps its lease until the very step that ends it, whatever other    *)
(* processes do to it or to runs of their own.                               *)
THEOREM LeaseLossCorrect == Spec => LeaseLostOnlyAtEnd
<1>1. ASSUME LeaseInv, [Next]_vars
      PROVE  \A w \in Worktree :
               (lease[w] # None /\ lease'[w] # lease[w])
                 => status'[lease[w]] \in {"absent", "completed", "abandoned"}
  BY <1>1, LeaseMoves DEF LeaseTaken, LeaseGivenUp, WithoutLeaseOf, LeaseInv, TypeOK
<1> QED BY LeaseInit, LeaseStep, <1>1, PTL DEF Spec, LeaseLostOnlyAtEnd

(* The store's lease table implements the abstract mutual exclusion: one     *)
(* writer run per worktree, one worktree per run, no hand-over in one step.  *)
THEOREM LeaseRefinesMutex == Spec => LeaseIsMutex
<1>1. Init => Mutex!Init
  BY DEF Init, Mutex!Init
<1>2. ASSUME LeaseInv, [Next]_vars
      PROVE  [Mutex!Next]_lease
  <2> USE <1>2, NoneAssumption DEF LeaseInv, TypeOK
  <2>1. ASSUME NEW r \in Run, NEW w \in Worktree, LeaseTaken(r, w)
        PROVE  [Mutex!Next]_lease
    <3>1. CASE lease[w] = r
      <4>1. lease' = lease
        BY <2>1, <3>1 DEF LeaseTaken
      <4> QED BY <4>1
    <3>2. CASE lease[w] # r
      <4>1. Mutex!Acquire(w, r)
        BY <2>1, <3>2 DEF LeaseTaken, Mutex!Acquire
      <4> QED BY <4>1 DEF Mutex!Next
    <3> QED BY <3>1, <3>2
  <2>2. ASSUME NEW r \in Run, LeaseGivenUp(r)
        PROVE  [Mutex!Next]_lease
    <3>1. CASE \A w \in Worktree : lease[w] # r
      <4>1. lease' = lease
        BY <2>2, <3>1 DEF LeaseGivenUp, WithoutLeaseOf
      <4> QED BY <4>1
    <3>2. ASSUME NEW w \in Worktree, lease[w] = r
          PROVE  [Mutex!Next]_lease
      <4>1. \A v \in Worktree : lease[v] = r => v = w
        BY <3>2 DEF LeaseHolderMutable
      <4>2. lease' = [lease EXCEPT ![w] = None]
        BY <2>2, <3>2, <4>1 DEF LeaseGivenUp, WithoutLeaseOf
      <4>3. Mutex!Release(w)
        BY <3>2, <4>2 DEF Mutex!Release
      <4> QED BY <4>3 DEF Mutex!Next
    <3> QED BY <3>1, <3>2
  <2> QED BY <1>2, <2>1, <2>2, LeaseMoves
<1> QED BY LeaseInit, LeaseStep, <1>1, <1>2, PTL DEF Spec, LeaseIsMutex, Mutex!Spec

-----------------------------------------------------------------------------
(* Owners and successors.                                                    *)

(* A run without a row has no columns, a run without an owner no binding. *)
EmptyRows ==
  \A r \in Run :
    /\ ~Exists(r) => owner[r] = None /\ key[r] = None
    /\ owner[r] = None => ~bound[r] /\ heir[r] = None

(* The run a process is initializing is nobody's successor, and no other     *)
(* process is initializing it: its rollback cannot cut a lineage.            *)
FreshStarts ==
  \A p \in Process : Doing(p, "start") =>
    /\ status[pend[p].run] # "absent"
    /\ key[pend[p].run] = None
    /\ \A o \in Process : (Doing(o, "start") /\ pend[o].run = pend[p].run) => o = p

LineageInv ==
  TypeOK /\ EmptyRows /\ FreshStarts /\ HeirIsSuccessor /\ OneOwnedRunPerSession

LEMMA LineageInit == Init => LineageInv
  BY TypeInit DEF Init, LineageInv, EmptyRows, FreshStarts, Doing, Exists,
     HeirIsSuccessor, OneOwnedRunPerSession

(* A row that nobody names as successor and nobody else initializes may go. *)
LEMMA DropKeepsLineage ==
  ASSUME LineageInv, TypeOK', NEW r \in Run, NEW gone \in {"absent", "retired"},
         DropRow(r, gone),
         ~NamedAsSuccessor(r),
         \A p \in Process : pend'[p] = pend[p] \/ pend'[p] = None,
         gone = "absent" => \A p \in Process : Doing(p, "start")' => pend[p].run # r
  PROVE  LineageInv'
<1> USE DEF LineageInv, TypeOK, DropRow
<1>1. EmptyRows'
  BY DEF EmptyRows, Exists
<1>2. FreshStarts'
  <2> SUFFICES ASSUME NEW p \in Process, Doing(p, "start")'
               PROVE  /\ status'[pend'[p].run] # "absent"
                      /\ key'[pend'[p].run] = None
                      /\ \A o \in Process :
                           (Doing(o, "start")' /\ pend'[o].run = pend'[p].run) => o = p
    BY DEF FreshStarts
  <2>1. pend'[p] = pend[p] /\ Doing(p, "start")
    BY DEF Doing
  <2>2. pend[p].run \in Run
    BY <2>1, DoingType DEF Doing
  <2>3. \A o \in Process : Doing(o, "start")' => pend'[o] = pend[o] /\ Doing(o, "start")
    BY DEF Doing
  <2> QED BY <2>1, <2>2, <2>3 DEF FreshStarts
<1>3. HeirIsSuccessor'
  BY DEF HeirIsSuccessor, NamedAsSuccessor, Exists
<1>4. OneOwnedRunPerSession'
  BY DEF OneOwnedRunPerSession
<1> QED BY <1>1, <1>2, <1>3, <1>4

(* An unowned or inactive run r gets the active owner s. *)
LEMMA BindKeepsLineage ==
  ASSUME LineageInv, TypeOK', NEW r \in Run, NEW s \in Session,
         Exists(r), Exists(r)',
         \A q \in Run : Exists(q)' <=> Exists(q),
         owner[r] \in {None, s},
         ~OwnsElsewhere(s, worktree[r], r),
         owner' = [owner EXCEPT ![r] = s],
         bound' = [bound EXCEPT ![r] = TRUE],
         heir' = [heir EXCEPT ![r] = None],
         UNCHANGED <<worktree, key>>,
         FreshStarts'
  PROVE  LineageInv'
<1> USE NoneAssumption DEF LineageInv, TypeOK
<1>1. EmptyRows'
  BY DEF EmptyRows
<1>2. HeirIsSuccessor'
  BY DEF HeirIsSuccessor
<1>3. OneOwnedRunPerSession'
  BY DEF OneOwnedRunPerSession, OwnsElsewhere
<1> QED BY <1>1, <1>2, <1>3

(* Bindings may be closed and statuses written on existing rows at any time. *)
LEMMA CloseKeepsLineage ==
  ASSUME LineageInv, TypeOK',
         \A q \in Run : Exists(q)' <=> Exists(q),
         \A q \in Run : bound'[q] => bound[q],
         \A q \in Run : heir'[q] \in {heir[q], None},
         UNCHANGED <<worktree, key, owner>>,
         FreshStarts'
  PROVE  LineageInv'
<1> USE DEF LineageInv, TypeOK
<1>1. EmptyRows'
  BY DEF EmptyRows
<1>2. HeirIsSuccessor'
  BY DEF HeirIsSuccessor
<1>3. OneOwnedRunPerSession'
  BY DEF OneOwnedRunPerSession
<1> QED BY <1>1, <1>2, <1>3

(* Existing rows stay, and no process starts to initialize a run. *)
LEMMA FreshKept ==
  ASSUME LineageInv, UNCHANGED key,
         \A q \in Run : status[q] # "absent" => status'[q] # "absent",
         \A p \in Process : Doing(p, "start")' => pend'[p] = pend[p]
  PROVE  FreshStarts'
<1>1. \A p \in Process : Doing(p, "start")' =>
        pend'[p] = pend[p] /\ Doing(p, "start") /\ pend[p].run \in Run
  BY DoingType DEF LineageInv, Doing
<1> QED BY <1>1 DEF LineageInv, FreshStarts

LEMMA LineageStep == LineageInv /\ [Next]_vars => LineageInv'
<1> SUFFICES ASSUME LineageInv, [Next]_vars PROVE LineageInv'
  OBVIOUS
<1>t. TypeOK /\ TypeOK'
  BY TypeStep DEF LineageInv
<1>1. ASSUME NEW p \in Process, ProcessStep(p) PROVE LineageInv'
  <2>1. ASSUME NEW r \in Run, NEW w \in Worktree, StartRun(p, r, w) PROVE LineageInv'
    <3> USE <2>1, <1>t DEF StartRun, LineageInv, TypeOK
    <3>1. owner[r] = None /\ key[r] = None /\ ~bound[r] /\ heir[r] = None
      BY DEF EmptyRows, Exists
    <3>2. EmptyRows'
      BY <3>1 DEF EmptyRows, Exists
    <3>3. HeirIsSuccessor'
      BY <3>1 DEF HeirIsSuccessor, Exists
    <3>4. OneOwnedRunPerSession'
      BY <3>1 DEF OneOwnedRunPerSession
    <3>5. FreshStarts'
      <4>1. /\ pend'[p].op = "start" /\ pend'[p].run = r
            /\ \A o \in Process \ {p} : pend'[o] = pend[o]
        BY DEF Do
      <4>2. \A o \in Process \ {p} : Doing(o, "start")' =>
              Doing(o, "start") /\ pend[o].run \in Run /\ pend[o].run # r
        BY <4>1, DoingType DEF Doing, FreshStarts
      <4> QED BY <3>1, <4>1, <4>2 DEF FreshStarts
    <3> QED BY <3>2, <3>3, <3>4, <3>5
  <2>2. ASSUME NEW s \in Session, BindOwner(p, s) PROVE LineageInv'
    <3> DEFINE r == pend[p].run
    <3>1. r \in Run
      BY <1>t, <2>2, DoingType DEF BindOwner, Doing
    <3>2. FreshStarts'
      BY <2>2, FreshKept DEF BindOwner
    <3>3. heir' = [heir EXCEPT ![r] = None]
      BY <1>t, <2>2, <3>1 DEF BindOwner, LineageInv, EmptyRows, TypeOK
    <3> QED BY <1>t, <2>2, <3>1, <3>2, <3>3, BindKeepsLineage DEF BindOwner, Exists
  <2>3. CASE RollbackStart(p)
    <3> DEFINE r == pend[p].run
    <3>1. r \in Run /\ DropRow(r, "absent") /\ Doing(p, "start")
      BY <1>t, <2>3, DoingType DEF RollbackStart, Doing
    <3>2. key[r] = None
      BY <3>1 DEF LineageInv, FreshStarts
    <3>3. ~NamedAsSuccessor(r)
      <4> SUFFICES ASSUME NEW q \in Run, heir[q] = r PROVE FALSE
        BY DEF NamedAsSuccessor
      <4>1. heir[q] # None
        BY <3>1, NoneAssumption
      <4>2. PICK d \in Digest : key[r] = [pred |-> q, digest |-> d]
        BY <4>1 DEF LineageInv, HeirIsSuccessor
      <4>3. [pred |-> q, digest |-> d] \in [pred : Run, digest : Digest]
        OBVIOUS
      <4> QED BY <3>2, <4>2, <4>3, NoneAssumption
    <3>4. \A o \in Process : pend'[o] = pend[o] \/ pend'[o] = None
      BY <1>t, <2>3 DEF RollbackStart, TypeOK
    <3>5. \A o \in Process : Doing(o, "start")' => pend[o].run # r
      <4>1. \A o \in Process : Doing(o, "start")' => o # p /\ Doing(o, "start")
        BY <1>t, <2>3 DEF RollbackStart, Doing, TypeOK
      <4> QED BY <3>1, <4>1 DEF LineageInv, FreshStarts
    <3> QED BY <1>t, <3>1, <3>3, <3>4, <3>5, DropKeepsLineage
  <2>4. ASSUME \/ \E r \in Run : BeginReport(p, r)
               \/ Leave(p)
               \/ ObserveMutation(p)
               \/ ReadForBlock(p)
               \/ CommitBlock(p)
               \/ ReadForResume(p)
               \/ CommitResume(p)
               \/ \E v \in Verdicts : Evaluate(p, v)
               \/ Decide(p)
               \/ Finish(p)
        PROVE  LineageInv'
    <3> USE <2>4, <1>t DEF BeginReport, Leave, ObserveMutation, ReadForBlock,
          CommitBlock, ReadForResume, CommitResume, Evaluate, Decide, Finish,
          rowVars, TypeOK
    <3>1. UNCHANGED <<worktree, key, owner>>
      OBVIOUS
    <3>2. \A q \in Run : (Exists(q)' <=> Exists(q))
                        /\ (status[q] # "absent" => status'[q] # "absent")
      BY DEF Exists
    <3>3. \A q \in Run : (bound'[q] => bound[q]) /\ heir'[q] \in {heir[q], None}
      OBVIOUS
    <3>4. \A o \in Process : Doing(o, "start")' => pend'[o] = pend[o]
      BY DEF Doing, Do
    <3>5. FreshStarts'
      BY <3>1, <3>2, <3>4, FreshKept
    <3> QED BY <3>1, <3>2, <3>3, <3>5, CloseKeepsLineage
  <2> QED BY <1>1, <2>1, <2>2, <2>3, <2>4 DEF ProcessStep
<1>2. CASE StoreStep
  <2>1. ASSUME NEW s \in Session, NEW r \in Run, AdoptOwner(s, r) PROVE LineageInv'
    <3>1. FreshStarts'
      BY <2>1, FreshKept DEF AdoptOwner
    <3>2. heir' = [heir EXCEPT ![r] = None]
      BY <1>t, <2>1 DEF AdoptOwner, LineageInv, EmptyRows, TypeOK
    <3> QED BY <1>t, <2>1, <3>1, <3>2, BindKeepsLineage DEF AdoptOwner, Exists
  <2>2. ASSUME NEW s \in Session, NEW r \in Run, ReactivateOwner(s, r) PROVE LineageInv'
    <3>1. \A q \in Run : (Exists(q)' <=> Exists(q))
                        /\ (status[q] # "absent" => status'[q] # "absent")
      BY <1>t, <2>2 DEF ReactivateOwner, Exists, TypeOK
    <3>2. FreshStarts'
      BY <2>2, <3>1, FreshKept DEF ReactivateOwner
    <3>3. owner' = [owner EXCEPT ![r] = s]
      BY <1>t, <2>2 DEF ReactivateOwner, TypeOK
    <3>4. Exists(r)
      BY <2>2 DEF ReactivateOwner, Exists
    <3> QED BY <1>t, <2>2, <3>1, <3>2, <3>3, <3>4, BindKeepsLineage DEF ReactivateOwner
  <2>3. ASSUME \/ \E r \in Run : ClaimLease(r)
               \/ \E r \in Run : Abandon(r)
               \/ Reconcile
        PROVE  LineageInv'
    <3> USE <2>3, <1>t DEF ClaimLease, Abandon, Reconcile, Stale, rowVars, TypeOK
    <3>1. UNCHANGED <<worktree, key, owner, pend>>
      OBVIOUS
    <3>2. \A q \in Run : (Exists(q)' <=> Exists(q))
                        /\ (status[q] # "absent" => status'[q] # "absent")
      BY DEF Exists
    <3>3. \A q \in Run : (bound'[q] => bound[q]) /\ heir'[q] \in {heir[q], None}
      OBVIOUS
    <3>4. FreshStarts'
      BY <3>1, <3>2, FreshKept
    <3> QED BY <3>1, <3>2, <3>3, <3>4, CloseKeepsLineage
  <2>4. ASSUME NEW q \in Run, NEW r \in Run, NEW d \in Digest,
               NEW s \in Session \cup {None}, CreateSuccessor(q, r, d, s)
        PROVE  LineageInv'
    <3> USE <2>4, <1>t, NoneAssumption DEF CreateSuccessor, LineageInv, TypeOK
    <3>1. owner[r] = None /\ key[r] = None /\ ~bound[r] /\ heir[r] = None /\ q # r
      BY DEF EmptyRows, Exists
    <3>2. EmptyRows'
      BY <3>1 DEF EmptyRows, Exists
    <3>3. HeirIsSuccessor'
      <4> SUFFICES ASSUME NEW x \in Run, heir'[x] # None
                   PROVE  /\ ~bound'[x]
                          /\ status'[heir'[x]] \notin {"absent", "retired"}
                          /\ \E e \in Digest : key'[heir'[x]] = [pred |-> x, digest |-> e]
        BY DEF HeirIsSuccessor, Exists
      <4>1. CASE heir'[x] = heir[x]
        <5>1. /\ ~bound[x] /\ Exists(heir[x]) /\ heir[x] \in Run
              /\ \E e \in Digest : key[heir[x]] = [pred |-> x, digest |-> e]
          BY <4>1 DEF HeirIsSuccessor
        <5>2. heir[x] # r /\ x # r
          BY <3>1, <4>1, <5>1 DEF Exists
        <5> QED BY <4>1, <5>1, <5>2 DEF Exists
      <4>2. CASE heir'[x] # heir[x]
        <5>1. x = q /\ heir'[x] = r
          BY <4>2
        <5> QED BY <3>1, <5>1 DEF Exists
      <4> QED BY <4>1, <4>2
    <3>4. OneOwnedRunPerSession'
      BY <3>1 DEF OneOwnedRunPerSession
    <3>5. FreshStarts'
      <4>1. \A o \in Process : Doing(o, "start")' =>
              Doing(o, "start") /\ pend[o].run \in Run /\ pend[o].run # r
        BY DoingType DEF Doing, FreshStarts
      <4> QED BY <4>1 DEF FreshStarts, Doing
    <3> QED BY <3>2, <3>3, <3>4, <3>5
  <2>5. ASSUME NEW r \in Run, Retire(r) PROVE LineageInv'
    BY <1>t, <2>5, DropKeepsLineage DEF Retire
  <2> QED BY <1>2, <2>1, <2>2, <2>3, <2>4, <2>5 DEF StoreStep
<1>3. CASE UNCHANGED vars
  <2>1. FreshStarts' /\ \A q \in Run : Exists(q)' <=> Exists(q)
    BY <1>3, FreshKept DEF vars, Exists
  <2> QED BY <1>t, <1>3, <2>1, CloseKeepsLineage DEF vars
<1> QED BY <1>1, <1>2, <1>3 DEF Next

(* A closed binding's successor exists and was created from that very run.   *)
THEOREM HeirCorrect == Spec => []HeirIsSuccessor
<1>1. LineageInv => HeirIsSuccessor
  BY DEF LineageInv
<1> QED BY LineageInit, LineageStep, <1>1, PTL DEF Spec

(* A session owns at most one live run of a worktree.                        *)
THEOREM OneOwnedCorrect == Spec => []OneOwnedRunPerSession
<1>1. LineageInv => OneOwnedRunPerSession
  BY DEF LineageInv
<1> QED BY LineageInit, LineageStep, <1>1, PTL DEF Spec

(* A run's owning session never changes while the run's row exists.          *)
THEOREM OwnershipCorrect == Spec => OwnershipNeverTransfers
<1>1. ASSUME LineageInv, [Next]_vars
      PROVE  \A r \in Run :
               (owner[r] # None /\ owner'[r] # owner[r])
                 => status'[r] \in {"absent", "retired"}
  <2> SUFFICES ASSUME NEW x \in Run, owner[x] # None, owner'[x] # owner[x]
               PROVE  status'[x] \in {"absent", "retired"}
    OBVIOUS
  <2> USE <1>1 DEF LineageInv, TypeOK
  <2>1. ASSUME NEW p \in Process, ProcessStep(p)
        PROVE  status'[x] \in {"absent", "retired"}
    BY <2>1, DoingType DEF ProcessStep, StartRun, BindOwner, RollbackStart,
       BeginReport, Leave, ObserveMutation, ReadForBlock, CommitBlock,
       ReadForResume, CommitResume, Evaluate, Decide, Finish, DropRow, rowVars
  <2>2. CASE StoreStep
    <3>1. ASSUME NEW s \in Session, NEW r \in Run, AdoptOwner(s, r) \/ ReactivateOwner(s, r)
          PROVE  status'[x] \in {"absent", "retired"}
      BY <3>1 DEF AdoptOwner, ReactivateOwner, Exists
    <3>2. ASSUME NEW r \in Run, ClaimLease(r) \/ Abandon(r) \/ Reconcile
          PROVE  status'[x] \in {"absent", "retired"}
      BY <3>2 DEF ClaimLease, Abandon, Reconcile, rowVars
    <3>3. ASSUME NEW q \in Run, NEW r \in Run, NEW d \in Digest, NEW s \in Session \cup {None},
                 CreateSuccessor(q, r, d, s)
          PROVE  status'[x] \in {"absent", "retired"}
      <4>1. status[r] = "absent" /\ owner' = [owner EXCEPT ![r] = s]
        BY <3>3, Zenon DEF CreateSuccessor
      <4>2. x = r
        BY <4>1
      <4>3. owner[r] = None
        BY <4>1 DEF EmptyRows, Exists
      <4> QED BY <4>2, <4>3
    <3>4. ASSUME NEW r \in Run, Retire(r)
          PROVE  status'[x] \in {"absent", "retired"}
      <4>1. /\ status' = [status EXCEPT ![r] = "retired"]
            /\ owner' = [owner EXCEPT ![r] = None]
        BY <3>4, Zenon DEF Retire, DropRow
      <4>2. x = r
        BY <4>1
      <4> QED BY <4>1, <4>2
    <3>5. Run # {}
      OBVIOUS
    <3> QED BY <2>2, <3>1, <3>2, <3>3, <3>4, <3>5 DEF StoreStep
  <2>3. CASE UNCHANGED vars
    BY <2>3 DEF vars
  <2> QED BY <2>1, <2>2, <2>3 DEF Next
<1> QED BY LineageInit, LineageStep, <1>1, PTL DEF Spec, OwnershipNeverTransfers


-----------------------------------------------------------------------------
(* The invocation resolver.                                                  *)
(*                                                                           *)
(* Each of its steps is a step of RunLifecycle or leaves the store alone, so *)
(* what is proved above about the store holds with any number of resolvers   *)
(* at work.                                                                  *)

(* An invocation under way knows its worktree.  One for a new task has found *)
(* no mutable run, or archived it, when it chooses its cursor, and so        *)
(* resumes nothing that it was not asked for by name.                        *)
JobFormed(j) ==
  /\ j.at # "idle" => j.tree \in Worktree
  /\ j.at = "archived" => j.mutable = {}
  /\ (j.at = "checked" /\ j.new) => j.mutable = {}
  /\ (j.at = "resume" /\ j.new) => j.asked # None

JobInv == InvocationTypeOK /\ \A p \in Invoker : JobFormed(job[p])

LEMMA JobInit == InvocationInit => JobInv
<1>1. Idle \in Job
  BY NoneAssumption DEF Idle, Job, Stages
<1>2. JobFormed(Idle)
  BY DEF Idle, JobFormed
<1> QED BY <1>1, <1>2 DEF InvocationInit, JobInv, InvocationTypeOK

(* One invocation's job is replaced by one that is formed as well. *)
LEMMA GotoKeepsJobs ==
  ASSUME JobInv, NEW p \in Invoker, NEW j \in Job, JobFormed(j), Goto(p, j)
  PROVE  JobInv'
<1>1. job' \in [Invoker -> Job]
  BY DEF Goto, JobInv, InvocationTypeOK
<1>2. ASSUME NEW q \in Invoker PROVE JobFormed(job'[q])
  <2>1. CASE q = p
    <3>1. job'[q] = j
      BY <2>1 DEF Goto, JobInv, InvocationTypeOK
    <3> QED BY <3>1
  <2>2. CASE q # p
    <3>1. job'[q] = job[q]
      BY <2>2 DEF Goto, JobInv, InvocationTypeOK
    <3> QED BY <3>1 DEF JobInv
  <2> QED BY <2>1, <2>2
<1> QED BY <1>1, <1>2 DEF JobInv, InvocationTypeOK

LEMMA FinishedKeepsJobs ==
  ASSUME JobInv, NEW p \in Invoker, Finished(p)
  PROVE  JobInv'
<1>1. Idle \in Job /\ JobFormed(Idle)
  BY NoneAssumption DEF Idle, Job, Stages, JobFormed
<1> QED BY <1>1, GotoKeepsJobs DEF Finished

(* The answer of an invocation is a formed job, unless it is to resume.      *)
LEMMA AnsweredFormed ==
  ASSUME JobInv, NEW p \in Invoker, ~At(p, "idle"),
         NEW mode \in {"discarding", "create", "resume", "successor"},
         NEW r \in Run \cup {None},
         mode = "resume" /\ job[p].new => job[p].asked # None
  PROVE  Answered(p, mode, r) \in Job /\ JobFormed(Answered(p, mode, r))
<1>1. job[p] \in Job /\ JobFormed(job[p])
  BY DEF JobInv, InvocationTypeOK
<1>2. Answered(p, mode, r) \in Job
  BY <1>1 DEF Answered, Job, Stages
<1>3. /\ Answered(p, mode, r).at = mode
      /\ Answered(p, mode, r).tree = job[p].tree
      /\ Answered(p, mode, r).new = job[p].new
      /\ Answered(p, mode, r).asked = job[p].asked
  BY <1>1 DEF Answered, Job
<1>4. JobFormed(Answered(p, mode, r))
  BY <1>1, <1>3 DEF JobFormed, At
<1> QED BY <1>2, <1>4

LEMMA AnswerKeepsJobs ==
  ASSUME JobInv, NEW p \in Invoker, At(p, "checked"), NEW r \in Run, Answer(p, r),
         job[p].new /\ job[p].asked = None =>
           status[r] \in {"completed", "abandoned"}
  PROVE  JobInv'
<1>1. PICK mode \in Modes(p, r) :
        Goto(p, IF mode = "idle" THEN Idle ELSE Answered(p, mode, r))
  BY DEF Answer, Read
<1>2. mode \in {"idle", "create", "resume", "successor"}
  BY DEF Modes
<1>3. CASE mode = "idle"
  BY <1>1, <1>3, FinishedKeepsJobs DEF Finished
<1>4. CASE mode # "idle"
  <2>1. mode = "resume" => status[r] \in {"active", "blocked"}
    BY DEF Modes
  <2>2. mode = "resume" /\ job[p].new => job[p].asked # None
    BY <2>1
  <2>3. Answered(p, mode, r) \in Job /\ JobFormed(Answered(p, mode, r))
    BY <1>2, <1>4, <2>2, AnsweredFormed DEF At
  <2> QED BY <1>1, <1>4, <2>3, GotoKeepsJobs
<1> QED BY <1>3, <1>4

LEMMA AbandonRunAllowed ==
  ASSUME NEW r \in Run, AbandonRun(r)
  PROVE  [Next]_vars
<1>1. CASE Abandon(r)
  BY <1>1 DEF StoreStep, Next
<1>2. CASE UNCHANGED vars
  BY <1>2
<1> QED BY <1>1, <1>2 DEF AbandonRun

LEMMA ResolveAllowed ==
  ASSUME JobInv, NEW p \in Invoker, Resolve(p)
  PROVE  [Next]_vars
<1>p. p \in Process
  BY InvokerAssumption
<1>1. ASSUME NEW w \in Worktree, Invoke(p, w) PROVE UNCHANGED vars
  BY <1>1 DEF Invoke, Read
<1>2. ASSUME NEW asked \in Run \cup {None}, NEW new \in BOOLEAN,
             ReadHolder(p, asked, new)
      PROVE  UNCHANGED vars
  BY <1>2 DEF ReadHolder, Read
<1>3. ASSUME NEW r \in Run, Archive(p, r) PROVE [Next]_vars
  BY <1>3, AbandonRunAllowed DEF Archive
<1>4. CASE RereadHolder(p)
  BY <1>4 DEF RereadHolder, Read
<1>5. ASSUME NEW r, Answer(p, r) PROVE UNCHANGED vars
  BY <1>5 DEF Answer, Read
<1>6. CASE ChooseRequested(p)
  BY <1>5, <1>6 DEF ChooseRequested
<1>7. ASSUME NEW r \in Run, ChooseMutable(p, r) PROVE UNCHANGED vars
  BY <1>7 DEF ChooseMutable, Read
<1>8. ASSUME NEW r \in Run, ChooseLatest(p, r) PROVE UNCHANGED vars
  BY <1>5, <1>8 DEF ChooseLatest, Read
<1>9. CASE ChooseNone(p)
  BY <1>9 DEF ChooseNone, Read
<1>10. ASSUME NEW r \in Run, Discard(p, r) PROVE [Next]_vars
  BY <1>10, AbandonRunAllowed DEF Discard
<1>11. ASSUME NEW r \in Run, Start(p, r) PROVE [Next]_vars
  <2>1. job[p].tree \in Worktree /\ StartRun(p, r, job[p].tree)
    BY <1>11 DEF Start, Target, At, JobInv, JobFormed
  <2> QED BY <1>p, <2>1 DEF ProcessStep, Next
<1>12. ASSUME NEW r \in Run, NEW s \in Session, TakeUp(p, r, s) PROVE [Next]_vars
  BY <1>12 DEF TakeUp, StoreStep, Next
<1>13. ASSUME NEW r \in Run, NEW d \in Digest, NEW s \in Session \cup {None},
              Succeed(p, r, d, s)
       PROVE  [Next]_vars
  BY <1>13 DEF Succeed, StoreStep, Next
<1>14. CASE Return(p)
  BY <1>14 DEF Return
<1> QED
  BY <1>1, <1>2, <1>3, <1>4, <1>6, <1>7, <1>8, <1>9, <1>10, <1>11, <1>12,
     <1>13, <1>14 DEF Resolve

LEMMA ListingKeepsJobs ==
  ASSUME TypeOK, JobInv, NEW p \in Invoker,
         \/ \E w \in Worktree : Invoke(p, w)
         \/ \E asked \in Run \cup {None}, new \in BOOLEAN : ReadHolder(p, asked, new)
         \/ RereadHolder(p)
  PROVE  JobInv'
<1>0. job[p] \in Job /\ JobFormed(job[p])
  BY DEF JobInv, InvocationTypeOK
<1>1. ASSUME NEW w \in Worktree, Invoke(p, w) PROVE JobInv'
  <2> DEFINE live == {r \in Run : worktree[r] = w /\ status[r] = "active"}
             stopped == {r \in Run : worktree[r] = w /\ status[r] = "blocked"}
             j == [Idle EXCEPT !.at = "listed", !.tree = w, !.live = live,
                               !.stopped = stopped]
  <2>1. Goto(p, j)
    BY <1>1 DEF Invoke, Read
  <2>2. live \in SUBSET Run /\ stopped \in SUBSET Run
    OBVIOUS
  <2> HIDE DEF live, stopped
  <2>3. j \in Job
    BY <2>2, NoneAssumption DEF Idle, Job, Stages
  <2>4. JobFormed(j)
    BY DEF Idle, JobFormed
  <2> QED BY <2>1, <2>3, <2>4, GotoKeepsJobs
<1>2. ASSUME NEW asked \in Run \cup {None}, NEW new \in BOOLEAN,
             ReadHolder(p, asked, new)
      PROVE  JobInv'
  <2>1. Mutable(p) \in SUBSET Run
    BY <1>0 DEF Mutable, Job
  <2>2. job[p].tree \in Worktree /\ lease[job[p].tree] \in Run \cup {None}
    BY <1>0, <1>2 DEF ReadHolder, At, JobFormed, TypeOK
  <2> DEFINE runs == Mutable(p)
             found == [job[p] EXCEPT !.asked = asked, !.new = new, !.mutable = runs,
                                     !.live = {}, !.stopped = {}]
             j == [found EXCEPT !.at = "archiving"]
             k == [found EXCEPT !.at = "checked", !.holder = lease[job[p].tree]]
  <2>3. \/ Goto(p, j)
        \/ (new => runs = {}) /\ Goto(p, k)
    BY <1>2 DEF ReadHolder, Read, Conflict
  <2> HIDE DEF runs
  <2>4. found \in Job
    BY <1>0, <2>1 DEF Job, runs
  <2>5. /\ found.tree = job[p].tree /\ found.new = new /\ found.mutable = runs
    BY <1>0 DEF Job
  <2> HIDE DEF found
  <2>6. j \in Job /\ j.at = "archiving" /\ j.tree = found.tree
    BY <2>4 DEF Job, Stages
  <2>7. /\ k \in Job /\ k.at = "checked" /\ k.tree = found.tree
        /\ k.new = found.new /\ k.mutable = found.mutable
    BY <2>2, <2>4 DEF Job, Stages
  <2>8. JobFormed(j)
    BY <2>2, <2>5, <2>6 DEF JobFormed
  <2>9. (new => runs = {}) => JobFormed(k)
    BY <2>2, <2>5, <2>7 DEF JobFormed
  <2> HIDE DEF j, k
  <2> QED BY <2>3, <2>6, <2>7, <2>8, <2>9, GotoKeepsJobs
<1>3. CASE RereadHolder(p)
  <2>1. /\ job[p].at = "archived" /\ job[p].tree \in Worktree
        /\ lease[job[p].tree] \in Run \cup {None} /\ job[p].mutable = {}
    BY <1>0, <1>3 DEF RereadHolder, At, JobFormed, TypeOK
  <2> DEFINE j == [job[p] EXCEPT !.at = "checked", !.holder = lease[job[p].tree]]
  <2>2. Goto(p, j)
    BY <1>3 DEF RereadHolder, Read
  <2>3. j \in Job
    BY <1>0, <2>1 DEF Job, Stages
  <2>4. j.at = "checked" /\ j.mutable = {} /\ j.tree = job[p].tree
    BY <1>0, <2>1 DEF Job
  <2>5. JobFormed(j)
    BY <2>1, <2>4 DEF JobFormed
  <2> QED BY <2>2, <2>3, <2>5, GotoKeepsJobs
<1> QED BY <1>1, <1>2, <1>3

LEMMA ChoiceKeepsJobs ==
  ASSUME JobInv, NEW p \in Invoker,
         \/ ChooseRequested(p)
         \/ \E r \in Run : ChooseMutable(p, r)
         \/ \E r \in Run : ChooseLatest(p, r)
         \/ ChooseNone(p)
  PROVE  JobInv'
<1>0. job[p] \in Job /\ JobFormed(job[p])
  BY DEF JobInv, InvocationTypeOK
<1>1. At(p, "checked") /\ ~At(p, "idle")
  BY DEF ChooseRequested, ChooseMutable, ChooseLatest, ChooseNone, At
<1>2. ASSUME NEW mode \in {"discarding", "create"}, NEW r \in Run \cup {None},
             Goto(p, Answered(p, mode, r))
      PROVE  JobInv'
  <2>1. Answered(p, mode, r) \in Job /\ JobFormed(Answered(p, mode, r))
    BY <1>1, AnsweredFormed
  <2> QED BY <1>2, <2>1, GotoKeepsJobs
<1>3. CASE ChooseRequested(p)
  <2>1. job[p].asked \in Run /\ job[p].asked # None
    BY <1>0, <1>3 DEF ChooseRequested, Requested, Job
  <2> QED BY <1>1, <1>3, <2>1, AnswerKeepsJobs DEF ChooseRequested
<1>4. ASSUME NEW r \in Run, ChooseMutable(p, r) PROVE JobInv'
  <2>1. ~job[p].new
    BY <1>0, <1>4 DEF ChooseMutable, JobFormed, At
  <2>2. Answered(p, "resume", r) \in Job /\ JobFormed(Answered(p, "resume", r))
    BY <1>1, <2>1, AnsweredFormed
  <2> QED BY <1>4, <2>2, GotoKeepsJobs DEF ChooseMutable, Read
<1>5. ASSUME NEW r \in Run, ChooseLatest(p, r) PROVE JobInv'
  <2>1. CASE Goto(p, Answered(p, "create", None))
    BY <1>2, <2>1
  <2>2. CASE Goto(p, Answered(p, "discarding", r))
    BY <1>2, <2>2
  <2>3. CASE ~PassesOver(p, r) /\ Answer(p, r)
    <3>1. job[p].new => status[r] \in {"completed", "abandoned"}
      BY <2>3 DEF PassesOver
    <3> QED BY <1>1, <2>3, <3>1, AnswerKeepsJobs
  <2> QED BY <1>5, <2>1, <2>2, <2>3 DEF ChooseLatest, Read
<1>6. CASE ChooseNone(p)
  BY <1>2, <1>6 DEF ChooseNone, Read
<1> QED BY <1>3, <1>4, <1>5, <1>6

LEMMA ResolveKeepsJobs ==
  ASSUME TypeOK, JobInv, NEW p \in Invoker, Resolve(p)
  PROVE  JobInv'
<1>0. job[p] \in Job /\ JobFormed(job[p])
  BY DEF JobInv, InvocationTypeOK
<1>1. ASSUME NEW r \in Run, Archive(p, r) PROVE JobInv'
  <2> DEFINE j == [job[p] EXCEPT !.at = "archived", !.mutable = {}]
  <2>1. Goto(p, j) /\ job[p].at = "archiving"
    BY <1>1 DEF Archive, At
  <2>2. j \in Job
    BY <1>0 DEF Job, Stages
  <2>3. j.at = "archived" /\ j.mutable = {} /\ j.tree = job[p].tree
    BY <1>0 DEF Job
  <2>4. JobFormed(j)
    BY <1>0, <2>1, <2>3 DEF JobFormed
  <2> QED BY <2>1, <2>2, <2>4, GotoKeepsJobs
<1>2. ASSUME NEW r \in Run, Discard(p, r) PROVE JobInv'
  <2>1. Goto(p, Answered(p, "create", None)) /\ ~At(p, "idle")
    BY <1>2 DEF Discard, At
  <2>2. Answered(p, "create", None) \in Job /\ JobFormed(Answered(p, "create", None))
    BY <2>1, AnsweredFormed
  <2> QED BY <2>1, <2>2, GotoKeepsJobs
<1>3. ASSUME Finished(p) PROVE JobInv'
  BY <1>3, FinishedKeepsJobs
<1> QED
  BY <1>1, <1>2, <1>3, ListingKeepsJobs, ChoiceKeepsJobs
  DEF Resolve, Start, TakeUp, Succeed, Return

LEMMA OthersAllowed ==
  ASSUME Others
  PROVE  Next
BY DEF Others, Next

LEMMA InvocationStep ==
  TypeOK /\ JobInv /\ [InvocationNext]_invVars => [Next]_vars /\ JobInv'
<1> SUFFICES ASSUME TypeOK, JobInv, [InvocationNext]_invVars
             PROVE  [Next]_vars /\ JobInv'
  OBVIOUS
<1>1. CASE Others
  <2>1. job' = job
    BY <1>1 DEF Others
  <2>2. JobInv'
    BY <2>1 DEF JobInv, InvocationTypeOK
  <2> QED BY <1>1, <2>2, OthersAllowed
<1>2. ASSUME NEW p \in Invoker, Resolve(p) PROVE [Next]_vars /\ JobInv'
  BY <1>2, ResolveAllowed, ResolveKeepsJobs
<1>3. CASE UNCHANGED invVars
  <2>1. job' = job /\ UNCHANGED vars
    BY <1>3 DEF invVars
  <2>2. JobInv'
    BY <2>1 DEF JobInv, InvocationTypeOK
  <2> QED BY <2>1, <2>2
<1> QED BY <1>1, <1>2, <1>3 DEF InvocationNext

LEMMA InvocationInvariant == InvocationSpec => [](TypeOK /\ JobInv)
<1>1. InvocationInit => TypeOK /\ JobInv
  BY TypeInit, JobInit DEF InvocationInit
<1>2. TypeOK /\ JobInv /\ [InvocationNext]_invVars => (TypeOK /\ JobInv)'
  BY InvocationStep, TypeStep
<1> QED BY <1>1, <1>2, PTL DEF InvocationSpec

(* Every reachable job of a resolver is one of its stages with the run, the  *)
(* worktree and the sets of runs it has read.                                *)
THEOREM InvocationTypeCorrect == InvocationSpec => []InvocationTypeOK
<1>1. JobInv => InvocationTypeOK
  BY DEF JobInv
<1> QED BY <1>1, InvocationInvariant, PTL

(* The resolver acts only as the run life cycle allows, though it acts on    *)
(* what it read some time before.                                            *)
THEOREM InvocationKeepsLifecycle == InvocationSpec => KeepsLifecycle
<1>1. InvocationInit => Init
  BY DEF InvocationInit
<1>2. TypeOK /\ JobInv /\ [InvocationNext]_invVars => [Next]_vars
  BY InvocationStep
<1> QED BY <1>1, <1>2, InvocationInvariant, PTL DEF InvocationSpec, KeepsLifecycle, Spec

(* With resolvers at work as well, a worktree's lease is held by a run that  *)
(* may still write, and a run that never ended keeps its worktree: archiving *)
(* leaves no lease behind and takes none from a run that is not archived.    *)
THEOREM InvocationLeaseCorrect ==
  InvocationSpec => [](LeaseHolderMutable /\ MutableRunHoldsLease)
  BY InvocationKeepsLifecycle, LeaseHolderCorrect, MutableRunCorrect, PTL
  DEF KeepsLifecycle

LEMMA ResolveMovesOne ==
  ASSUME NEW p \in Invoker, Resolve(p)
  PROVE  \E j : job' = [job EXCEPT ![p] = j]
<1>1. \A j : Goto(p, j) => \E k : job' = [job EXCEPT ![p] = k]
  BY DEF Goto
<1>2. \A r : Answer(p, r) => \E j : Goto(p, j)
  BY DEF Answer, Read
<1>3. (\E j : Read(p, j)) => \E j : Goto(p, j)
  BY DEF Read
<1>4. \E j : Goto(p, j)
  BY <1>2, <1>3 DEF Resolve, Invoke, ReadHolder, Archive, RereadHolder,
       ChooseRequested, ChooseMutable, ChooseLatest, ChooseNone, Discard, Start,
       TakeUp, Succeed, Return, Finished
<1> QED BY <1>1, <1>4

(* What a new task does to a run that already exists. *)
NothingTakenUp ==
  \A r \in Run : Exists(r) =>
    /\ owner'[r] = owner[r]
    /\ bound'[r] => bound[r]
    /\ status'[r] = "active" => status[r] = "active"

LEMMA AbandonTakesUpNothing ==
  ASSUME TypeOK, NEW r \in Run, AbandonRun(r)
  PROVE  NothingTakenUp
<1>1. CASE Abandon(r)
  BY <1>1 DEF Abandon, TypeOK, NothingTakenUp
<1>2. CASE UNCHANGED vars
  BY <1>2 DEF vars, NothingTakenUp
<1> QED BY <1>1, <1>2 DEF AbandonRun

LEMMA ResolveTakesUpNothing ==
  ASSUME TypeOK, JobInv, NEW p \in Invoker, Resolve(p), job[p].new, job[p].asked = None
  PROVE  NothingTakenUp
<1>1. ASSUME UNCHANGED vars PROVE NothingTakenUp
  BY <1>1 DEF vars, NothingTakenUp
<1>2. ASSUME NEW w \in Worktree, Invoke(p, w) PROVE NothingTakenUp
  BY <1>1, <1>2 DEF Invoke, Read
<1>3. ASSUME \/ \E asked \in Run \cup {None}, new \in BOOLEAN :
                  ReadHolder(p, asked, new)
             \/ RereadHolder(p)
      PROVE  NothingTakenUp
  BY <1>1, <1>3 DEF ReadHolder, RereadHolder, Read
<1>4. ASSUME NEW r, Answer(p, r) PROVE NothingTakenUp
  BY <1>1, <1>4 DEF Answer, Read
<1>5. CASE ChooseRequested(p) \/ ChooseNone(p)
  BY <1>1, <1>4, <1>5 DEF ChooseRequested, ChooseNone, Read
<1>6. ASSUME NEW r \in Run, ChooseMutable(p, r) \/ ChooseLatest(p, r)
      PROVE  NothingTakenUp
  BY <1>1, <1>4, <1>6 DEF ChooseMutable, ChooseLatest, Read
<1>7. ASSUME NEW r \in Run, Archive(p, r) \/ Discard(p, r) PROVE NothingTakenUp
  BY <1>7, AbandonTakesUpNothing DEF Archive, Discard
<1>8. ASSUME NEW r \in Run, Start(p, r) PROVE NothingTakenUp
  <2>1. /\ status[r] = "absent"
        /\ status' = [status EXCEPT ![r] = "active"]
        /\ owner' = owner /\ bound' = bound
    BY <1>8 DEF Start, StartRun
  <2> QED BY <2>1 DEF NothingTakenUp, Exists, TypeOK
<1>9. ASSUME NEW r \in Run, NEW s \in Session, TakeUp(p, r, s) PROVE FALSE
  <2>1. Target(p, r)
    BY <1>9 DEF TakeUp
  <2>2. job[p].at = "resume"
    BY <2>1 DEF Target, At
  <2> QED BY <2>2 DEF JobInv, JobFormed
<1>10. ASSUME NEW r \in Run, NEW d \in Digest, NEW s \in Session \cup {None},
              Succeed(p, r, d, s)
       PROVE  NothingTakenUp
  <2>1. PICK q \in Run : CreateSuccessor(q, r, d, s)
    BY <1>10 DEF Succeed
  <2>2. /\ status[r] = "absent"
        /\ status' = [status EXCEPT ![r] = "active"]
        /\ owner' = [owner EXCEPT ![r] = s]
        /\ bound' = [bound EXCEPT ![q] = FALSE, ![r] = s # None]
    BY <2>1, Zenon DEF CreateSuccessor
  <2>3. ASSUME NEW x \in Run, Exists(x) PROVE x # r
    BY <2>2, <2>3 DEF Exists
  <2>4. ASSUME NEW x \in Run, x # r
        PROVE  /\ owner'[x] = owner[x] /\ status'[x] = status[x]
               /\ bound'[x] => bound[x]
    BY <2>2, <2>4 DEF TypeOK
  <2> QED BY <2>3, <2>4 DEF NothingTakenUp
<1>11. CASE Return(p)
  BY <1>1, <1>11 DEF Return
<1> QED
  BY <1>2, <1>3, <1>5, <1>6, <1>7, <1>8, <1>9, <1>10, <1>11 DEF Resolve

(* A new task that names no run never takes up one that exists: when it      *)
(* chooses, no mutable run is left in its way, and the latest run counts     *)
(* only if it is over.                                                       *)
THEOREM NewTaskCorrect == InvocationSpec => NewTaskTakesUpNothing
<1> DEFINE Kept == \A p \in Invoker :
             (job[p].new /\ job[p].asked = None /\ job'[p] # job[p])
               => NothingTakenUp
<1>1. ASSUME TypeOK, JobInv, [InvocationNext]_invVars PROVE Kept
  <2>1. CASE job' = job
    BY <2>1
  <2>2. ASSUME NEW q \in Invoker, Resolve(q) PROVE Kept
    <3> SUFFICES ASSUME NEW p \in Invoker, job[p].new, job[p].asked = None,
                        job'[p] # job[p]
                 PROVE  NothingTakenUp
      OBVIOUS
    <3>1. \E j : job' = [job EXCEPT ![q] = j]
      BY <2>2, ResolveMovesOne
    <3>2. p = q
      BY <3>1 DEF JobInv, InvocationTypeOK
    <3> QED BY <1>1, <2>2, <3>2, ResolveTakesUpNothing
  <2>3. Others \/ UNCHANGED invVars => job' = job
    BY DEF Others, invVars
  <2> QED BY <1>1, <2>1, <2>2, <2>3 DEF InvocationNext
<1>2. TypeOK /\ JobInv /\ [InvocationNext]_invVars => Kept
  BY <1>1
<1> HIDE DEF Kept
<1>3. Kept <=> \A p \in Invoker :
        (job[p].new /\ job[p].asked = None /\ job'[p] # job[p]) =>
          \A r \in Run : Exists(r) =>
            /\ owner'[r] = owner[r]
            /\ bound'[r] => bound[r]
            /\ status'[r] = "active" => status[r] = "active"
  BY Zenon DEF Kept, NothingTakenUp
<1> QED BY <1>2, <1>3, InvocationInvariant, PTL DEF InvocationSpec, NewTaskTakesUpNothing

=============================================================================
