---------------------------- MODULE RunLifecycle ----------------------------
(***************************************************************************)
(* The life of a Run in the Kernel's SQLite state store: creation with its *)
(* worktree mutation lease, the owner binding of the host session, block   *)
(* and resume, completion, abandonment, successor runs, retirement and the *)
(* terminal reconciliation.  Every db.transaction of the store is one      *)
(* action; what a process has read before such a transaction and uses in   *)
(* it is remembered in pend, so that several Kernel processes interleave   *)
(* between the read and the write.                                         *)
(*                                                                         *)
(* One project: every project mismatch is an error path that changes       *)
(* nothing.  A workspace and its worktree are one element of Worktree.     *)
(***************************************************************************)
EXTENDS FiniteSets

CONSTANTS
  Run,       \* run ids
  Worktree,  \* physical worktrees
  Session,   \* host sessions, the owners of bindings
  Digest,    \* task contract digests, part of a successor key
  Process,   \* Kernel processes sharing the database
  None       \* SQL NULL

ASSUME NoneAssumption ==
  /\ None \notin Run \cup Session \cup Worktree
  /\ None \notin [pred : Run, digest : Digest]

VARIABLES
  status,        \* runs.status; "absent" has no row, "retired" only a marker
  worktree,      \* runs.worktree_id
  finalization,  \* runs.finalization_status
  mutated,       \* runs.mutation_revision > 0
  key,           \* runs.successor_key: the predecessor and the digest
  owner,         \* session of the binding named by runs.owner_binding_id
  bound,         \* that binding's status is 'active'
  heir,          \* that binding's successor_run_id
  lease,         \* worktree_mutation_leases: the holder run of a worktree
  pend,          \* what each process is about to write
  ended          \* history: runs that were ever completed or abandoned

vars == <<status, worktree, finalization, mutated, key, owner, bound, heir,
          lease, pend, ended>>
rowVars == <<worktree, finalization, mutated, key, owner, bound, heir>>

Statuses == {"absent", "active", "blocked", "completed", "abandoned", "retired"}
Finalizations == {"pending", "partial", "blocked", "completed"}
Verdicts == {"accepted", "blocked"}
SuccessorKey == [pred : Run, digest : Digest]
Operation == [op : {"start", "report", "block", "resume", "decide", "finish"},
              run : Run, verdict : Verdicts]

TypeOK ==
  /\ status \in [Run -> Statuses]
  /\ worktree \in [Run -> Worktree \cup {None}]
  /\ finalization \in [Run -> Finalizations]
  /\ mutated \in [Run -> BOOLEAN]
  /\ key \in [Run -> SuccessorKey \cup {None}]
  /\ owner \in [Run -> Session \cup {None}]
  /\ bound \in [Run -> BOOLEAN]
  /\ heir \in [Run -> Run \cup {None}]
  /\ lease \in [Worktree -> Run \cup {None}]
  /\ pend \in [Process -> Operation \cup {None}]
  /\ ended \in SUBSET Run

Exists(r) == status[r] \notin {"absent", "retired"}

(* worktreeLeaseTerminalStatuses: what frees a worktree.  A blocked run is   *)
(* terminal for its binding and not for its lease.                           *)
LeaseTerminalWithBlocked == {"completed", "blocked", "abandoned"}  \* mutant
LeaseTerminal == {"completed", "abandoned"}

(* SQLite refuses a second active owner binding of a session in a workspace. *)
NeverOwnsElsewhere(s, w, r) == FALSE  \* mutant: no unique index
OwnsElsewhere(s, w, r) ==
  \E q \in Run \ {r} : bound[q] /\ owner[q] = s /\ worktree[q] = w

(* claimWorktreeLeaseInTransaction: r may take, or already has, w's lease. *)
AlwaysClaimable(w, r) == TRUE  \* mutant: INSERT OR REPLACE
Claimable(w, r) ==
  lease[w] \notin {None, r} =>
    ~Exists(lease[w]) \/ status[lease[w]] \in LeaseTerminal

(* No other run's lease, nor another worktree's, is touched by a deletion. *)
KeepLeaseOf(r) == lease  \* mutant: the lease row is forgotten
WithoutLeaseOf(r) ==
  [w \in Worktree |-> IF lease[w] = r THEN None ELSE lease[w]]

Doing(p, op) == pend[p] # None /\ pend[p].op = op
Do(p, op, r, v) ==
  pend' = [pend EXCEPT ![p] = [op |-> op, run |-> r, verdict |-> v]]

Init ==
  /\ status = [r \in Run |-> "absent"]
  /\ worktree = [r \in Run |-> None]
  /\ finalization = [r \in Run |-> "pending"]
  /\ mutated = [r \in Run |-> FALSE]
  /\ key = [r \in Run |-> None]
  /\ owner = [r \in Run |-> None]
  /\ bound = [r \in Run |-> FALSE]
  /\ heir = [r \in Run |-> None]
  /\ lease = [w \in Worktree |-> None]
  /\ pend = [p \in Process |-> None]
  /\ ended = {}

-----------------------------------------------------------------------------
(* Creation, and the ways a run gets its owner.                              *)

(* createRun inside startRun: row and lease in one transaction. *)
StartRun(p, r, w) ==
  /\ pend[p] = None
  /\ status[r] = "absent"
  /\ Claimable(w, r)
  /\ status' = [status EXCEPT ![r] = "active"]
  /\ worktree' = [worktree EXCEPT ![r] = w]
  /\ lease' = [lease EXCEPT ![w] = r]
  /\ Do(p, "start", r, "blocked")
  /\ UNCHANGED <<finalization, mutated, key, owner, bound, heir, ended>>

(* ensureRun goes on with createSessionBinding, in a second transaction that *)
(* looks at the run's owner but not at its status.                           *)
BindOwner(p, s) ==
  /\ Doing(p, "start")
  /\ LET r == pend[p].run IN
       /\ Exists(r)
       /\ owner[r] = None
       /\ ~OwnsElsewhere(s, worktree[r], r)
       /\ owner' = [owner EXCEPT ![r] = s]
       /\ bound' = [bound EXCEPT ![r] = TRUE]
  /\ UNCHANGED <<status, worktree, finalization, mutated, key, heir, lease, pend, ended>>

(* The row of r and every child row go: binding, worktree lease. *)
DropRow(r, gone) ==
  /\ status' = [status EXCEPT ![r] = gone]
  /\ worktree' = [worktree EXCEPT ![r] = None]
  /\ finalization' = [finalization EXCEPT ![r] = "pending"]
  /\ mutated' = [mutated EXCEPT ![r] = FALSE]
  /\ key' = [key EXCEPT ![r] = None]
  /\ owner' = [owner EXCEPT ![r] = None]
  /\ bound' = [bound EXCEPT ![r] = FALSE]
  /\ heir' = [heir EXCEPT ![r] = None]
  /\ lease' = WithoutLeaseOf(r)
  /\ ended' = ended \ {r}

(* Initialization failed after the row was written, before or after the owner *)
(* was bound: rollbackRunInitialization erases a run that is still mutable    *)
(* and has observed no mutation.                                              *)
RollbackStart(p) ==
  /\ Doing(p, "start")
  /\ LET r == pend[p].run IN
       /\ status[r] \in {"active", "blocked"}
       /\ ~mutated[r]
       /\ DropRow(r, "absent")
  /\ pend' = [pend EXCEPT ![p] = None]

(* adoptUnownedRunBinding, on any existing run without an owner. *)
AdoptAnyway(s, r) ==  \* mutant: no compare-and-set on the owner
  /\ Exists(r)
  /\ ~OwnsElsewhere(s, worktree[r], r)
  /\ owner' = [owner EXCEPT ![r] = s]
  /\ bound' = [bound EXCEPT ![r] = TRUE]
  /\ UNCHANGED <<status, worktree, finalization, mutated, key, heir, lease, pend, ended>>

AdoptOwner(s, r) ==
  /\ Exists(r)
  /\ owner[r] = None
  /\ ~OwnsElsewhere(s, worktree[r], r)
  /\ owner' = [owner EXCEPT ![r] = s]
  /\ bound' = [bound EXCEPT ![r] = TRUE]
  /\ UNCHANGED <<status, worktree, finalization, mutated, key, heir, lease, pend, ended>>

(* reactivateBlockedRunBinding: the blocked run's own session takes it up    *)
(* again.  The transaction does not claim the worktree lease.                *)
ReactivateOwner(s, r) ==
  /\ status[r] = "blocked"
  /\ owner[r] = s
  /\ ~bound[r]
  /\ ~OwnsElsewhere(s, worktree[r], r)
  /\ status' = [status EXCEPT ![r] = "active"]
  /\ bound' = [bound EXCEPT ![r] = TRUE]
  /\ heir' = [heir EXCEPT ![r] = None]
  /\ UNCHANGED <<worktree, finalization, mutated, key, owner, lease, pend, ended>>

(* acquireWorktreeMutationLease of an active run. *)
ClaimLease(r) ==
  /\ status[r] = "active"
  /\ lease[worktree[r]] # r
  /\ Claimable(worktree[r], r)
  /\ lease' = [lease EXCEPT ![worktree[r]] = r]
  /\ UNCHANGED <<status, rowVars, pend, ended>>

-----------------------------------------------------------------------------
(* Reports: a process works on a run in several transactions.                *)

(* report() after preflight: an active or blocked run must hold its lease.   *)
(* The Run lease (module RunLease) is not an exclusion the actions rely on.  *)
BeginReport(p, r) ==
  /\ pend[p] = None
  /\ Exists(r)
  /\ status[r] \in {"active", "blocked"} => lease[worktree[r]] = r
  /\ ~(status[r] = "completed" /\ finalization[r] = "completed")
  /\ Do(p, "report", r, "blocked")
  /\ UNCHANGED <<status, rowVars, lease, ended>>

(* The command returns, throws or its process dies: nothing more is written. *)
Leave(p) ==
  /\ pend[p] # None
  /\ pend' = [pend EXCEPT ![p] = None]
  /\ UNCHANGED <<status, rowVars, lease, ended>>

(* observeWorkspaceIdentity found the worktree changed. *)
ObserveMutation(p) ==
  /\ Doing(p, "report")
  /\ Exists(pend[p].run)
  /\ ~mutated[pend[p].run]
  /\ mutated' = [mutated EXCEPT ![pend[p].run] = TRUE]
  /\ UNCHANGED <<status, worktree, finalization, key, owner, bound, heir, lease, pend, ended>>

(* markRunBlocked reads the run and refuses only a completed one ... *)
ReadForBlock(p) ==
  /\ Doing(p, "report")
  /\ Exists(pend[p].run)
  /\ status[pend[p].run] # "completed"
  /\ Do(p, "block", pend[p].run, "blocked")
  /\ UNCHANGED <<status, rowVars, lease, ended>>

(* ... and then writes without an expected status; reconciliation of the run *)
(* closes its binding and keeps its lease.                                   *)
CommitBlock(p) ==
  /\ Doing(p, "block")
  /\ LET r == pend[p].run IN
       /\ Exists(r)
       /\ status' = [status EXCEPT ![r] = "blocked"]
       /\ bound' = [bound EXCEPT ![r] = FALSE]
       /\ heir' = [heir EXCEPT ![r] = IF bound[r] THEN None ELSE @]
  /\ pend' = [pend EXCEPT ![p] = None]
  /\ UNCHANGED <<worktree, finalization, mutated, key, owner, lease, ended>>

(* resumeBlockedRun reads the status outside its transaction ... *)
ReadForResume(p) ==
  /\ Doing(p, "report")
  /\ status[pend[p].run] = "blocked"
  /\ Do(p, "resume", pend[p].run, "blocked")
  /\ UNCHANGED <<status, rowVars, lease, ended>>

(* ... and in it claims the lease and sets 'active' whatever the status is.  *)
CommitResume(p) ==
  /\ Doing(p, "resume")
  /\ LET r == pend[p].run IN
       /\ Exists(r)
       /\ Claimable(worktree[r], r)
       /\ status' = [status EXCEPT ![r] = "active"]
       /\ lease' = [lease EXCEPT ![worktree[r]] = r]
       /\ Do(p, "report", r, "blocked")
  /\ UNCHANGED <<rowVars, ended>>

(* finalizeRun evaluates completion.  A run already completed is a           *)
(* finalization retry and gets no new decision.                              *)
Evaluate(p, v) ==
  /\ Doing(p, "report")
  /\ LET r == pend[p].run IN
       /\ Exists(r)
       /\ \/ status[r] # "completed" /\ Do(p, "decide", r, v)
          \/ status[r] = "completed" /\ v = "accepted" /\ Do(p, "finish", r, v)
  /\ UNCHANGED <<status, rowVars, lease, ended>>

(* persistCompletionDecision: the status follows the decision, with no look  *)
(* at the present status; reconciliation closes the binding and, for a       *)
(* completed run, gives up the lease.                                        *)
Decide(p) ==
  /\ Doing(p, "decide")
  /\ LET r == pend[p].run
         accepted == pend[p].verdict = "accepted"
     IN
       /\ Exists(r)
       /\ status' = [status EXCEPT ![r] = IF accepted THEN "completed" ELSE "blocked"]
       /\ bound' = [bound EXCEPT ![r] = FALSE]
       /\ heir' = [heir EXCEPT ![r] = IF bound[r] THEN None ELSE @]
       /\ lease' = IF accepted THEN WithoutLeaseOf(r) ELSE lease
       /\ ended' = IF accepted THEN ended \cup {r} ELSE ended
       /\ Do(p, "finish", r, pend[p].verdict)
  /\ UNCHANGED <<worktree, finalization, mutated, key, owner>>

(* What finalizeRun can come to: closeout and knowledge done or not, or, for  *)
(* a decision not to accept or unmet gates, 'blocked'.                       *)
Outcome(p) ==
  IF pend[p].op = "finish" /\ pend[p].verdict = "accepted"
  THEN {"completed", "partial"} ELSE {"blocked"}

(* setFinalizationStatus, at the end of finalizeRun or of its early return.  *)
Finish(p) ==
  /\ \/ Doing(p, "finish")
     \/ Doing(p, "report")
  /\ LET r == pend[p].run IN
       /\ Exists(r)
       /\ \E f \in Outcome(p) : finalization' = [finalization EXCEPT ![r] = f]
  /\ pend' = [pend EXCEPT ![p] = None]
  /\ UNCHANGED <<status, worktree, mutated, key, owner, bound, heir, lease, ended>>

-----------------------------------------------------------------------------
(* The ends of a run and what follows it.                                    *)

(* abandonRun, by an operator or by the invocation resolver that archives a  *)
(* blocked run for a new task: one transaction that checks the status.       *)
Abandon(r) ==
  /\ Exists(r)
  /\ status[r] \notin {"completed", "abandoned"}
  /\ status' = [status EXCEPT ![r] = "abandoned"]
  /\ bound' = [bound EXCEPT ![r] = FALSE]
  /\ lease' = WithoutLeaseOf(r)
  /\ ended' = ended \cup {r}
  /\ UNCHANGED <<worktree, finalization, mutated, key, owner, heir, pend>>

(* reconcileTerminalLifecycle, when a control plane opens the project.       *)
Stale(r) == bound[r] /\ status[r] \in {"completed", "blocked"}

Reconcile ==
  /\ bound' = [r \in Run |-> bound[r] /\ ~Stale(r)]
  /\ heir' = [r \in Run |-> IF Stale(r) THEN None ELSE heir[r]]
  /\ lease' = [w \in Worktree |->
                 IF lease[w] # None /\ status[lease[w]] \in LeaseTerminal
                 THEN None ELSE lease[w]]
  /\ UNCHANGED <<status, worktree, finalization, mutated, key, owner, pend, ended>>

(* createSuccessorRunAtomic: q is completed and finalized, nobody made the   *)
(* successor with this key; r takes the worktree, q's binding is closed in   *)
(* its favour and r's binding is written, all in one transaction.            *)
CreateSuccessor(q, r, d, s) ==
  /\ status[q] = "completed"
  /\ finalization[q] = "completed"
  /\ \A x \in Run : key[x] # [pred |-> q, digest |-> d]
  /\ status[r] = "absent"
  /\ Claimable(worktree[q], r)
  /\ \/ s = None
     \/ ~\E x \in Run \ {q} : bound[x] /\ owner[x] = s /\ worktree[x] = worktree[q]
  /\ status' = [status EXCEPT ![r] = "active"]
  /\ worktree' = [worktree EXCEPT ![r] = worktree[q]]
  /\ key' = [key EXCEPT ![r] = [pred |-> q, digest |-> d]]
  /\ lease' = [lease EXCEPT ![worktree[q]] = r]
  /\ owner' = [owner EXCEPT ![r] = s]
  /\ bound' = [bound EXCEPT ![q] = FALSE, ![r] = s # None]
  /\ heir' = [heir EXCEPT ![q] = IF bound[q] THEN r ELSE @]
  /\ UNCHANGED <<finalization, mutated, pend, ended>>

(* Bindings, closed ones too, that name r as their successor. *)
ActivelyNamed(r) == \E q \in Run : bound[q] /\ heir[q] = r  \* mutant
NamedAsSuccessor(r) == \E q \in Run : heir[q] = r

(* retireSettledSingleStepRun: a settled run nobody owns any more leaves     *)
(* only the marker that keeps its id from being used again.                  *)
Retire(r) ==
  /\ status[r] = "completed"
  /\ finalization[r] = "completed"
  /\ ~bound[r]
  /\ \A w \in Worktree : lease[w] # r
  /\ ~NamedAsSuccessor(r)
  /\ DropRow(r, "retired")
  /\ UNCHANGED pend

-----------------------------------------------------------------------------
ProcessStep(p) ==
  \/ \E r \in Run, w \in Worktree : StartRun(p, r, w)
  \/ \E s \in Session : BindOwner(p, s)
  \/ RollbackStart(p)
  \/ \E r \in Run : BeginReport(p, r)
  \/ Leave(p)
  \/ ObserveMutation(p)
  \/ ReadForBlock(p)
  \/ CommitBlock(p)
  \/ ReadForResume(p)
  \/ CommitResume(p)
  \/ \E v \in Verdicts : Evaluate(p, v)
  \/ Decide(p)
  \/ Finish(p)

StoreStep ==
  \/ \E s \in Session, r \in Run : AdoptOwner(s, r)
  \/ \E s \in Session, r \in Run : ReactivateOwner(s, r)
  \/ \E r \in Run : ClaimLease(r)
  \/ \E r \in Run : Abandon(r)
  \/ Reconcile
  \/ \E q, r \in Run, d \in Digest, s \in Session \cup {None} :
       CreateSuccessor(q, r, d, s)
  \/ \E r \in Run : Retire(r)

Next == StoreStep \/ \E p \in Process : ProcessStep(p)

Spec == Init /\ [][Next]_vars

-----------------------------------------------------------------------------
(* Properties. *)

(* Whoever holds a worktree's mutation lease is a run of that worktree that  *)
(* may still write: no path that ends a run (completion, abandonment,        *)
(* rollback, retirement, a late decision of another process) leaves a lease  *)
(* behind that would lock the worktree.                                      *)
LeaseHolderMutable ==
  \A w \in Worktree : lease[w] # None =>
    /\ status[lease[w]] \in {"active", "blocked"}
    /\ worktree[lease[w]] = w

(* A run that was never completed or abandoned keeps its worktree for as     *)
(* long as it can be worked on, blocked periods included: createRun's claim  *)
(* is not lost to another run, to a rollback or to a reconciliation.         *)
MutableRunHoldsLease ==
  \A r \in Run :
    (status[r] \in {"active", "blocked"} /\ r \notin ended)
      => lease[worktree[r]] = r

(* A session owns at most one live run in a worktree, whatever mixture of    *)
(* bind, adopt, reactivate and successor handoff led there.                  *)
OneOwnedRunPerSession ==
  \A r, q \in Run :
    (bound[r] /\ bound[q] /\ owner[r] = owner[q] /\ worktree[r] = worktree[q])
      => r = q

(* A closed binding names as its successor a run that exists and that was    *)
(* created from it: retirement and rollback leave no dangling lineage, and a *)
(* reactivated or newly adopted binding does not inherit an old one.         *)
HeirIsSuccessor ==
  \A q \in Run : heir[q] # None =>
    /\ ~bound[q]
    /\ Exists(heir[q])
    /\ \E d \in Digest : key[heir[q]] = [pred |-> q, digest |-> d]

(* A run keeps its lease until the very step that ends it.  Nothing another  *)
(* process does to its own run takes the worktree away.                      *)
LeaseLostOnlyAtEnd ==
  [][\A w \in Worktree :
       (lease[w] # None /\ lease'[w] # lease[w])
         => status'[lease[w]] \in {"absent", "completed", "abandoned"}]_vars

(* Once a session owns a run no other session ever does, except after the    *)
(* run's row itself is gone: adoption is one-shot and reactivation is        *)
(* reserved to the same binding.                                             *)
OwnershipNeverTransfers ==
  [][\A r \in Run :
       (owner[r] # None /\ owner'[r] # owner[r])
         => status'[r] \in {"absent", "retired"}]_vars

(* The lease column of the store implements the abstract mutual exclusion.   *)
Mutex == INSTANCE LeaseMutex WITH holder <- lease
LeaseIsMutex == Mutex!Spec

=============================================================================
