----------------------------- MODULE Invocation -----------------------------
(***************************************************************************)
(* The invocation resolver on top of RunLifecycle: what `kernel next` with *)
(* a task contract does to find, archive or create the run it works on.    *)
(* The resolver reads the store several times, decides, and only then      *)
(* writes, each write a transaction of RunLifecycle; every other process   *)
(* goes on between two of its steps.                                       *)
(*                                                                         *)
(* Contracts are not kept: whether a run pursues another goal than the     *)
(* invocation, and whether a completed run was given the same contract,    *)
(* may come out either way.  Neither is updated_at, so the latest run of a *)
(* worktree is any run of it.  The listing, which fetches the ids and then *)
(* the row of each, is one read.                                           *)
(***************************************************************************)
EXTENDS RunLifecycle

CONSTANT Invoker  \* the processes that run an invocation, and nothing else

ASSUME InvokerAssumption == Invoker \subseteq Process

VARIABLE job  \* what each process's invocation asked for and has read so far

invVars == <<vars, job>>

Stages == {"idle", "listed", "archiving", "archived", "checked", "discarding",
           "create", "resume", "successor"}

(* at is the next thing to do, for an answered invocation the mode of the    *)
(* answer.  live and stopped are the active and the blocked runs as listed,  *)
(* mutable the ones that may still own the worktree, holder its lease.       *)
Idle == [at |-> "idle", tree |-> None, asked |-> None, new |-> FALSE,
         live |-> {}, stopped |-> {}, mutable |-> {}, holder |-> None,
         cursor |-> None]

Job == [at : Stages, tree : Worktree \cup {None}, asked : Run \cup {None},
        new : BOOLEAN, live : SUBSET Run, stopped : SUBSET Run,
        mutable : SUBSET Run, holder : Run \cup {None}, cursor : Run \cup {None}]

InvocationTypeOK == job \in [Invoker -> Job]

InvocationInit == Init /\ job = [p \in Invoker |-> Idle]

At(p, stage) == job[p].at = stage
Goto(p, j) == job' = [job EXCEPT ![p] = j]
Read(p, j) == Goto(p, j) /\ UNCHANGED vars
Finished(p) == Goto(p, Idle)

-----------------------------------------------------------------------------
(* Finding the runs that may own the worktree.                               *)

(* listRuns of the worktree.  What the call asks for comes in where it is    *)
(* first looked at, in ReadHolder.                                           *)
Invoke(p, w) ==
  /\ At(p, "idle")
  /\ pend[p] = None
  /\ Read(p, [Idle EXCEPT
       !.at = "listed", !.tree = w,
       !.live = {r \in Run : worktree[r] = w /\ status[r] = "active"},
       !.stopped = {r \in Run : worktree[r] = w /\ status[r] = "blocked"}])

Mutable(p) == job[p].live \cup (job[p].stopped \cap {lease[job[p].tree]})

(* Only blocked runs are in the way, and the task is new, or may turn out to *)
(* be another than theirs.                                                   *)
Archives(p, asked, new) ==
  /\ Mutable(p) # {}
  /\ job[p].live = {}
  /\ new \/ asked = None

(* worktree_run_conflict *)
Conflict(p, asked, new) ==
  \/ \E r, q \in Mutable(p) : r # q
  \/ new /\ Mutable(p) # {}
  \/ asked # None /\ Mutable(p) # {} /\ asked \notin Mutable(p)

(* asked is the run id of the call, if it has one, new its intent. *)
ReadHolder(p, asked, new) ==
  LET found == [job[p] EXCEPT !.asked = asked, !.new = new, !.mutable = Mutable(p),
                              !.live = {}, !.stopped = {}]
  IN
  /\ At(p, "listed")
  /\ \/ /\ Archives(p, asked, new)
        /\ Read(p, [found EXCEPT !.at = "archiving"])
     \/ /\ ~Conflict(p, asked, new)
        /\ Read(p, [found EXCEPT !.at = "checked", !.holder = lease[job[p].tree]])

(* store.abandonRun: what has ended meanwhile is left as it is, and a run    *)
(* that is gone is an error.                                                 *)
AbandonUnchecked(r) ==  \* mutant: the status is not read again
  /\ Exists(r)
  /\ status' = [status EXCEPT ![r] = "abandoned"]
  /\ bound' = [bound EXCEPT ![r] = FALSE]
  /\ lease' = WithoutLeaseOf(r)
  /\ ended' = ended \cup {r}
  /\ UNCHANGED <<worktree, finalization, mutated, key, owner, heir, pend>>

AbandonRun(r) ==
  \/ Abandon(r)
  \/ status[r] \in {"completed", "abandoned"} /\ UNCHANGED vars

(* The blocked run found in the way is archived.  It holds the lease, so it  *)
(* is the only one.                                                          *)
Archive(p, r) ==
  /\ At(p, "archiving")
  /\ r \in job[p].mutable
  /\ AbandonRun(r)
  /\ Goto(p, [job[p] EXCEPT !.at = "archived", !.mutable = {}])

RereadHolder(p) ==
  /\ At(p, "archived")
  /\ Read(p, [job[p] EXCEPT !.at = "checked", !.holder = lease[job[p].tree]])

-----------------------------------------------------------------------------
(* Choosing the cursor: the requested run, else the mutable one, else the    *)
(* latest of the worktree.                                                   *)

(* Once there is an answer, what led to it is of no more use. *)
Answered(p, mode, r) ==
  [job[p] EXCEPT !.at = mode, !.cursor = r, !.mutable = {}, !.holder = None]

Requested(p) == job[p].asked # None /\ Exists(job[p].asked)

(* The modes an invocation can be answered with at a cursor.  A completed    *)
(* run whose finalization is not is an error, one with this very contract    *)
(* needs nothing done ("idle" both); a new task may also acknowledge that    *)
(* the workspace has changed and start afresh.                               *)
Modes(p, r) ==
  CASE status[r] \in {"active", "blocked"} -> {"resume"}
    [] status[r] = "abandoned" -> {"create"}
    [] status[r] = "completed" /\ finalization[r] # "completed" -> {"idle"}
    [] OTHER -> {"successor"}
                  \cup (IF ~job[p].new THEN {"idle"} ELSE {})
                  \cup (IF job[p].new /\ job[p].asked = None THEN {"create"} ELSE {})

Answer(p, r) ==
  \E mode \in Modes(p, r) :
    Read(p, IF mode = "idle" THEN Idle ELSE Answered(p, mode, r))

ChooseRequested(p) ==
  /\ At(p, "checked")
  /\ Requested(p)
  /\ worktree[job[p].asked] = job[p].tree
  /\ Answer(p, job[p].asked)

ChooseMutable(p, r) ==
  /\ At(p, "checked")
  /\ ~Requested(p)
  /\ r \in job[p].mutable
  /\ Read(p, Answered(p, "resume", r))

(* A new task passes over what is not completed or abandoned. *)
PassesOverActive(p, r) == job[p].new /\ status[r] = "active"  \* mutant
PassesOver(p, r) == job[p].new /\ status[r] \notin {"completed", "abandoned"}

(* A blocked run that turns out to have another goal is no cursor either.    *)
Dismisses(p, r) == ~job[p].new /\ status[r] = "blocked" /\ job[p].asked = None

ChooseLatest(p, r) ==
  /\ At(p, "checked")
  /\ ~Requested(p)
  /\ job[p].mutable = {}
  /\ Exists(r)
  /\ worktree[r] = job[p].tree
  /\ \/ /\ PassesOver(p, r)
        /\ Read(p, Answered(p, "create", None))
     \/ /\ Dismisses(p, r)
        /\ Read(p, IF job[p].holder = r THEN Answered(p, "discarding", r)
                   ELSE Answered(p, "create", None))
     \/ /\ ~PassesOver(p, r)
        /\ Answer(p, r)

ChooseNone(p) ==
  /\ At(p, "checked")
  /\ ~Requested(p)
  /\ job[p].mutable = {}
  /\ \A r \in Run : ~(Exists(r) /\ worktree[r] = job[p].tree)
  /\ Read(p, Answered(p, "create", None))

(* ... and if it holds the lease as last read, it is archived as well. *)
Discard(p, r) ==
  /\ At(p, "discarding")
  /\ job[p].cursor = r
  /\ AbandonRun(r)
  /\ Goto(p, Answered(p, "create", None))

-----------------------------------------------------------------------------
(* Acting on the answer, in ensureRun and startSuccessor.                    *)

(* The run ensureRun is called with; a new id is not in use. *)
Target(p, r) ==
  \/ At(p, "resume") /\ r = job[p].cursor
  \/ At(p, "create") /\ job[p].asked # None /\ r = job[p].asked

Start(p, r) ==
  /\ \/ Target(p, r)
     \/ At(p, "create") /\ job[p].asked = None
  /\ StartRun(p, r, job[p].tree)
  /\ Finished(p)

(* The run is there: its session takes it up again, or adopts it. *)
TakeUp(p, r, s) ==
  /\ Target(p, r)
  /\ ReactivateOwner(s, r) \/ AdoptOwner(s, r)
  /\ Finished(p)

Succeed(p, r, d, s) ==
  /\ At(p, "successor")
  /\ \E q \in Run : q = job[p].cursor /\ CreateSuccessor(q, r, d, s)
  /\ Finished(p)

(* Nothing more to write, an error anywhere on the way, or a crash. *)
Return(p) ==
  /\ ~At(p, "idle")
  /\ Finished(p)
  /\ UNCHANGED vars

-----------------------------------------------------------------------------
Resolve(p) ==
  \/ \E w \in Worktree : Invoke(p, w)
  \/ \E asked \in Run \cup {None}, new \in BOOLEAN : ReadHolder(p, asked, new)
  \/ \E r \in Run : Archive(p, r)
  \/ RereadHolder(p)
  \/ ChooseRequested(p)
  \/ \E r \in Run : ChooseMutable(p, r)
  \/ \E r \in Run : ChooseLatest(p, r)
  \/ ChooseNone(p)
  \/ \E r \in Run : Discard(p, r)
  \/ \E r \in Run : Start(p, r)
  \/ \E r \in Run, s \in Session : TakeUp(p, r, s)
  \/ \E r \in Run, d \in Digest, s \in Session \cup {None} : Succeed(p, r, d, s)
  \/ Return(p)

(* Everything RunLifecycle lets other commands do, and how an invocation     *)
(* goes on when it has started a run.                                        *)
Others ==
  /\ \/ StoreStep
     \/ \E p \in Process : (p \in Invoker => pend[p] # None) /\ ProcessStep(p)
  /\ UNCHANGED job

InvocationNext == Others \/ \E p \in Invoker : Resolve(p)

InvocationSpec == InvocationInit /\ [][InvocationNext]_invVars

-----------------------------------------------------------------------------
(* Properties. *)

(* Whatever has changed since it read the store, each step of the resolver   *)
(* is one that the run life cycle allows: it never abandons a run that has   *)
(* completed meanwhile, nor takes a worktree from a run that is not done.    *)
KeepsLifecycle == Spec

(* An invocation for a new task that names no run never takes up a run that  *)
(* already exists: it reactivates none, adopts none, binds none.             *)
NewTaskTakesUpNothing ==
  [][\A p \in Invoker :
       (job[p].new /\ job[p].asked = None /\ job'[p] # job[p]) =>
         \A r \in Run : Exists(r) =>
           /\ owner'[r] = owner[r]
           /\ bound'[r] => bound[r]
           /\ status'[r] = "active" => status[r] = "active"]_invVars

=============================================================================
