---------------------------- MODULE WorkspaceFence ----------------------------
(***************************************************************************)
(* The workspace mutation lock (workspace_mutation_locks_v2): a leased lock *)
(* per workspace with a fencing token minted from the workspace's epoch     *)
(* (project_workspaces.mutation_epoch).  A run takes the lock of its own    *)
(* workspace or of a worker workspace one of its steps executes in.  Every  *)
(* transaction of the store is one action.  Time is abstracted to whether   *)
(* expires_at has passed: a lease may run out in any step.                  *)
(*                                                                         *)
(* issued is the history of credentials handed out; the code keeps them in  *)
(* the memory of the process that acquired, for as long as it lives.        *)
(***************************************************************************)
EXTENDS Integers, FiniteSets

CONSTANTS
  Run, Workspace,
  Session,   \* session tokens: the holder string of a control plane
  MaxEpoch,  \* bound: acquisitions of one workspace
  None

ASSUME EpochAssumption == MaxEpoch \in Nat
ASSUME AbsentAssumption ==
  /\ None \notin Workspace
  /\ None \notin [run : Run, session : Session, token : 1..MaxEpoch, live : BOOLEAN]

VARIABLES
  phase,     \* runs.status, "completed" and "abandoned" both being "ended"
  place,     \* runs.workspace_id
  assigned,  \* run_steps.execution_workspace_id: worker workspaces of a run
  open,      \* rows of project_workspaces
  epoch,     \* their mutation_epoch
  lock,      \* workspace_mutation_locks_v2
  issued     \* history: credentials handed out

fenceVars == <<phase, place, assigned, open, epoch, lock, issued>>

Phases == {"absent", "active", "blocked", "ended"}
Token == 1..MaxEpoch
LockRow == [run : Run, session : Session, token : Token, live : BOOLEAN]
Credential == [ws : Workspace, run : Run, session : Session, token : Token]

FenceTypeOK ==
  /\ phase \in [Run -> Phases]
  /\ place \in [Run -> Workspace \cup {None}]
  /\ assigned \subseteq Run \X Workspace
  /\ open \subseteq Workspace
  /\ epoch \in [Workspace -> 0..MaxEpoch]
  /\ lock \in [Workspace -> LockRow \cup {None}]
  /\ issued \subseteq Credential

Live(w) == lock[w] # None /\ lock[w].live

(* The row c was issued with is still the workspace's row. *)
Holds(c, w) ==
  /\ lock[w] # None
  /\ lock[w].run = c.run
  /\ lock[w].session = c.session
  /\ lock[w].token = c.token

(* assertWorkspaceMutationFence: the run is active and the row, unexpired, is *)
(* the credential's.                                                         *)
Passes(c, w) == phase[c.run] = "active" /\ Live(w) /\ Holds(c, w)

FenceInit ==
  /\ phase = [r \in Run |-> "absent"]
  /\ place = [r \in Run |-> None]
  /\ assigned = {}
  /\ open = Workspace
  /\ epoch = [w \in Workspace |-> 0]
  /\ lock = [w \in Workspace |-> None]
  /\ issued = {}

-----------------------------------------------------------------------------
(* The token of a new acquisition. *)
TokenOfRow(w) == (IF lock[w] = None THEN 0 ELSE lock[w].token) + 1  \* mutant
FenceToken(w) ==
  LET row == IF lock[w] = None THEN 0 ELSE lock[w].token
  IN (IF epoch[w] > row THEN epoch[w] ELSE row) + 1

(* Refused while another run or session holds an unexpired lock; the same run *)
(* and session get a new token at once.                                       *)
Available(r, w, s) == Live(w) => lock[w].run = r /\ lock[w].session = s

(* acquireWorkspaceMutationLockV2; the status of the run is not looked at. *)
Acquire(r, w, s) ==
  /\ w \in open
  /\ place[r] = w \/ <<r, w>> \in assigned
  /\ Available(r, w, s)
  /\ FenceToken(w) <= MaxEpoch
  /\ epoch' = [epoch EXCEPT ![w] = FenceToken(w)]
  /\ lock' = [lock EXCEPT ![w] =
       [run |-> r, session |-> s, token |-> FenceToken(w), live |-> TRUE]]
  /\ issued' = issued \cup
       {[ws |-> w, run |-> r, session |-> s, token |-> FenceToken(w)]}
  /\ UNCHANGED <<phase, place, assigned, open>>

(* releaseWorkspaceMutationLockV2 by whoever has the credential; any other    *)
(* credential makes it throw and change nothing.                              *)
Release(c) ==
  /\ Holds(c, c.ws)
  /\ lock' = [lock EXCEPT ![c.ws] = None]
  /\ UNCHANGED <<phase, place, assigned, open, epoch, issued>>

(* The clock passes expires_at. *)
Expire(w) ==
  /\ Live(w)
  /\ lock' = [lock EXCEPT ![w].live = FALSE]
  /\ UNCHANGED <<phase, place, assigned, open, epoch, issued>>

-----------------------------------------------------------------------------
(* What the run's life does to the locks.                                     *)

(* createRun, or a successor, in workspace w. *)
Start(r, w) ==
  /\ phase[r] = "absent"
  /\ w \in open
  /\ phase' = [phase EXCEPT ![r] = "active"]
  /\ place' = [place EXCEPT ![r] = w]
  /\ UNCHANGED <<assigned, open, epoch, lock, issued>>

(* A claimed step executes in a worktree of its own. *)
Assign(r, w) ==
  /\ phase[r] = "active"
  /\ w \in open
  /\ \A q \in Run : place[q] # w
  /\ assigned' = assigned \cup {<<r, w>>}
  /\ UNCHANGED <<phase, place, open, epoch, lock, issued>>

(* The locks reconcileTerminalLifecycle lets go, of every run of the project: *)
(* expired ones, those of a run that is blocked or ended, and those of a      *)
(* workspace that is not the run's own.                                       *)
Dropped(w, status) ==
  /\ lock[w] # None
  /\ \/ ~lock[w].live
     \/ place[lock[w].run] # w
     \/ status[lock[w].run] \in {"blocked", "ended"}

KeptLocks(status) ==
  [w \in Workspace |-> IF Dropped(w, status) THEN None ELSE lock[w]]

(* markRunBlocked and a completion decision end with a reconciliation. *)
Settle(r, status) ==
  /\ phase[r] \notin {"absent", "ended"}
  /\ phase' = [phase EXCEPT ![r] = status]
  /\ lock' = KeptLocks(phase')
  /\ UNCHANGED <<place, assigned, open, epoch, issued>>

Resume(r) ==
  /\ phase[r] = "blocked"
  /\ phase' = [phase EXCEPT ![r] = "active"]
  /\ UNCHANGED <<place, assigned, open, epoch, lock, issued>>

(* abandonRun frees only the lock of the run's own workspace. *)
Abandon(r) ==
  /\ phase[r] \in {"active", "blocked"}
  /\ phase' = [phase EXCEPT ![r] = "ended"]
  /\ lock' = [w \in Workspace |->
       IF place[r] = w /\ lock[w] # None /\ lock[w].run = r THEN None ELSE lock[w]]
  /\ UNCHANGED <<place, assigned, open, epoch, issued>>

(* A control plane opens the project. *)
OpenProject ==
  /\ lock' = KeptLocks(phase)
  /\ UNCHANGED <<phase, place, assigned, open, epoch, issued>>

(* createSuccessorRunAtomic, with r the successor of q: an unexpired lock must *)
(* be q's, and is released; an expired one of anybody is removed.             *)
Succeed(q, r) ==
  /\ phase[q] = "ended"
  /\ phase[r] = "absent"
  /\ place[q] \in open
  /\ Live(place[q]) => lock[place[q]].run = q
  /\ phase' = [phase EXCEPT ![r] = "active"]
  /\ place' = [place EXCEPT ![r] = place[q]]
  /\ lock' = [lock EXCEPT ![place[q]] = None]
  /\ UNCHANGED <<assigned, open, epoch, issued>>

(* mergeProjectWorkspaceReferences: v and w turn out to be the same directory. *)
(* Everything of v becomes w's; a step's worktree is never one of the two.    *)
ForgetEpoch(v, w) == epoch  \* mutant: the merged history is forgotten
MergedEpoch(v, w) ==
  LET tokens == {epoch[v], epoch[w]}
                  \cup {lock[x].token : x \in {y \in {v, w} : lock[y] # None}}
  IN [epoch EXCEPT ![w] = CHOOSE t \in tokens : \A u \in tokens : u <= t]

Merge(v, w) ==
  /\ v # w
  /\ {v, w} \subseteq open
  /\ \A r \in Run : <<r, v>> \notin assigned /\ <<r, w>> \notin assigned
  /\ open' = open \ {v}
  /\ epoch' = MergedEpoch(v, w)
  /\ lock' = IF lock[v] = None THEN lock
             ELSE [lock EXCEPT ![v] = None, ![w] = None]
  /\ place' = [r \in Run |-> IF place[r] = v THEN w ELSE place[r]]
  /\ UNCHANGED <<phase, assigned, issued>>

-----------------------------------------------------------------------------
FenceStep ==
  \/ \E r \in Run, w \in Workspace, s \in Session : Acquire(r, w, s)
  \/ \E c \in issued : Release(c)
  \/ \E w \in Workspace : Expire(w)
  \/ \E r \in Run, w \in Workspace : Start(r, w)
  \/ \E r \in Run, w \in Workspace : Assign(r, w)
  \/ \E r \in Run, status \in {"blocked", "ended"} : Settle(r, status)
  \/ \E r \in Run : Resume(r)
  \/ \E r \in Run : Abandon(r)
  \/ OpenProject
  \/ \E q, r \in Run : Succeed(q, r)
  \/ \E v, w \in Workspace : Merge(v, w)

FenceSpec == FenceInit /\ [][FenceStep]_fenceVars

-----------------------------------------------------------------------------
(* Properties. *)

(* The workspace a credential is checked against: its own, or the one that   *)
(* its own was merged into.                                                   *)
Where(c) == IF c.ws \in open THEN c.ws ELSE place[c.run]

(* A token is never minted twice: whenever a lock row gets a new holder or    *)
(* token, no credential handed out before, by that workspace or by one that   *)
(* was merged into it, carries the same token.  So a process that slept       *)
(* through releases, takeovers, reconciliations and merges cannot pass the    *)
(* fence with what it remembers, even under the same run and session.         *)
TokenNeverReissued ==
  [][\A w \in Workspace :
       (lock'[w] # None /\ (lock[w] = None \/ lock'[w].token # lock[w].token))
         => \A c \in issued : Where(c) = w => c.token < lock'[w].token]_fenceVars

(* Once a run and session have a later credential for a workspace, the        *)
(* earlier one is refused for ever: of two dispatchers that share the holder  *)
(* string, the superseded one cannot write.                                   *)
OnlyNewestPasses ==
  \A c, d \in issued :
    (c.run = d.run /\ c.session = d.session /\ Where(c) = Where(d) /\ c.token < d.token)
      => ~Passes(c, Where(c))

=============================================================================
