---------------------------- MODULE OwnerDelivery ----------------------------
(***************************************************************************)
(* Owner Delivery: a dispatcher writes the integrated patch of its workers  *)
(* into the owner worktree of a run, under the workspace fence, and records *)
(* it in the run by compare-and-set (materializeOwnerDelivery).  The fence, *)
(* the run and the directory are looked at one after the other, and between *)
(* any two looks another dispatcher, an operator's command, an editor or a  *)
(* crash may come.                                                          *)
(*                                                                         *)
(* The content of a worktree is the set of changes made to it since the run *)
(* began, and stands for its sha256 identity: equal sets, equal identities. *)
(* HEAD does not move.                                                      *)
(***************************************************************************)
EXTENDS WorkspaceFence

CONSTANTS
  Delivery,     \* dispatchers about to deliver
  RunOf,        \* the run each works for
  SessionOf,    \* its control plane's holder string
  Admitted,     \* those whose Worker receipt admits an uncommitted baseline
  MaxRevision   \* bound: mutation revisions

ASSUME DeliveryAssumption ==
  /\ RunOf \in [Delivery -> Run]
  /\ SessionOf \in [Delivery -> Session]
  /\ Admitted \subseteq Delivery
  /\ MaxRevision \in Nat
  /\ "edit" \notin Delivery

VARIABLES
  tree,      \* content of the directory of each workspace
  known,     \* runs.current_workspace_identity
  revision,  \* runs.mutation_revision
  at,        \* where each dispatcher is in materializeOwnerDelivery
  expect,    \* its snapshot: revision and content
  token,     \* fencing token it holds, 0 for none
  seen,      \* the content it observed after the apply
  touched,   \* applyAttempted
  excused    \* history: runs an editor, a crash or a resumption interfered with

dlvVars == <<tree, known, revision, at, expect, token, seen, touched, excused>>
progress == <<at, expect, token, seen, touched>>
vars == <<fenceVars, dlvVars>>

Change == [by : Delivery \cup {"edit"}, whole : BOOLEAN]
Whole(d) == [by |-> d, whole |-> TRUE]
Torn(d) == [by |-> d, whole |-> FALSE]

Places == {"idle", "begun", "acquired", "fenced", "renewed", "applying",
           "applied", "observed", "recorded", "confirmed", "failing",
           "leaving", "done", "failed", "gone"}

Home(d) == place[RunOf[d]]
Lockable(d) == [ws |-> Home(d), run |-> RunOf[d], session |-> SessionOf[d],
                token |-> token[d]]
HoldsFence(d) == Passes(Lockable(d), Home(d))

Init ==
  /\ FenceInit
  /\ tree = [w \in Workspace |-> {}]
  /\ known = [r \in Run |-> {}]
  /\ revision = [r \in Run |-> 0]
  /\ at = [d \in Delivery |-> "idle"]
  /\ expect = [d \in Delivery |-> [revision |-> 0, content |-> {}]]
  /\ token = [d \in Delivery |-> 0]
  /\ seen = [d \in Delivery |-> {}]
  /\ touched = [d \in Delivery |-> FALSE]
  /\ excused = {}

Go(d, where) == at[d] # where /\ at' = [at EXCEPT ![d] = where]

-----------------------------------------------------------------------------
(* assertOwnerWorkspaceMutationCAS. *)
RunUnchanged(d) ==
  /\ revision[RunOf[d]] = expect[d].revision
  /\ known[RunOf[d]] = expect[d].content

(* phase 'pre': fence, run and directory are as in the snapshot, and the      *)
(* directory has nothing uncommitted that the dispatcher has no receipt for.  *)
Ready(d) ==
  /\ HoldsFence(d)
  /\ RunUnchanged(d)
  /\ tree[Home(d)] = expect[d].content
  /\ tree[Home(d)] = {} \/ d \in Admitted

-----------------------------------------------------------------------------
(* materializeOwnerDelivery, one action per look at, or write to, the shared  *)
(* state.                                                                     *)

(* The snapshot; refused when the directory is not what the run knows. *)
Begin(d) ==
  /\ at[d] = "idle"
  /\ phase[RunOf[d]] = "active"
  /\ tree[Home(d)] = known[RunOf[d]]
  /\ Go(d, "begun")
  /\ expect' = [expect EXCEPT ![d] =
       [revision |-> revision[RunOf[d]], content |-> known[RunOf[d]]]]
  /\ UNCHANGED <<fenceVars, tree, known, revision, token, seen, touched, excused>>

(* The fence; refused when the run has stopped or another holder has it. *)
TakeFence(d) ==
  /\ at[d] = "begun"
  /\ IF phase[RunOf[d]] = "active" /\ Available(RunOf[d], Home(d), SessionOf[d])
     THEN /\ Acquire(RunOf[d], Home(d), SessionOf[d])
          /\ token' = [token EXCEPT ![d] = FenceToken(Home(d))]
          /\ Go(d, "acquired")
     ELSE Go(d, "failed") /\ UNCHANGED <<fenceVars, token>>
  /\ UNCHANGED <<tree, known, revision, expect, seen, touched, excused>>

(* The CAS check that follows; if it fails the fence is given back. *)
CheckFence(d) ==
  /\ at[d] = "acquired"
  /\ Go(d, IF Ready(d) THEN "fenced" ELSE "leaving")
  /\ UNCHANGED <<fenceVars, tree, known, revision, expect, token, seen, touched, excused>>

(* After git apply --check: renewal of the lease and the CAS check again. *)
Renew(d) ==
  /\ at[d] = "fenced"
  /\ Go(d, IF Ready(d) THEN "renewed" ELSE "leaving")
  /\ UNCHANGED <<fenceVars, tree, known, revision, expect, token, seen, touched, excused>>

(* assertOwnerWorkspaceMutationReady, the deadline, and git apply starts. *)
TouchedOnSuccess(d) == FALSE  \* mutant: applyAttempted is set after the apply
TouchedByApply(d) == TRUE

StartApply(d) ==
  /\ at[d] = "renewed"
  /\ IF Ready(d)
     THEN /\ Go(d, "applying")
          /\ touched' = [touched EXCEPT ![d] = TouchedByApply(d)]
     ELSE Go(d, "leaving") /\ UNCHANGED touched
  /\ UNCHANGED <<fenceVars, tree, known, revision, expect, token, seen, excused>>

(* git apply succeeds, fails before it changed anything, or is killed by its  *)
(* deadline half-way.                                                         *)
Apply(d) ==
  /\ at[d] = "applying"
  /\ \/ /\ tree' = [tree EXCEPT ![Home(d)] = @ \cup {Whole(d)}]
        /\ touched' = [touched EXCEPT ![d] = TRUE]
        /\ Go(d, "applied")
     \/ /\ tree' \in {tree, [tree EXCEPT ![Home(d)] = @ \cup {Torn(d)}]}
        /\ Go(d, IF touched[d] THEN "failing" ELSE "leaving")
        /\ UNCHANGED touched
  /\ UNCHANGED <<fenceVars, known, revision, expect, token, seen, excused>>

(* recordOwnerWorkspaceMutation first observes the directory and checks fence *)
(* and run (phase 'post'); the content must be the integrated one ...         *)
AnyContent(d) == TRUE  \* mutant: no comparison with the integration identity
AsIntegrated(d) == tree[Home(d)] = expect[d].content \cup {Whole(d)}

Observe(d) ==
  /\ at[d] = "applied"
  /\ seen' = [seen EXCEPT ![d] = tree[Home(d)]]
  /\ Go(d, IF HoldsFence(d) /\ RunUnchanged(d) /\ AsIntegrated(d)
           THEN "observed" ELSE "failing")
  /\ UNCHANGED <<fenceVars, tree, known, revision, expect, token, touched, excused>>

(* ... then observeWorkspaceIdentityCAS, which looks at the run only ...      *)
Unguarded(d) == phase[RunOf[d]] = "active"  \* mutant: a plain UPDATE
CasHolds(d) ==
  /\ phase[RunOf[d]] = "active"
  /\ RunUnchanged(d)
  /\ known[RunOf[d]] # seen[d]

Record(d) ==
  /\ at[d] = "observed"
  /\ LET r == RunOf[d] IN
       IF CasHolds(d)
       THEN /\ revision[r] < MaxRevision
            /\ revision' = [revision EXCEPT ![r] = @ + 1]
            /\ known' = [known EXCEPT ![r] = seen[d]]
            /\ Go(d, "recorded")
       ELSE Go(d, "failing") /\ UNCHANGED <<revision, known>>
  /\ UNCHANGED <<fenceVars, tree, expect, token, seen, touched, excused>>

(* ... and fence and run once more (phase 'post-commit'); the directory is not *)
(* looked at again.  When that fails only a canonical Worker receipt can still *)
(* tell that the mutation is in.                                              *)
Confirm(d) ==
  /\ at[d] = "recorded"
  /\ LET r == RunOf[d]
         committed == revision[r] = expect[d].revision + 1 /\ known[r] = seen[d]
     IN Go(d, IF \/ HoldsFence(d) /\ committed
                 \/ d \in Admitted /\ committed /\ phase[r] = "active"
              THEN "confirmed" ELSE "failing")
  /\ UNCHANGED <<fenceVars, tree, known, revision, expect, token, seen, touched, excused>>

(* An error after the apply was attempted: blockDeliveryMaterialization. *)
BlockForRecovery(d) ==
  /\ at[d] = "failing"
  /\ IF phase[RunOf[d]] = "active" THEN Settle(RunOf[d], "blocked")
     ELSE UNCHANGED fenceVars
  /\ Go(d, "leaving")
  /\ UNCHANGED <<tree, known, revision, expect, token, seen, touched, excused>>

(* finally: the fence is released.  When it is no longer the dispatcher's     *)
(* that is an error, and after a success it blocks the run.                   *)
GiveBack(d) ==
  /\ at[d] \in {"leaving", "confirmed"}
  /\ IF Holds(Lockable(d), Home(d))
     THEN Release(Lockable(d))
     ELSE IF at[d] = "confirmed" /\ phase[RunOf[d]] = "active"
     THEN Settle(RunOf[d], "blocked")
     ELSE UNCHANGED fenceVars
  /\ Go(d, IF at[d] = "confirmed" THEN "done" ELSE "failed")
  /\ UNCHANGED <<tree, known, revision, expect, token, seen, touched, excused>>

(* The dispatcher dies; what it has written stays, its fence included. *)
Crash(d) ==
  /\ at[d] \notin {"idle", "done", "failed", "gone"}
  /\ \/ UNCHANGED tree
     \/ at[d] = "applying" /\ tree' = [tree EXCEPT ![Home(d)] = @ \cup {Torn(d)}]
  /\ excused' = excused \cup {RunOf[d]}
  /\ Go(d, "gone")
  /\ UNCHANGED <<fenceVars, known, revision, expect, token, seen, touched>>

-----------------------------------------------------------------------------
(* Everybody else.                                                            *)

(* The run begins with the content of its workspace. *)
StartRun(r, w) ==
  /\ Start(r, w)
  /\ known' = [known EXCEPT ![r] = tree[w]]
  /\ UNCHANGED <<tree, revision, progress, excused>>

(* An agent or a person edits the directory, or resets it to the commit. *)
Edit(w) ==
  /\ \E content \in {tree[w] \cup {[by |-> "edit", whole |-> TRUE]}, {}} :
       content # tree[w] /\ tree' = [tree EXCEPT ![w] = content]
  /\ excused' = excused \cup {r \in Run : place[r] = w}
  /\ UNCHANGED <<fenceVars, known, revision, progress>>

(* observeWorkspaceIdentity in an ordinary report: no fence is asked for. *)
ReportObserves(r) ==
  /\ phase[r] \in {"active", "blocked"}
  /\ known[r] # tree[place[r]]
  /\ revision[r] < MaxRevision
  /\ known' = [known EXCEPT ![r] = tree[place[r]]]
  /\ revision' = [revision EXCEPT ![r] = @ + 1]
  /\ UNCHANGED <<fenceVars, tree, progress, excused>>

(* While a dispatcher runs git apply, the lease of its run and session does   *)
(* not run out: the subprocess is killed DELIVERY_APPLY_SAFETY_MS before, and *)
(* a renewal, or a new token for the same holder, only puts the end off.      *)
NoDeadline(w) == TRUE  \* mutant: git apply without a timeout
OutsideApply(w) ==
  ~\E d \in Delivery :
     /\ at[d] = "applying" /\ Home(d) = w
     /\ lock[w] # None /\ lock[w].run = RunOf[d] /\ lock[w].session = SessionOf[d]

LeaseRunsOut(w) ==
  /\ OutsideApply(w)
  /\ Expire(w)
  /\ UNCHANGED dlvVars

Resumption(r) ==
  /\ Resume(r)
  /\ excused' = excused \cup {r}
  /\ UNCHANGED <<tree, known, revision, progress>>

OtherStep ==
  /\ \/ \E r \in Run, status \in {"blocked", "ended"} : Settle(r, status)
     \/ \E r \in Run : Abandon(r)
     \/ OpenProject
  /\ UNCHANGED dlvVars

DeliveryStep(d) ==
  \/ Begin(d) \/ TakeFence(d) \/ CheckFence(d) \/ Renew(d) \/ StartApply(d)
  \/ Apply(d) \/ Observe(d) \/ Record(d) \/ Confirm(d)
  \/ BlockForRecovery(d) \/ GiveBack(d) \/ Crash(d)

Next ==
  \/ \E d \in Delivery : DeliveryStep(d)
  \/ \E r \in Run, w \in Workspace : StartRun(r, w)
  \/ \E w \in Workspace : Edit(w) \/ LeaseRunsOut(w)
  \/ \E r \in Run : ReportObserves(r) \/ Resumption(r)
  \/ OtherStep

Spec == Init /\ [][Next]_vars

-----------------------------------------------------------------------------
(* Properties. *)

(* Of two deliveries prepared from one snapshot of a run at most one is ever  *)
(* recorded, whatever happens to the fence between their steps.               *)
Succeeded(d) == at[d] \in {"recorded", "confirmed", "done"}
OneDeliveryPerSnapshot ==
  \A d, e \in Delivery :
    (Succeeded(d) /\ Succeeded(e) /\ RunOf[d] = RunOf[e]
       /\ expect[d].revision = expect[e].revision) => d = e

(* A recorded delivery put exactly its own patch on exactly the content it    *)
(* was integrated against: no cut-off apply, foreign edit or overlapping      *)
(* delivery is passed off as part of it.                                      *)
DeliveredExactly ==
  \A d \in Delivery :
    Succeeded(d) => seen[d] = expect[d].content \cup {Whole(d)}

(* Bytes that an apply changed and that the run does not know of never stay   *)
(* unnoticed: while the run is active and the only one of its workspace, and  *)
(* nobody edited, crashed or resumed it, some dispatcher is still on its way  *)
(* to record them or to block the run.                                        *)
Alone(r) == \A q \in Run : place[q] = place[r] => q = r
UnrecordedIsPending ==
  \A r \in Run \ excused :
    (phase[r] = "active" /\ Alone(r) /\ tree[place[r]] # known[r]) =>
      \E d \in Delivery :
        RunOf[d] = r /\ at[d] \in {"applying", "applied", "observed", "failing"}

(* Two sessions never run git apply in one worktree at the same time, as long *)
(* as the run they work for was never blocked and resumed in between: no      *)
(* expiry, renewal, takeover or reconciliation lets a second one in.          *)
ApplyExclusiveUntilRecovery ==
  \A d, e \in Delivery :
    (/\ at[d] = "applying" /\ at[e] = "applying" /\ Home(d) = Home(e)
     /\ \A f \in {d, e} : phase[RunOf[f]] = "active" /\ RunOf[f] \notin excused
     /\ SessionOf[d] # SessionOf[e]) => d = e

=============================================================================
