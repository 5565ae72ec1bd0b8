------------------------ MODULE OwnerDelivery_proofs ------------------------
(***************************************************************************)
(* Proofs about WorkspaceFence and about OwnerDelivery, which extends it,   *)
(* for any sets of runs, workspaces, sessions and dispatchers and any       *)
(* bounds.                                                                 *)
(***************************************************************************)
EXTENDS OwnerDelivery, TLAPS

(***************************************************************************)
(* The fence.                                                              *)
(***************************************************************************)

(* The run works in the workspace: it is its own, or that of a step. *)
Linked(r, w) == place[r] = w \/ <<r, w>> \in assigned

(* A run has a workspace from the moment it exists, and a workspace that was  *)
(* merged away has no runs left.                                             *)
PlaceInv ==
  \A r \in Run :
    /\ phase[r] = "absent" <=> place[r] = None
    /\ place[r] # None => place[r] \in open
    /\ \A w \in Workspace : <<r, w>> \in assigned => place[r] # None

(* A lock lies in an open workspace, of a run that works there, and its token *)
(* never exceeds the workspace's epoch.                                       *)
LockInv ==
  \A w \in Workspace : lock[w] # None =>
    w \in open /\ Linked(lock[w].run, w) /\ lock[w].token <= epoch[w]

(* So do the credentials, those of workspaces merged away included. *)
IssuedInv ==
  \A c \in issued :
    /\ place[c.run] # None
    /\ c.ws \in open => Linked(c.run, c.ws)
    /\ c.token <= epoch[Where(c)]

(* OnlyNewestPasses, whatever the run's status and the lease. *)
NewestInv ==
  \A c, d \in issued :
    (c.run = d.run /\ c.session = d.session /\ Where(c) = Where(d) /\ c.token < d.token)
      => ~Holds(c, Where(c))

FenceInv == FenceTypeOK /\ PlaceInv /\ LockInv /\ IssuedInv /\ NewestInv

-----------------------------------------------------------------------------
(* Lemmas. *)

(* The workspace a credential is checked against is an open one. *)
LEMMA WhereOpen ==
  ASSUME FenceInv, NEW c \in issued
  PROVE  /\ c \in Credential /\ c.run \in Run /\ c.ws \in Workspace
         /\ c.token \in Token /\ c.session \in Session
         /\ Where(c) \in open /\ Where(c) \in Workspace
         /\ Linked(c.run, Where(c))
  BY DEF FenceInv, FenceTypeOK, PlaceInv, IssuedInv, Where, Linked, Credential

(* A new token is above everything that was minted for the workspace. *)
LEMMA TokenAbove ==
  ASSUME FenceTypeOK, NEW w \in Workspace
  PROVE  /\ FenceToken(w) \in Nat \ {0}
         /\ FenceToken(w) > epoch[w]
         /\ lock[w] # None => FenceToken(w) > lock[w].token
  BY EpochAssumption DEF FenceTypeOK, FenceToken, LockRow, Token

(* After a merge the surviving epoch is the larger of the two. *)
LEMMA MergedAbove ==
  ASSUME FenceTypeOK, LockInv, NEW v \in Workspace, NEW w \in Workspace
  PROVE  \E t \in 0..MaxEpoch :
           /\ MergedEpoch(v, w) = [epoch EXCEPT ![w] = t]
           /\ epoch[v] <= t /\ epoch[w] <= t
<1> DEFINE tokens == {epoch[v], epoch[w]}
                       \cup {lock[x].token : x \in {y \in {v, w} : lock[y] # None}}
           largest == CHOOSE t \in tokens : \A u \in tokens : u <= t
           bound == IF epoch[v] > epoch[w] THEN epoch[v] ELSE epoch[w]
<1>1. epoch[v] \in 0..MaxEpoch /\ epoch[w] \in 0..MaxEpoch
  BY DEF FenceTypeOK
<1>2. bound \in tokens
  OBVIOUS
<1>3. \A u \in tokens : u <= bound
  BY <1>1, EpochAssumption DEF LockInv, FenceTypeOK, LockRow, Token
<1>4. tokens \subseteq 0..MaxEpoch
  BY <1>1, EpochAssumption DEF FenceTypeOK, LockRow, Token
<1> HIDE DEF tokens, bound
<1>5. largest \in tokens /\ \A u \in tokens : u <= largest
  BY <1>2, <1>3
<1>6. epoch[v] \in tokens /\ epoch[w] \in tokens
  BY DEF tokens
<1>7. MergedEpoch(v, w) = [epoch EXCEPT ![w] = largest]
  BY DEF MergedEpoch, tokens
<1> HIDE DEF largest
<1> QED
  BY <1>4, <1>5, <1>6, <1>7

-----------------------------------------------------------------------------
(* Initially. *)

LEMMA FenceInvInit == FenceInit => FenceInv
  BY EpochAssumption, AbsentAssumption
  DEF FenceInit, FenceInv, FenceTypeOK, PlaceInv, LockInv, IssuedInv, NewestInv, Phases

-----------------------------------------------------------------------------
(* The steps that only let go of locks: every row is dropped or keeps its     *)
(* run, session and token, and a run that exists stays where it is.           *)
LocksOnlyGo ==
  /\ UNCHANGED <<open, epoch, issued>>
  /\ assigned \subseteq assigned'
  /\ \A r \in Run : place[r] # None => place'[r] = place[r]
  /\ \A w \in Workspace : lock'[w] # None =>
       /\ lock[w] # None
       /\ lock'[w].run = lock[w].run
       /\ lock'[w].session = lock[w].session
       /\ lock'[w].token = lock[w].token

LEMMA LetGo ==
  ASSUME FenceInv, FenceTypeOK', LocksOnlyGo
  PROVE  LockInv' /\ IssuedInv' /\ NewestInv'
<1>1. \A c \in issued : Where(c)' = Where(c)
  BY WhereOpen DEF FenceInv, IssuedInv, LocksOnlyGo, Where
<1>2. \A r \in Run, w \in Workspace : Linked(r, w) => Linked(r, w)'
  BY AbsentAssumption DEF LocksOnlyGo, Linked
<1>3. LockInv'
  BY <1>2 DEF FenceInv, FenceTypeOK, LockInv, LocksOnlyGo, LockRow
<1>4. IssuedInv'
  <2> SUFFICES ASSUME NEW c \in issued'
      PROVE  /\ place'[c.run] # None
             /\ c.ws \in open' => Linked(c.run, c.ws)'
             /\ c.token <= epoch'[Where(c)']
    BY DEF IssuedInv
  <2>1. c \in issued
    BY DEF LocksOnlyGo
  <2>2. c.run \in Run /\ c.ws \in Workspace
    BY <2>1, WhereOpen
  <2>3. place'[c.run] = place[c.run] /\ place[c.run] # None
    BY <2>1, <2>2 DEF FenceInv, IssuedInv, LocksOnlyGo
  <2>4. c.ws \in open' => Linked(c.run, c.ws)'
    BY <2>1, <2>2, <1>2 DEF FenceInv, IssuedInv, LocksOnlyGo
  <2>5. c.token <= epoch'[Where(c)']
    BY <2>1, <1>1 DEF FenceInv, IssuedInv, LocksOnlyGo
  <2> QED
    BY <2>3, <2>4, <2>5
<1>5. NewestInv'
  <2> SUFFICES ASSUME NEW c \in issued, NEW d \in issued,
                      c.run = d.run, c.session = d.session,
                      Where(c) = Where(d), c.token < d.token,
                      Holds(c, Where(c))'
               PROVE  FALSE
    BY <1>1 DEF NewestInv, LocksOnlyGo
  <2>1. Where(c) \in Workspace /\ Where(c)' = Where(c)
    BY WhereOpen, <1>1
  <2>2. Holds(c, Where(c))
    BY <2>1 DEF Holds, LocksOnlyGo
  <2> QED
    BY <2>2 DEF FenceInv, NewestInv
<1> QED
  BY <1>3, <1>4, <1>5

-----------------------------------------------------------------------------
(* Each step preserves the invariant. *)

LEMMA AcquireInv ==
  ASSUME FenceInv, NEW r \in Run, NEW w \in Workspace, NEW s \in Session,
         Acquire(r, w, s)
  PROVE  FenceInv'
<1> DEFINE t == FenceToken(w)
           new == [ws |-> w, run |-> r, session |-> s, token |-> t]
<1>1. t \in Token /\ t > epoch[w]
  BY TokenAbove, EpochAssumption DEF Acquire, FenceInv, Token
<1>2. /\ issued' = issued \cup {new}
      /\ epoch' = [epoch EXCEPT ![w] = t]
      /\ lock' = [lock EXCEPT ![w] = [run |-> r, session |-> s, token |-> t, live |-> TRUE]]
      /\ w \in open /\ Linked(r, w)
      /\ UNCHANGED <<phase, place, assigned, open>>
  BY DEF Acquire, Linked
<1> HIDE DEF t
<1>3. FenceTypeOK'
  BY <1>1, <1>2, EpochAssumption
  DEF FenceInv, FenceTypeOK, LockRow, Credential, Token
<1>4. PlaceInv'
  BY <1>2 DEF FenceInv, PlaceInv
<1>5. \A q \in Run, x \in Workspace : Linked(q, x)' <=> Linked(q, x)
  BY <1>2 DEF Linked
<1>6. \A c : Where(c)' = Where(c)
  BY <1>2 DEF Where
<1>7. Where(new) = w
  BY <1>2 DEF Where
<1>8. place[r] # None
  BY <1>2, AbsentAssumption DEF Linked, FenceInv, PlaceInv
<1>9. LockInv'
  <2> SUFFICES ASSUME NEW x \in Workspace, lock'[x] # None
      PROVE  x \in open' /\ Linked(lock[x].run, x)' /\ lock'[x].token <= epoch'[x]
    BY DEF LockInv
  <2>1. CASE x = w
    <3>1. lock'[w].run = r /\ lock'[w].token = t /\ epoch'[w] = t
      BY <1>2 DEF FenceInv, FenceTypeOK
    <3>2. Linked(lock[w].run, w)'
      BY <3>1, <1>2, <1>5
    <3> QED
      BY <2>1, <3>1, <3>2, <1>1, <1>2 DEF Token
  <2>2. CASE x # w
    <3>1. lock'[x] = lock[x] /\ epoch'[x] = epoch[x]
      BY <2>2, <1>2 DEF FenceInv, FenceTypeOK
    <3>2. lock[x].run \in Run /\ Linked(lock[x].run, x)
      BY <3>1 DEF FenceInv, FenceTypeOK, LockInv, LockRow
    <3>3. Linked(lock[x].run, x)'
      BY <3>1, <3>2, <1>5
    <3> QED
      BY <3>1, <3>3, <1>2 DEF FenceInv, LockInv
  <2> QED
    BY <2>1, <2>2
<1>10. IssuedInv'
  <2> SUFFICES ASSUME NEW c \in issued'
      PROVE  /\ place'[c.run] # None
             /\ c.ws \in open' => Linked(c.run, c.ws)'
             /\ c.token <= epoch'[Where(c)']
    BY DEF IssuedInv
  <2>1. CASE c = new
    BY <2>1, <1>1, <1>2, <1>5, <1>6, <1>7, <1>8 DEF FenceInv, FenceTypeOK, Token
  <2>2. CASE c \in issued
    <3>1. /\ place[c.run] # None
          /\ c.ws \in open => Linked(c.run, c.ws)
          /\ c.token <= epoch[Where(c)]
      BY <2>2 DEF FenceInv, IssuedInv
    <3>2. c.run \in Run /\ c.ws \in Workspace /\ c.token \in Int /\ Where(c) \in Workspace
      BY <2>2, WhereOpen DEF Token
    <3>3. epoch[Where(c)] <= epoch'[Where(c)] /\ epoch[Where(c)] \in Int /\ epoch'[Where(c)] \in Int
      BY <3>2, <1>1, <1>2 DEF FenceInv, FenceTypeOK, Token
    <3> QED
      BY <3>1, <3>2, <3>3, <1>2, <1>5, <1>6
  <2> QED
    BY <1>2, <2>1, <2>2
<1>11. NewestInv'
  <2> SUFFICES ASSUME NEW c \in issued', NEW d \in issued',
                      c.run = d.run, c.session = d.session,
                      Where(c) = Where(d), c.token < d.token,
                      Holds(c, Where(c))'
               PROVE  FALSE
    BY <1>6 DEF NewestInv
  <2>1. \A e \in issued : Where(e) \in Workspace /\ e.token \in Int /\ e.token <= epoch[Where(e)]
    BY WhereOpen DEF FenceInv, IssuedInv, Token
  <2>2. epoch[w] \in Int /\ t \in Int
    BY <1>1 DEF FenceInv, FenceTypeOK, Token
  <2>3. CASE c = new
    <3>1. c.token = t
      BY <2>3
    <3>2. d \in issued
      BY <2>2, <2>3, <1>2
    <3>3. Where(d) = w
      BY <2>3, <1>7
    <3> QED
      BY <2>1, <2>2, <3>1, <3>2, <3>3, <1>1
  <2>4. CASE c \in issued /\ Where(c) = w
    <3>1. lock'[w].token = t /\ lock'[w].token = c.token
      BY <2>4, <1>2, <1>6 DEF Holds, FenceInv, FenceTypeOK
    <3> QED
      BY <3>1, <2>1, <2>2, <2>4, <1>1
  <2>5. CASE c \in issued /\ Where(c) # w
    <3>1. d \in issued
      BY <2>5, <1>2, <1>7
    <3>2. lock'[Where(c)] = lock[Where(c)]
      BY <2>5, <2>1, <1>2 DEF FenceInv, FenceTypeOK
    <3>3. Holds(c, Where(c))
      BY <3>2, <1>6 DEF Holds
    <3> QED
      BY <2>5, <3>1, <3>3 DEF FenceInv, NewestInv
  <2> QED
    BY <1>2, <2>3, <2>4, <2>5
<1> QED
  BY <1>3, <1>4, <1>9, <1>10, <1>11 DEF FenceInv

LEMMA MergeInv ==
  ASSUME FenceInv, NEW v \in Workspace, NEW w \in Workspace, Merge(v, w)
  PROVE  FenceInv'
<1>1. PICK t \in 0..MaxEpoch :
        /\ epoch' = [epoch EXCEPT ![w] = t]
        /\ epoch[v] <= t /\ epoch[w] <= t
  BY MergedAbove DEF FenceInv, Merge
<1>2. /\ v # w /\ v \in open /\ w \in open
      /\ \A r \in Run : <<r, v>> \notin assigned /\ <<r, w>> \notin assigned
      /\ open' = open \ {v}
      /\ place' = [r \in Run |-> IF place[r] = v THEN w ELSE place[r]]
      /\ UNCHANGED <<phase, assigned, issued>>
  BY DEF Merge
<1>3. lock' = IF lock[v] = None THEN lock ELSE [lock EXCEPT ![v] = None, ![w] = None]
  BY DEF Merge
<1>4. \A x \in Workspace : lock'[x] # None => x # v /\ lock'[x] = lock[x]
  BY <1>2, <1>3 DEF FenceInv, FenceTypeOK
<1>5. FenceTypeOK'
  BY <1>1, <1>2, <1>3, EpochAssumption DEF FenceInv, FenceTypeOK
<1>6. \A x \in Workspace : epoch[x] \in Int /\ epoch'[x] \in Int /\ epoch[x] <= epoch'[x]
  BY <1>1, EpochAssumption DEF FenceInv, FenceTypeOK
<1>7. \A r \in Run, x \in Workspace : x # v /\ Linked(r, x) => Linked(r, x)'
  BY <1>2 DEF Linked
<1>8. PlaceInv'
  BY <1>2, AbsentAssumption DEF FenceInv, PlaceInv
<1>9. LockInv'
  <2> SUFFICES ASSUME NEW x \in Workspace, lock'[x] # None
      PROVE  x \in open' /\ Linked(lock[x].run, x)' /\ lock'[x].token <= epoch'[x]
    BY DEF LockInv
  <2>1. x # v /\ lock'[x] = lock[x] /\ lock[x].run \in Run /\ lock[x].token \in Int
    BY <1>4 DEF FenceInv, FenceTypeOK, LockRow, Token
  <2>2. x \in open /\ Linked(lock[x].run, x) /\ lock[x].token <= epoch[x]
    BY <2>1 DEF FenceInv, LockInv
  <2>3. Linked(lock[x].run, x)'
    BY <2>1, <2>2, <1>7
  <2> QED
    BY <2>1, <2>2, <2>3, <1>2, <1>6
<1>10. ASSUME NEW c \in issued
       PROVE  /\ Where(c)' = IF Where(c) = v THEN w ELSE Where(c)
              /\ Where(c) \in {v, w} => Where(c) = place[c.run]
  BY <1>2, WhereOpen DEF Where, Linked
<1>11. IssuedInv'
  <2> SUFFICES ASSUME NEW c \in issued
      PROVE  /\ place'[c.run] # None
             /\ c.ws \in open' => Linked(c.run, c.ws)'
             /\ c.token <= epoch'[Where(c)']
    BY <1>2 DEF IssuedInv
  <2>1. /\ place[c.run] # None
        /\ c.ws \in open => Linked(c.run, c.ws)
        /\ c.token <= epoch[Where(c)]
    BY DEF FenceInv, IssuedInv
  <2>2. c.run \in Run /\ c.ws \in Workspace /\ c.token \in Int /\ Where(c) \in Workspace
    BY WhereOpen DEF Token
  <2>3. place'[c.run] # None
    BY <2>1, <2>2, <1>2, AbsentAssumption
  <2>4. epoch[Where(c)] <= epoch'[Where(c)']
    BY <2>2, <1>1, <1>6, <1>10 DEF FenceInv, FenceTypeOK
  <2>5. Where(c)' \in Workspace
    BY <2>2, <1>10
  <2>6. c.token <= epoch'[Where(c)']
    BY <2>1, <2>2, <2>4, <2>5, <1>6
  <2>7. c.ws \in open' => Linked(c.run, c.ws)'
    BY <2>1, <2>2, <1>2, <1>7
  <2> QED
    BY <2>3, <2>6, <2>7
<1>12. NewestInv'
  <2> SUFFICES ASSUME NEW c \in issued, NEW d \in issued,
                      c.run = d.run, c.session = d.session,
                      Where(c)' = Where(d)', c.token < d.token,
                      Holds(c, Where(c))'
               PROVE  FALSE
    BY <1>2 DEF NewestInv
  <2>1. Where(c) \in Workspace /\ Where(d) \in Workspace
    BY WhereOpen
  <2>2. Where(c) = Where(d)
    BY <1>10
  <2>3. lock'[Where(c)'] # None /\ Where(c)' \in Workspace
    BY <2>1, <1>10 DEF Holds
  <2>4. lock'[Where(c)'] = lock[Where(c)']
    BY <2>3, <1>4
  <2>5. CASE Where(c) = v
    <3>1. Where(c)' = w /\ place[c.run] = v
      BY <2>5, <1>10
    <3>2. lock[w] # None /\ lock[w].run = c.run
      BY <2>4, <3>1 DEF Holds
    <3>3. Linked(c.run, w)
      BY <3>2 DEF FenceInv, LockInv
    <3> QED
      BY <3>1, <3>3, <1>2, WhereOpen DEF Linked
  <2>6. CASE Where(c) # v
    <3>1. Where(c)' = Where(c)
      BY <2>6, <1>10
    <3>2. Holds(c, Where(c))
      BY <2>4, <3>1 DEF Holds
    <3> QED
      BY <2>2, <3>2 DEF FenceInv, NewestInv
  <2> QED
    BY <2>5, <2>6
<1> QED
  BY <1>5, <1>8, <1>9, <1>11, <1>12 DEF FenceInv

(* A reconciliation keeps a lock as it is or lets it go. *)
LEMMA KeptOrGone ==
  ASSUME FenceTypeOK, NEW status, lock' = KeptLocks(status)
  PROVE  /\ lock' \in [Workspace -> LockRow \cup {None}]
         /\ \A w \in Workspace : lock'[w] # None => lock'[w] = lock[w]
  BY DEF FenceTypeOK, KeptLocks

LEMMA LettingGoInv ==
  ASSUME FenceInv,
         \/ \E c \in issued : Release(c)
         \/ \E w \in Workspace : Expire(w)
         \/ \E r \in Run, w \in Workspace : Start(r, w)
         \/ \E r \in Run, w \in Workspace : Assign(r, w)
         \/ \E r \in Run, status \in {"blocked", "ended"} : Settle(r, status)
         \/ \E r \in Run : Resume(r)
         \/ \E r \in Run : Abandon(r)
         \/ OpenProject
         \/ \E q, r \in Run : Succeed(q, r)
  PROVE  FenceInv'
<1> SUFFICES FenceTypeOK' /\ PlaceInv' /\ LocksOnlyGo
  BY LetGo DEF FenceInv
<1> USE DEF FenceInv, FenceTypeOK, Phases, PlaceInv, LocksOnlyGo
<1>1. ASSUME NEW c \in issued, Release(c)
      PROVE  FenceTypeOK' /\ PlaceInv' /\ LocksOnlyGo
  BY <1>1, WhereOpen DEF Release
<1>2. ASSUME NEW w \in Workspace, Expire(w)
      PROVE  FenceTypeOK' /\ PlaceInv' /\ LocksOnlyGo
  <2>1. lock[w] \in LockRow /\ lock' = [lock EXCEPT ![w] = [lock[w] EXCEPT !.live = FALSE]]
    BY <1>2 DEF Expire, Live
  <2>2. [lock[w] EXCEPT !.live = FALSE] \in LockRow
    BY <2>1 DEF LockRow
  <2>3. /\ lock' \in [Workspace -> LockRow \cup {None}]
        /\ lock[w] # None
        /\ \A x \in Workspace \ {w} : lock'[x] = lock[x]
        /\ lock'[w].run = lock[w].run /\ lock'[w].session = lock[w].session
        /\ lock'[w].token = lock[w].token
    BY <2>1, <2>2, <1>2 DEF Expire, Live, LockRow
  <2> QED
    BY <2>3, <1>2 DEF Expire
<1>3. ASSUME NEW r \in Run, NEW w \in Workspace, Start(r, w)
      PROVE  FenceTypeOK' /\ PlaceInv' /\ LocksOnlyGo
  BY <1>3, AbsentAssumption DEF Start
<1>4. ASSUME NEW r \in Run, NEW w \in Workspace, Assign(r, w)
      PROVE  FenceTypeOK' /\ PlaceInv' /\ LocksOnlyGo
  BY <1>4 DEF Assign
<1>5. ASSUME NEW r \in Run, NEW status \in {"blocked", "ended"}, Settle(r, status)
      PROVE  FenceTypeOK' /\ PlaceInv' /\ LocksOnlyGo
  BY <1>5, KeptOrGone DEF Settle
<1>6. ASSUME NEW r \in Run, Resume(r)
      PROVE  FenceTypeOK' /\ PlaceInv' /\ LocksOnlyGo
  BY <1>6 DEF Resume
<1>7. ASSUME NEW r \in Run, Abandon(r)
      PROVE  FenceTypeOK' /\ PlaceInv' /\ LocksOnlyGo
  BY <1>7 DEF Abandon
<1>8. CASE OpenProject
  BY <1>8, KeptOrGone DEF OpenProject
<1>9. ASSUME NEW q \in Run, NEW r \in Run, Succeed(q, r)
      PROVE  FenceTypeOK' /\ PlaceInv' /\ LocksOnlyGo
  <2>1. place[q] \in Workspace /\ place[q] \in open /\ r # q /\ place[r] = None
    BY <1>9 DEF Succeed
  <2>2. FenceTypeOK'
    BY <1>9, <2>1 DEF Succeed
  <2>3. PlaceInv'
    BY <1>9, <2>1, AbsentAssumption DEF Succeed
  <2>4. LocksOnlyGo
    BY <1>9, <2>1 DEF Succeed
  <2> QED
    BY <2>2, <2>3, <2>4
<1> HIDE DEF FenceInv, FenceTypeOK, Phases, PlaceInv, LocksOnlyGo
<1> QED
  BY <1>1, <1>2, <1>3, <1>4, <1>5, <1>6, <1>7, <1>8, <1>9

LEMMA FenceInvStep == FenceInv /\ [FenceStep]_fenceVars => FenceInv'
<1> SUFFICES ASSUME FenceInv, [FenceStep]_fenceVars PROVE FenceInv'
  OBVIOUS
<1>1. CASE UNCHANGED fenceVars
  BY <1>1 DEF fenceVars, FenceInv, FenceTypeOK, PlaceInv, LockInv, IssuedInv,
     NewestInv, Where, Linked, Holds
<1>2. CASE FenceStep
  BY <1>2, AcquireInv, MergeInv, LettingGoInv DEF FenceStep
<1> QED
  BY <1>1, <1>2

LEMMA FenceInvariant == FenceSpec => []FenceInv
  BY FenceInvInit, FenceInvStep, PTL DEF FenceSpec

-----------------------------------------------------------------------------
(* Theorems. *)

(* The state of runs, workspaces and locks is well typed. *)
THEOREM FenceTypeCorrect == FenceSpec => []FenceTypeOK
<1>1. FenceInv => FenceTypeOK
  BY DEF FenceInv
<1> QED
  BY <1>1, FenceInvariant, PTL

(* A superseded credential is refused for ever. *)
THEOREM NewestOnlyCorrect == FenceSpec => []OnlyNewestPasses
<1>1. FenceInv => OnlyNewestPasses
  BY DEF FenceInv, NewestInv, OnlyNewestPasses, Passes
<1> QED
  BY <1>1, FenceInvariant, PTL

(* No step mints a token that a credential for the workspace already carries. *)
LEMMA FreshStep ==
  ASSUME FenceInv, [FenceStep]_fenceVars, NEW w \in Workspace, NEW c \in issued,
         lock'[w] # None, lock[w] = None \/ lock'[w].token # lock[w].token,
         Where(c) = w
  PROVE  c.token < lock'[w].token
<1>1. CASE UNCHANGED fenceVars
  BY <1>1 DEF fenceVars
<1>2. ASSUME NEW r \in Run, NEW x \in Workspace, NEW s \in Session, Acquire(r, x, s)
      PROVE  c.token < lock'[w].token
  <2>1. CASE x = w
    <3>1. lock'[w].token = FenceToken(w)
      BY <1>2, <2>1 DEF Acquire, FenceInv, FenceTypeOK
    <3>2. c.token <= epoch[w] /\ c.token \in Int /\ epoch[w] \in Int
      BY WhereOpen DEF FenceInv, FenceTypeOK, IssuedInv, Token
    <3> QED
      BY <3>1, <3>2, TokenAbove DEF FenceInv
  <2>2. CASE x # w
    BY <1>2, <2>2 DEF Acquire, FenceInv, FenceTypeOK
  <2> QED
    BY <2>1, <2>2
<1>3. ASSUME NEW v \in Workspace, NEW x \in Workspace, Merge(v, x)
      PROVE  c.token < lock'[w].token
  BY <1>3 DEF Merge, FenceInv, FenceTypeOK
<1>4. ASSUME NEW e \in issued, Release(e) PROVE c.token < lock'[w].token
  BY <1>4, WhereOpen DEF Release, FenceInv, FenceTypeOK
<1>5. ASSUME NEW x \in Workspace, Expire(x) PROVE c.token < lock'[w].token
  BY <1>5 DEF Expire, Live, FenceInv, FenceTypeOK, LockRow
<1>6. ASSUME NEW r \in Run, NEW status \in {"blocked", "ended"}, Settle(r, status)
      PROVE  c.token < lock'[w].token
  BY <1>6, KeptOrGone DEF Settle, FenceInv
<1>7. ASSUME NEW r \in Run, Abandon(r) PROVE c.token < lock'[w].token
  BY <1>7 DEF Abandon
<1>8. CASE OpenProject
  BY <1>8, KeptOrGone DEF OpenProject, FenceInv
<1>9. ASSUME NEW q \in Run, NEW r \in Run, Succeed(q, r) PROVE c.token < lock'[w].token
  BY <1>9 DEF Succeed, FenceInv, FenceTypeOK
<1>10. ASSUME NEW r \in Run, NEW x \in Workspace, Start(r, x) \/ Assign(r, x) \/ Resume(r)
       PROVE  c.token < lock'[w].token
  BY <1>10 DEF Start, Assign, Resume
<1> QED
  BY <1>1, <1>2, <1>3, <1>4, <1>5, <1>6, <1>7, <1>8, <1>9, <1>10 DEF FenceStep

(* Tokens are never reissued, through release, expiry, takeover and merge. *)
THEOREM TokenFreshness == FenceSpec => TokenNeverReissued
<1> DEFINE Fresh ==
      \A w \in Workspace :
        (lock'[w] # None /\ (lock[w] = None \/ lock'[w].token # lock[w].token))
          => \A c \in issued : Where(c) = w => c.token < lock'[w].token
<1>1. FenceInv /\ [FenceStep]_fenceVars => [Fresh]_fenceVars
  BY FreshStep
<1> QED
  BY <1>1, FenceInvariant, PTL DEF FenceSpec, TokenNeverReissued

-----------------------------------------------------------------------------
(***************************************************************************)
(* The delivery.                                                           *)
(***************************************************************************)

(* As much typing as the proofs need. *)
DeliveryVarsOK ==
  /\ revision \in [Run -> 0..MaxRevision]
  /\ at \in [Delivery -> Places]
  /\ DOMAIN expect = Delivery
  /\ \A d \in Delivery : expect[d].revision \in Int
  /\ DOMAIN seen = Delivery

(* What a recorded delivery saw, from the moment it looked. *)
ExactInv ==
  \A d \in Delivery :
    (at[d] = "observed" \/ Succeeded(d)) => seen[d] = expect[d].content \cup {Whole(d)}

(* A recorded delivery has moved the run past its snapshot, and mutation      *)
(* revisions never go back.                                                  *)
PastInv ==
  \A d \in Delivery : Succeeded(d) => expect[d].revision < revision[RunOf[d]]

DeliveryInv == DeliveryVarsOK /\ ExactInv /\ PastInv /\ OneDeliveryPerSnapshot

-----------------------------------------------------------------------------
LEMMA DeliveryInvInit == Init => DeliveryInv
  BY DeliveryAssumption
  DEF Init, DeliveryInv, DeliveryVarsOK, ExactInv, PastInv, OneDeliveryPerSnapshot,
      Succeeded, Places

(* A step in which nobody becomes recorded or observed and no snapshot changes *)
(* that is past its use.                                                      *)
LEMMA Quiet ==
  ASSUME DeliveryInv, DeliveryVarsOK',
         \A r \in Run : revision[r] <= revision'[r],
         \A d \in Delivery : Succeeded(d)' =>
           Succeeded(d) /\ expect'[d] = expect[d] /\ seen'[d] = seen[d],
         \A d \in Delivery : at'[d] = "observed" =>
           at[d] = "observed" /\ expect'[d] = expect[d] /\ seen'[d] = seen[d]
  PROVE  DeliveryInv'
<1>1. ExactInv'
  BY DEF DeliveryInv, ExactInv, Whole
<1>2. PastInv'
  BY DeliveryAssumption DEF DeliveryInv, DeliveryVarsOK, PastInv
<1>3. OneDeliveryPerSnapshot'
  BY DEF DeliveryInv, OneDeliveryPerSnapshot
<1> QED
  BY <1>1, <1>2, <1>3 DEF DeliveryInv

(* The dispatcher's own steps. *)
LEMMA DeliveryStepInv ==
  ASSUME DeliveryInv, NEW d \in Delivery, DeliveryStep(d)
  PROVE  DeliveryInv'
<1>1. CASE Begin(d)
  <2>1. /\ expect' = [expect EXCEPT ![d] =
                        [revision |-> revision[RunOf[d]], content |-> known[RunOf[d]]]]
        /\ at' = [at EXCEPT ![d] = "begun"]
        /\ UNCHANGED <<revision, seen>>
    BY <1>1 DEF Begin, Go
  <2>2. revision[RunOf[d]] \in Int /\ \A r \in Run : revision[r] <= revision'[r]
    <3>1. RunOf[d] \in Run /\ MaxRevision \in Int
      BY DeliveryAssumption
    <3>2. \A r \in Run : revision[r] \in Int
      BY <3>1 DEF DeliveryInv, DeliveryVarsOK
    <3> QED
      BY <2>1, <3>1, <3>2
  <2>3. DOMAIN expect' = Delivery /\ \A e \in Delivery : expect'[e].revision \in Int
    BY <2>1, <2>2 DEF DeliveryInv, DeliveryVarsOK
  <2>4. DeliveryVarsOK'
    BY <2>1, <2>3 DEF DeliveryInv, DeliveryVarsOK, Places
  <2> QED
    BY <2>1, <2>2, <2>4, Quiet DEF DeliveryInv, DeliveryVarsOK, Succeeded
<1>2. CASE \/ TakeFence(d) \/ CheckFence(d) \/ Renew(d) \/ StartApply(d) \/ Apply(d)
           \/ Confirm(d) \/ BlockForRecovery(d) \/ GiveBack(d) \/ Crash(d)
  <2>1. /\ UNCHANGED <<revision, expect, seen>>
        /\ \E where \in Places \ {"observed", "recorded"} :
             /\ at' = [at EXCEPT ![d] = where]
             /\ where \in {"confirmed", "done"} => Succeeded(d)
    BY <1>2 DEF TakeFence, CheckFence, Renew, StartApply, Apply, Confirm,
       BlockForRecovery, GiveBack, Crash, Go, Places, Succeeded
  <2>2. DeliveryVarsOK'
    BY <2>1 DEF DeliveryInv, DeliveryVarsOK
  <2>3. \A r \in Run : revision[r] <= revision'[r]
    BY <2>1, DeliveryAssumption DEF DeliveryInv, DeliveryVarsOK
  <2> QED
    BY <2>1, <2>2, <2>3, Quiet DEF DeliveryInv, DeliveryVarsOK, Succeeded
<1>3. CASE Observe(d)
  <2>1. /\ UNCHANGED <<revision, expect>>
        /\ \A e \in Delivery \ {d} : at'[e] = at[e] /\ seen'[e] = seen[e]
        /\ at'[d] \in {"observed", "failing"}
        /\ at'[d] = "observed" => seen'[d] = expect[d].content \cup {Whole(d)}
    BY <1>3 DEF Observe, Go, AsIntegrated, DeliveryInv, DeliveryVarsOK
  <2>2. DeliveryVarsOK'
    BY <1>3 DEF Observe, Go, DeliveryInv, DeliveryVarsOK, Places
  <2>3. \A e \in Delivery : Succeeded(e)' => Succeeded(e) /\ e # d
    BY <2>1 DEF Succeeded
  <2>4. ExactInv'
    BY <2>1, <2>3 DEF DeliveryInv, ExactInv, Whole
  <2>5. PastInv'
    BY <2>1, <2>3 DEF DeliveryInv, PastInv
  <2>6. OneDeliveryPerSnapshot'
    BY <2>1, <2>3 DEF DeliveryInv, OneDeliveryPerSnapshot
  <2> QED
    BY <2>2, <2>4, <2>5, <2>6 DEF DeliveryInv
<1>4. CASE Record(d)
  <2>1. CASE CasHolds(d)
    <3>1. /\ revision[RunOf[d]] = expect[d].revision
          /\ revision[RunOf[d]] < MaxRevision
          /\ revision' = [revision EXCEPT ![RunOf[d]] = @ + 1]
          /\ at[d] = "observed"
          /\ at' = [at EXCEPT ![d] = "recorded"]
          /\ UNCHANGED <<expect, seen>>
      BY <1>4, <2>1 DEF Record, Go, CasHolds, RunUnchanged
    <3>2. RunOf[d] \in Run /\ MaxRevision \in Nat
      BY DeliveryAssumption
    <3>3. /\ revision'[RunOf[d]] = revision[RunOf[d]] + 1
          /\ revision' \in [Run -> 0..MaxRevision]
          /\ \A r \in Run : revision[r] \in Int /\ revision[r] <= revision'[r]
      BY <3>1, <3>2 DEF DeliveryInv, DeliveryVarsOK
    <3>4. DeliveryVarsOK'
      BY <3>1, <3>3 DEF DeliveryInv, DeliveryVarsOK, Places
    <3>5. \A e \in Delivery \ {d} : Succeeded(e)' <=> Succeeded(e)
      BY <3>1 DEF Succeeded
    <3>6. ExactInv'
      BY <3>1, <3>5 DEF DeliveryInv, DeliveryVarsOK, ExactInv, Whole
    <3>7. PastInv'
      <4> SUFFICES ASSUME NEW e \in Delivery, Succeeded(e)'
                   PROVE  expect[e].revision < revision'[RunOf[e]]
        BY <3>1 DEF PastInv
      <4>1. CASE e = d
        BY <4>1, <3>1, <3>2, <3>3 DEF DeliveryInv, DeliveryVarsOK
      <4>2. CASE e # d
        <5>1. expect[e].revision < revision[RunOf[e]]
          BY <4>2, <3>5 DEF DeliveryInv, PastInv
        <5>2. RunOf[e] \in Run
          BY DeliveryAssumption
        <5> QED
          BY <5>1, <5>2, <3>3, <3>4 DEF DeliveryInv, DeliveryVarsOK
      <4> QED
        BY <4>1, <4>2
    <3>8. OneDeliveryPerSnapshot'
      <4>1. ASSUME NEW e \in Delivery, e # d, Succeeded(e), RunOf[e] = RunOf[d]
            PROVE  expect[e].revision # expect[d].revision
        BY <4>1, <3>1, <3>3 DEF DeliveryInv, DeliveryVarsOK, PastInv
      <4> QED
        BY <4>1, <3>1, <3>5 DEF DeliveryInv, OneDeliveryPerSnapshot
    <3> QED
      BY <3>4, <3>6, <3>7, <3>8 DEF DeliveryInv
  <2>2. CASE ~CasHolds(d)
    <3>1. UNCHANGED <<revision, expect, seen>> /\ at' = [at EXCEPT ![d] = "failing"]
      BY <1>4, <2>2 DEF Record, Go
    <3>2. DeliveryVarsOK'
      BY <3>1 DEF DeliveryInv, DeliveryVarsOK, Places
    <3>3. \A r \in Run : revision[r] <= revision'[r]
      BY <3>1, DeliveryAssumption DEF DeliveryInv, DeliveryVarsOK
    <3> QED
      BY <3>1, <3>2, <3>3, Quiet DEF DeliveryInv, DeliveryVarsOK, Succeeded
  <2> QED
    BY <2>1, <2>2
<1> QED
  BY <1>1, <1>2, <1>3, <1>4 DEF DeliveryStep

(* Everybody else's steps. *)
LEMMA OthersInv ==
  ASSUME DeliveryInv, UNCHANGED progress,
         \/ UNCHANGED revision
         \/ \E r \in Run : /\ revision[r] < MaxRevision
                           /\ revision' = [revision EXCEPT ![r] = @ + 1]
  PROVE  DeliveryInv'
<1>1. DeliveryVarsOK' /\ \A r \in Run : revision[r] <= revision'[r]
  BY DeliveryAssumption DEF DeliveryInv, DeliveryVarsOK, progress
<1> QED
  BY <1>1, Quiet DEF progress, Succeeded

LEMMA DeliveryInvStep == DeliveryInv /\ [Next]_vars => DeliveryInv'
<1> SUFFICES ASSUME DeliveryInv, [Next]_vars PROVE DeliveryInv'
  OBVIOUS
<1>1. CASE UNCHANGED vars
  BY <1>1, OthersInv DEF vars, dlvVars, progress
<1>2. ASSUME NEW r \in Run, NEW w \in Workspace,
             \/ StartRun(r, w) \/ Edit(w) \/ LeaseRunsOut(w)
             \/ Resumption(r) \/ OtherStep
      PROVE  DeliveryInv'
  BY <1>2, OthersInv
  DEF StartRun, Edit, LeaseRunsOut, Resumption, OtherStep, dlvVars, progress
<1>3. ASSUME NEW w \in Workspace, Edit(w) \/ LeaseRunsOut(w) PROVE DeliveryInv'
  BY <1>3, OthersInv DEF Edit, LeaseRunsOut, dlvVars, progress
<1>4. ASSUME NEW r \in Run, Resumption(r) PROVE DeliveryInv'
  BY <1>4, OthersInv DEF Resumption, progress
<1>5. CASE OtherStep
  BY <1>5, OthersInv DEF OtherStep, dlvVars, progress
<1>6. ASSUME NEW r \in Run, ReportObserves(r) PROVE DeliveryInv'
  BY <1>6, OthersInv DEF ReportObserves
<1> QED
  BY <1>1, <1>2, <1>3, <1>4, <1>5, <1>6, DeliveryStepInv DEF Next

LEMMA DeliveryInvariant == Spec => []DeliveryInv
  BY DeliveryInvInit, DeliveryInvStep, PTL DEF Spec

-----------------------------------------------------------------------------
(* Of the deliveries prepared from one snapshot at most one is recorded. *)
THEOREM OneDeliveryCorrect == Spec => []OneDeliveryPerSnapshot
<1>1. DeliveryInv => OneDeliveryPerSnapshot
  BY DEF DeliveryInv
<1> QED
  BY <1>1, DeliveryInvariant, PTL

(* A recorded delivery is its own patch on the content it was made for. *)
THEOREM DeliveredExactlyCorrect == Spec => []DeliveredExactly
<1>1. DeliveryInv => DeliveredExactly
  BY DEF DeliveryInv, ExactInv, DeliveredExactly
<1> QED
  BY <1>1, DeliveryInvariant, PTL

-----------------------------------------------------------------------------
(***************************************************************************)
(* The delivery under the fence.                                           *)
(***************************************************************************)

(* A dispatcher on its way works for a run that exists, and what it holds was  *)
(* issued to it, by the workspace of that run.                                *)
HolderInv ==
  /\ DOMAIN token = Delivery /\ DOMAIN at = Delivery
  /\ \A d \in Delivery : at[d] # "idle" => phase[RunOf[d]] # "absent"
  /\ \A d \in Delivery : token[d] # 0 =>
       phase[RunOf[d]] # "absent" /\ Lockable(d) \in issued

(* A run that exists stays where it is: no workspaces are merged here. *)
Stays(r) == phase[r] # "absent" => place'[r] = place[r] /\ phase'[r] # "absent"

(* Every step is one of the fence, or none of its business. *)
LEMMA Fencing ==
  ASSUME FenceInv, HolderInv, [Next]_vars
  PROVE  /\ [FenceStep]_fenceVars
         /\ issued \subseteq issued'
         /\ \A r \in Run : Stays(r)
<1> USE DEF FenceInv, FenceTypeOK
<1>1. ASSUME NEW d \in Delivery, TakeFence(d)
      PROVE  [FenceStep]_fenceVars /\ issued \subseteq issued' /\ \A r \in Run : Stays(r)
  <2>1. RunOf[d] \in Run /\ SessionOf[d] \in Session
    BY DeliveryAssumption
  <2>2. CASE UNCHANGED fenceVars
    BY <2>2 DEF fenceVars, Stays
  <2>3. CASE phase[RunOf[d]] = "active" /\ Acquire(RunOf[d], Home(d), SessionOf[d])
    <3>1. Home(d) \in Workspace
      BY <2>3 DEF Acquire
    <3>2. FenceStep
      BY <2>1, <2>3, <3>1 DEF FenceStep
    <3> QED
      BY <2>3, <3>2 DEF Acquire, Stays
  <2> QED
    BY <1>1, <2>2, <2>3 DEF TakeFence
<1>2. ASSUME NEW r \in Run, NEW status \in {"blocked", "ended"}, Settle(r, status)
      PROVE  [FenceStep]_fenceVars /\ issued \subseteq issued' /\ \A q \in Run : Stays(q)
  BY <1>2 DEF FenceStep, Settle, Stays
<1>3. ASSUME NEW d \in Delivery, GiveBack(d)
      PROVE  [FenceStep]_fenceVars /\ issued \subseteq issued' /\ \A r \in Run : Stays(r)
  <2>1. RunOf[d] \in Run
    BY DeliveryAssumption
  <2>2. CASE UNCHANGED fenceVars
    BY <2>2 DEF fenceVars, Stays
  <2>3. CASE Settle(RunOf[d], "blocked")
    BY <2>1, <2>3, <1>2
  <2>4. CASE Holds(Lockable(d), Home(d)) /\ Release(Lockable(d))
    <3>1. phase[RunOf[d]] # "absent"
      BY <1>3 DEF GiveBack, HolderInv
    <3>2. Lockable(d) \in issued
      <4>1. Home(d) \in Workspace
        BY <2>1, <3>1 DEF PlaceInv, Home
      <4>2. lock[Home(d)] \in LockRow /\ token[d] = lock[Home(d)].token
        BY <2>4, <4>1 DEF Holds, Lockable
      <4>3. token[d] # 0
        BY <4>2 DEF LockRow, Token
      <4> QED
        BY <4>3 DEF HolderInv
    <3>3. FenceStep
      BY <2>4, <3>2 DEF FenceStep
    <3> QED
      BY <2>4, <3>3 DEF Release, Stays
  <2> QED
    BY <1>3, <2>2, <2>3, <2>4 DEF GiveBack
<1>4. ASSUME NEW d \in Delivery, BlockForRecovery(d)
      PROVE  [FenceStep]_fenceVars /\ issued \subseteq issued' /\ \A r \in Run : Stays(r)
  <2>1. RunOf[d] \in Run
    BY DeliveryAssumption
  <2>2. CASE UNCHANGED fenceVars
    BY <2>2 DEF fenceVars, Stays
  <2>3. CASE Settle(RunOf[d], "blocked")
    BY <2>1, <2>3, <1>2
  <2> QED
    BY <1>4, <2>2, <2>3 DEF BlockForRecovery
<1>5. ASSUME NEW r \in Run, NEW w \in Workspace, StartRun(r, w)
      PROVE  [FenceStep]_fenceVars /\ issued \subseteq issued' /\ \A q \in Run : Stays(q)
  BY <1>5 DEF StartRun, Start, FenceStep, Stays
<1>6. ASSUME NEW w \in Workspace, LeaseRunsOut(w)
      PROVE  [FenceStep]_fenceVars /\ issued \subseteq issued' /\ \A q \in Run : Stays(q)
  BY <1>6 DEF LeaseRunsOut, Expire, FenceStep, Stays
<1>7. ASSUME NEW r \in Run, Resumption(r) \/ Abandon(r)
      PROVE  [FenceStep]_fenceVars /\ issued \subseteq issued' /\ \A q \in Run : Stays(q)
  BY <1>7 DEF Resumption, Resume, Abandon, FenceStep, Stays
<1>8. CASE OpenProject
  BY <1>8 DEF OpenProject, FenceStep, Stays
<1>9. CASE UNCHANGED fenceVars
  BY <1>9 DEF fenceVars, Stays
<1> QED
  BY <1>1, <1>2, <1>3, <1>4, <1>5, <1>6, <1>7, <1>8, <1>9
  DEF Next, DeliveryStep, Begin, CheckFence, Renew, StartApply, Apply, Observe,
      Record, Confirm, Crash, Edit, ReportObserves, OtherStep, vars

LEMMA HolderInvStep ==
  ASSUME FenceInv, HolderInv, [Next]_vars
  PROVE  HolderInv'
<1>1. /\ DOMAIN at' = Delivery
      /\ \A d \in Delivery : at'[d] # "idle" => phase'[RunOf[d]] # "absent"
  <2>1. DOMAIN at' = Delivery
    BY DEF HolderInv, Next, DeliveryStep, Begin, TakeFence, CheckFence, Renew,
       StartApply, Apply, Observe, Record, Confirm, BlockForRecovery, GiveBack, Crash,
       StartRun, Edit, LeaseRunsOut, ReportObserves, Resumption, OtherStep, vars,
       dlvVars, progress, Go
  <2>2. \A d \in Delivery : at'[d] # "idle" => at[d] # "idle" \/ Begin(d)
    BY DEF HolderInv, Next, DeliveryStep, Begin, TakeFence, CheckFence, Renew,
       StartApply, Apply, Observe, Record, Confirm, BlockForRecovery, GiveBack, Crash,
       StartRun, Edit, LeaseRunsOut, ReportObserves, Resumption, OtherStep, vars,
       dlvVars, progress, Go
  <2> QED
    BY <2>1, <2>2, Fencing, DeliveryAssumption DEF HolderInv, Stays, Begin
<1>2. CASE UNCHANGED token
  BY <1>1, <1>2, Fencing, DeliveryAssumption
  DEF HolderInv, Stays, Lockable, Home
<1>3. ASSUME NEW d \in Delivery, TakeFence(d), token' # token
      PROVE  HolderInv'
  <2>1. /\ Acquire(RunOf[d], Home(d), SessionOf[d])
        /\ phase[RunOf[d]] = "active"
        /\ token' = [token EXCEPT ![d] = FenceToken(Home(d))]
    BY <1>3 DEF TakeFence
  <2>2. Lockable(d)' \in issued' /\ phase'[RunOf[d]] # "absent"
    BY <2>1 DEF Acquire, Lockable, Home, HolderInv
  <2> QED
    BY <1>1, <2>1, <2>2, Fencing, DeliveryAssumption
    DEF HolderInv, Stays, Lockable, Home
<1> QED
  BY <1>2, <1>3 DEF Next, DeliveryStep, Begin, CheckFence, Renew, StartApply, Apply,
     Observe, Record, Confirm, BlockForRecovery, GiveBack, Crash, StartRun, Edit,
     LeaseRunsOut, ReportObserves, Resumption, OtherStep, vars, dlvVars, progress

LEMMA HolderInvariant == Spec => [](FenceInv /\ HolderInv)
<1>1. Init => FenceInv /\ HolderInv
  BY FenceInvInit DEF Init, HolderInv
<1>2. FenceInv /\ HolderInv /\ [Next]_vars => (FenceInv /\ HolderInv)'
  BY Fencing, FenceInvStep, HolderInvStep
<1> QED
  BY <1>1, <1>2, PTL DEF Spec

(* With all that a delivery does, the fence is used as WorkspaceFence says: so *)
(* the theorems about the fence hold of OwnerDelivery, too.                   *)
THEOREM DeliveryUsesFence == Spec => FenceSpec
<1>1. Init => FenceInit
  BY DEF Init
<1>2. FenceInv /\ HolderInv /\ [Next]_vars => [FenceStep]_fenceVars
  BY Fencing
<1> QED
  BY <1>1, <1>2, HolderInvariant, PTL DEF Spec, FenceSpec

-----------------------------------------------------------------------------
(* Each dispatcher has a control plane, and so a holder string, to itself. *)
OneDispatcherPerSession ==
  \A d, e \in Delivery : SessionOf[d] = SessionOf[e] => d = e

(* The run is not blocked, and was never interfered with. *)
Undisturbed(d) == phase[RunOf[d]] = "active" /\ RunOf[d] \notin excused

(* Whoever applies has the fence. *)
KeepsInv ==
  \A d \in Delivery : (at[d] = "applying" /\ Undisturbed(d)) => HoldsFence(d)

(* A reconciliation leaves the lock of an active run in its own workspace.    *)
LEMMA KeptUnlessStopped ==
  ASSUME NEW d \in Delivery, Home(d) \in Workspace, HoldsFence(d),
         NEW status, status[RunOf[d]] = "active"
  PROVE  KeptLocks(status)[Home(d)] = lock[Home(d)]
  BY DEF HoldsFence, Passes, Live, Holds, Lockable, KeptLocks, Dropped, Home

(* Only a start and a resumption make a run active. *)
LEMMA Reactivation ==
  ASSUME FenceTypeOK, [Next]_vars, NEW r \in Run, phase'[r] = "active"
  PROVE  phase[r] = "active" \/ phase[r] = "absent" \/ r \in excused'
<1> USE DEF FenceTypeOK
<1>1. ASSUME NEW q \in Run, NEW status \in {"blocked", "ended"}, Settle(q, status)
      PROVE  phase[r] = "active"
  BY <1>1 DEF Settle
<1>2. ASSUME NEW q \in Run,
             (\E w \in Workspace : StartRun(q, w)) \/ Resumption(q) \/ Abandon(q)
      PROVE  phase[r] = "active" \/ phase[r] = "absent" \/ r \in excused'
  BY <1>2 DEF StartRun, Start, Resumption, Resume, Abandon
<1>3. ASSUME NEW d \in Delivery, TakeFence(d) PROVE phase[r] = "active"
  BY <1>3 DEF TakeFence, Acquire, fenceVars
<1>4. ASSUME NEW d \in Delivery, BlockForRecovery(d) \/ GiveBack(d)
      PROVE  phase[r] = "active"
  BY <1>1, <1>4, DeliveryAssumption DEF BlockForRecovery, GiveBack, Release, fenceVars
<1>5. CASE UNCHANGED phase
  BY <1>5
<1> QED
  BY <1>1, <1>2, <1>3, <1>4, <1>5
  DEF Next, DeliveryStep, Begin, CheckFence, Renew, StartApply, Apply, Observe,
      Record, Confirm, Crash, Edit, ReportObserves, OtherStep, LeaseRunsOut, Expire,
      OpenProject, vars, fenceVars

(* Nobody takes the lock from under an apply. *)
LEMMA LockStays ==
  ASSUME OneDispatcherPerSession, FenceTypeOK, [Next]_vars,
         NEW d \in Delivery, at[d] = "applying", Home(d) \in Workspace, HoldsFence(d),
         phase'[RunOf[d]] = "active"
  PROVE  lock'[Home(d)] = lock[Home(d)]
<1>r. RunOf[d] \in Run
  BY DeliveryAssumption
<1> USE DEF FenceTypeOK
<1>0. /\ lock[Home(d)] # None /\ lock[Home(d)].live /\ phase[RunOf[d]] = "active"
      /\ lock[Home(d)].run = RunOf[d] /\ lock[Home(d)].session = SessionOf[d]
  BY DEF HoldsFence, Passes, Live, Holds, Lockable
<1>1. ASSUME NEW q \in Run, NEW status \in {"blocked", "ended"}, Settle(q, status)
      PROVE  lock'[Home(d)] = lock[Home(d)]
  BY <1>1, KeptUnlessStopped DEF Settle
<1>2. ASSUME NEW q \in Run, Abandon(q) PROVE lock'[Home(d)] = lock[Home(d)]
  BY <1>0, <1>2, <1>r DEF Abandon
<1>3. ASSUME NEW e \in Delivery, TakeFence(e) PROVE lock'[Home(d)] = lock[Home(d)]
  <2>1. CASE UNCHANGED fenceVars
    BY <2>1 DEF fenceVars
  <2>2. CASE Acquire(RunOf[e], Home(e), SessionOf[e])
    <3>1. e # d
      BY <1>3 DEF TakeFence
    <3>2. Home(e) # Home(d)
      BY <1>0, <2>2, <3>1 DEF Acquire, Available, Live, OneDispatcherPerSession
    <3> QED
      BY <2>2, <3>2 DEF Acquire
  <2> QED
    BY <1>3, <2>1, <2>2 DEF TakeFence
<1>4. ASSUME NEW e \in Delivery, BlockForRecovery(e) \/ GiveBack(e)
      PROVE  lock'[Home(d)] = lock[Home(d)]
  <2>1. CASE UNCHANGED fenceVars
    BY <2>1 DEF fenceVars
  <2>2. CASE Settle(RunOf[e], "blocked")
    BY <1>1, <2>2, DeliveryAssumption
  <2>3. CASE GiveBack(e) /\ Holds(Lockable(e), Home(e)) /\ Release(Lockable(e))
    <3>1. e # d
      BY <2>3 DEF GiveBack
    <3>2. Home(e) # Home(d)
      BY <1>0, <2>3, <3>1 DEF Holds, Lockable, OneDispatcherPerSession
    <3> QED
      BY <2>3, <3>2 DEF Release, Lockable
  <2> QED
    BY <1>4, <2>1, <2>2, <2>3 DEF BlockForRecovery, GiveBack
<1>5. ASSUME NEW w \in Workspace, LeaseRunsOut(w) PROVE lock'[Home(d)] = lock[Home(d)]
  <2>1. w # Home(d)
    BY <1>0, <1>5 DEF LeaseRunsOut, OutsideApply
  <2> QED
    BY <1>5, <2>1 DEF LeaseRunsOut, Expire
<1>6. CASE OpenProject
  BY <1>0, <1>6, KeptUnlessStopped DEF OpenProject
<1>7. CASE UNCHANGED lock
  BY <1>7
<1> QED
  BY <1>1, <1>2, <1>3, <1>4, <1>5, <1>6, <1>7
  DEF Next, DeliveryStep, Begin, CheckFence, Renew, StartApply, Apply, Observe,
      Record, Confirm, Crash, Edit, ReportObserves, OtherStep, StartRun, Start,
      Resumption, Resume, vars, fenceVars

LEMMA KeepsStep ==
  ASSUME OneDispatcherPerSession, FenceInv, HolderInv, KeepsInv, [Next]_vars
  PROVE  KeepsInv'
<1> SUFFICES ASSUME NEW d \in Delivery, at'[d] = "applying", Undisturbed(d)'
             PROVE  HoldsFence(d)'
  BY DEF KeepsInv
<1>r. RunOf[d] \in Run /\ SessionOf[d] \in Session
  BY DeliveryAssumption
<1> USE DEF FenceInv, FenceTypeOK
<1>1. CASE at[d] # "applying"
  <2>1. StartApply(d) /\ Ready(d) /\ UNCHANGED <<phase, place, lock, token>>
    BY <1>1 DEF HolderInv, Next, DeliveryStep, Begin, TakeFence, CheckFence, Renew,
       StartApply, Apply, Observe, Record, Confirm, BlockForRecovery, GiveBack, Crash,
       StartRun, Edit, LeaseRunsOut, ReportObserves, Resumption, OtherStep, vars,
       dlvVars, progress, Go, fenceVars
  <2> QED
    BY <2>1 DEF Ready, HoldsFence, Passes, Live, Holds, Lockable, Home
<1>2. CASE at[d] = "applying"
  <2>1. phase[RunOf[d]] # "absent" /\ Home(d) \in Workspace
    BY <1>2, <1>r DEF HolderInv, PlaceInv, Home
  <2>2. Home(d)' = Home(d)
    BY <2>1, <1>r, Fencing DEF Stays, Home
  <2>3. Undisturbed(d)
    <3>1. excused \subseteq excused'
      BY DEF Next, DeliveryStep, Begin, TakeFence, CheckFence, Renew,
         StartApply, Apply, Observe, Record, Confirm, BlockForRecovery, GiveBack, Crash,
         StartRun, Edit, LeaseRunsOut, ReportObserves, Resumption, OtherStep, vars,
         dlvVars
    <3>2. RunOf[d] \notin excused'
      BY DEF Undisturbed
    <3>3. \A r \in Run : phase'[r] = "active" =>
            phase[r] = "active" \/ phase[r] = "absent" \/ r \in excused'
      BY Reactivation
    <3> QED
      BY <3>1, <3>2, <3>3, <2>1, <1>r DEF Undisturbed
  <2>4. HoldsFence(d)
    BY <1>2, <2>3 DEF KeepsInv
  <2>5. token'[d] = token[d]
    BY <1>2 DEF HolderInv, Next, DeliveryStep, Begin, TakeFence, CheckFence, Renew,
       StartApply, Apply, Observe, Record, Confirm, BlockForRecovery, GiveBack, Crash,
       StartRun, Edit, LeaseRunsOut, ReportObserves, Resumption, OtherStep, vars,
       dlvVars, progress
  <2>6. lock'[Home(d)] = lock[Home(d)]
    BY <1>2, <1>r, <2>1, <2>4, LockStays DEF Undisturbed
  <2> QED
    BY <2>2, <2>4, <2>5, <2>6 DEF HoldsFence, Passes, Live, Holds, Lockable, Undisturbed
<1> QED
  BY <1>1, <1>2

(* While no run was blocked and resumed in between, two sessions never apply  *)
(* in one worktree at once, if every dispatcher has a session of its own.     *)
THEOREM ApplyExclusiveCorrect ==
  OneDispatcherPerSession => (Spec => []ApplyExclusiveUntilRecovery)
<1> SUFFICES ASSUME OneDispatcherPerSession
             PROVE  Spec => []ApplyExclusiveUntilRecovery
  OBVIOUS
<1> DEFINE Inv == FenceInv /\ HolderInv /\ KeepsInv
<1>1. Init => Inv
  BY FenceInvInit DEF Init, HolderInv, KeepsInv
<1>2. Inv /\ [Next]_vars => Inv'
  BY Fencing, FenceInvStep, HolderInvStep, KeepsStep
<1>3. Inv => ApplyExclusiveUntilRecovery
  BY DEF KeepsInv, Undisturbed, ApplyExclusiveUntilRecovery, HoldsFence, Passes,
     Holds, Lockable
<1> QED
  BY <1>1, <1>2, <1>3, PTL DEF Spec

-----------------------------------------------------------------------------
(* The run is active and has its workspace, and its fate, to itself. *)
Calm(r) == r \notin excused /\ phase[r] = "active" /\ Alone(r)

Pending(d) == at[d] \in {"applying", "applied", "observed", "failing"}

(* Nothing is unknown but what somebody is about to record. *)
KnownInv(r) ==
  tree[place[r]] # known[r] => \E d \in Delivery : RunOf[d] = r /\ Pending(d)

(* What a dispatcher has seen, and may record, is still there, or somebody    *)
(* else has come in and is about to record that, or to block the run.         *)
SeenInv(r) ==
  \A d \in Delivery : (RunOf[d] = r /\ at[d] = "observed" /\ RunUnchanged(d)) =>
    \/ seen[d] = tree[place[r]]
    \/ \E e \in Delivery \ {d} : RunOf[e] = r /\ Pending(e)

(* Snapshots are of the past, and an apply is known to have been attempted.   *)
PreparedInv ==
  /\ DOMAIN tree = Workspace /\ DOMAIN known = Run /\ DOMAIN touched = Delivery
  /\ \A d \in Delivery :
       /\ at[d] # "idle" => expect[d].revision <= revision[RunOf[d]]
       /\ at[d] = "applying" => touched[d]

CalmInv == PreparedInv /\ \A r \in Run : Calm(r) => KnownInv(r) /\ SeenInv(r)

(* Calm is never restored: it only begins, with the run. *)
LEMMA CalmBefore ==
  ASSUME FenceInv, HolderInv, [Next]_vars, NEW r \in Run, Calm(r)', phase[r] # "absent"
  PROVE  Calm(r) /\ place'[r] = place[r] /\ place[r] \in Workspace
<1>1. excused \subseteq excused'
  BY DEF Next, DeliveryStep, Begin, TakeFence, CheckFence, Renew, StartApply, Apply,
     Observe, Record, Confirm, BlockForRecovery, GiveBack, Crash, StartRun, Edit,
     LeaseRunsOut, ReportObserves, Resumption, OtherStep, vars, dlvVars
<1>2. phase[r] = "active"
  BY Reactivation DEF Calm, FenceInv
<1>3. place'[r] = place[r] /\ place[r] # None /\ place[r] \in Workspace
  BY Fencing DEF Stays, FenceInv, FenceTypeOK, PlaceInv
<1>4. Alone(r)
  <2> SUFFICES ASSUME NEW q \in Run, place[q] = place[r] PROVE q = r
    BY DEF Alone
  <2>1. phase[q] # "absent"
    BY <1>3 DEF FenceInv, PlaceInv
  <2> QED
    BY <2>1, <1>3, Fencing DEF Stays, Calm, Alone
<1> QED
  BY <1>1, <1>2, <1>3, <1>4 DEF Calm

(* A step that is none of the run's business keeps what is said of it. *)
LEMMA Undisturbing ==
  ASSUME NEW r \in Run, KnownInv(r), SeenInv(r), place'[r] = place[r],
         tree'[place[r]] = tree[place[r]], known'[r] = known[r],
         revision'[r] = revision[r],
         \A d \in Delivery : RunOf[d] = r =>
           /\ Pending(d) => Pending(d)'
           /\ at'[d] = "observed" =>
                at[d] = "observed" /\ expect'[d] = expect[d] /\ seen'[d] = seen[d]
  PROVE  KnownInv(r)' /\ SeenInv(r)'
<1>1. KnownInv(r)'
  BY DEF KnownInv
<1>2. SeenInv(r)'
  <2> SUFFICES ASSUME NEW d \in Delivery, RunOf[d] = r, at'[d] = "observed",
                      RunUnchanged(d)'
               PROVE  \/ seen'[d] = tree'[place'[r]]
                      \/ \E e \in Delivery \ {d} : RunOf[e] = r /\ Pending(e)'
    BY DEF SeenInv
  <2>1. /\ at[d] = "observed" /\ RunUnchanged(d)
        /\ seen'[d] = seen[d] /\ tree'[place'[r]] = tree[place[r]]
    BY DEF RunUnchanged
  <2>2. seen[d] = tree[place[r]] \/ \E e \in Delivery \ {d} : RunOf[e] = r /\ Pending(e)
    BY <2>1 DEF SeenInv
  <2> QED
    BY <2>1, <2>2
<1> QED
  BY <1>1, <1>2

(* With a revision more, no dispatcher that looked before may record. *)
LEMMA Outdated ==
  ASSUME PreparedInv, DeliveryVarsOK, NEW r \in Run, revision'[r] = revision[r] + 1,
         \A d \in Delivery : at'[d] = "observed" =>
           at[d] = "observed" /\ expect'[d] = expect[d]
  PROVE  SeenInv(r)'
<1> SUFFICES ASSUME NEW d \in Delivery, RunOf[d] = r, at'[d] = "observed",
                    RunUnchanged(d)'
             PROVE  FALSE
  BY DEF SeenInv
<1>1. expect[d].revision <= revision[r] /\ expect[d].revision \in Int /\ revision[r] \in Int
  BY DEF PreparedInv, DeliveryVarsOK
<1> QED
  BY <1>1 DEF RunUnchanged

(* The steps of a dispatcher of the run. *)
LEMMA OwnStep ==
  ASSUME FenceInv, HolderInv, DeliveryInv, PreparedInv,
         NEW d \in Delivery, DeliveryStep(d), NEW r \in Run, r = RunOf[d],
         Calm(r), Calm(r)', KnownInv(r), SeenInv(r),
         place'[r] = place[r], place[r] \in Workspace
  PROVE  KnownInv(r)' /\ SeenInv(r)'
<1> USE DEF DeliveryInv, DeliveryVarsOK, PreparedInv
<1>1. CASE \/ Begin(d) \/ TakeFence(d) \/ CheckFence(d) \/ Renew(d) \/ StartApply(d)
           \/ Confirm(d) \/ GiveBack(d)
  <2>1. /\ UNCHANGED <<tree, known, revision, seen>> /\ ~Pending(d)
        /\ at'[d] # "observed" /\ \A e \in Delivery \ {d} : expect'[e] = expect[e]
        /\ \A e \in Delivery \ {d} : at'[e] = at[e]
    BY <1>1 DEF Begin, TakeFence, CheckFence, Renew, StartApply, Confirm, GiveBack,
       Go, Pending
  <2> QED
    BY <2>1, Undisturbing DEF Pending
<1>2. CASE Apply(d)
  <2>1. /\ UNCHANGED <<known, revision, seen, expect>>
        /\ Pending(d)' /\ at'[d] # "observed" /\ at[d] # "observed"
        /\ \A e \in Delivery \ {d} : at'[e] = at[e]
    BY <1>2 DEF Apply, Go, Pending
  <2>2. KnownInv(r)'
    BY <2>1 DEF KnownInv
  <2>3. SeenInv(r)'
    BY <2>1 DEF SeenInv
  <2> QED
    BY <2>2, <2>3
<1>3. CASE Observe(d)
  <2>1. /\ UNCHANGED <<tree, known, revision, expect>>
        /\ Pending(d) /\ Pending(d)'
        /\ seen'[d] = tree[place[r]]
        /\ \A e \in Delivery \ {d} : at'[e] = at[e] /\ seen'[e] = seen[e]
    BY <1>3 DEF Observe, Go, Pending, Home
  <2>2. KnownInv(r)'
    BY <2>1 DEF KnownInv
  <2>3. SeenInv(r)'
    BY <2>1 DEF SeenInv, RunUnchanged, Pending
  <2> QED
    BY <2>2, <2>3
<1>4. CASE Record(d) /\ CasHolds(d)
  <2>1. /\ UNCHANGED <<tree, seen, expect>>
        /\ revision'[r] = revision[r] + 1
        /\ known'[r] = seen[d]
        /\ at[d] = "observed" /\ RunUnchanged(d) /\ at'[d] = "recorded"
        /\ \A e \in Delivery \ {d} : at'[e] = at[e]
    BY <1>4 DEF Record, Go, CasHolds
  <2>2. KnownInv(r)'
    BY <2>1 DEF KnownInv, SeenInv, Pending
  <2>3. SeenInv(r)'
    BY <2>1, Outdated
  <2> QED
    BY <2>2, <2>3
<1>5. CASE Record(d) /\ ~CasHolds(d)
  <2>1. /\ UNCHANGED <<tree, known, revision, seen, expect>>
        /\ at'[d] = "failing" /\ \A e \in Delivery \ {d} : at'[e] = at[e]
    BY <1>5 DEF Record, Go
  <2> QED
    BY <2>1, Undisturbing DEF Pending
<1>6. CASE BlockForRecovery(d)
  BY <1>6 DEF BlockForRecovery, Settle, Calm, FenceInv, FenceTypeOK
<1>7. CASE Crash(d)
  BY <1>7 DEF Crash, Calm
<1> QED
  BY <1>1, <1>2, <1>3, <1>4, <1>5, <1>6, <1>7 DEF DeliveryStep

(* The steps of anybody else. *)
LEMMA OthersStep ==
  ASSUME FenceInv, HolderInv, DeliveryInv, PreparedInv, [Next]_vars,
         NEW r \in Run, \A d \in Delivery : DeliveryStep(d) => RunOf[d] # r,
         Calm(r), Calm(r)', KnownInv(r), SeenInv(r),
         phase[r] # "absent", place'[r] = place[r], place[r] \in Workspace
  PROVE  KnownInv(r)' /\ SeenInv(r)'
<1> USE DEF DeliveryInv, DeliveryVarsOK, PreparedInv
<1>1. ASSUME NEW d \in Delivery, DeliveryStep(d), RunOf[d] # r
      PROVE  KnownInv(r)' /\ SeenInv(r)'
  <2>1. RunOf[d] \in Run /\ Home(d) # place[r]
    BY <1>1, DeliveryAssumption DEF Calm, Alone, Home
  <2>2. /\ tree'[place[r]] = tree[place[r]]
        /\ known'[r] = known[r] /\ revision'[r] = revision[r]
    BY <1>1, <2>1 DEF DeliveryStep, Begin, TakeFence, CheckFence, Renew, StartApply,
       Apply, Observe, Record, Confirm, BlockForRecovery, GiveBack, Crash
  <2>3. \A e \in Delivery \ {d} :
          at'[e] = at[e] /\ expect'[e] = expect[e] /\ seen'[e] = seen[e]
    BY <1>1 DEF DeliveryStep, Begin, TakeFence, CheckFence, Renew, StartApply,
       Apply, Observe, Record, Confirm, BlockForRecovery, GiveBack, Crash, Go
  <2> QED
    BY <1>1, <2>2, <2>3, Undisturbing DEF Pending
<1>2. ASSUME UNCHANGED progress, revision'[r] = revision[r], known'[r] = known[r],
             tree'[place[r]] = tree[place[r]]
      PROVE  KnownInv(r)' /\ SeenInv(r)'
  BY <1>2, Undisturbing DEF progress, Pending
<1>3. ASSUME NEW q \in Run, NEW w \in Workspace, StartRun(q, w)
      PROVE  KnownInv(r)' /\ SeenInv(r)'
  BY <1>2, <1>3 DEF StartRun, Start
<1>4. ASSUME NEW w \in Workspace, Edit(w) PROVE KnownInv(r)' /\ SeenInv(r)'
  <2>1. w # place[r]
    BY <1>4 DEF Edit, Calm
  <2> QED
    BY <1>2, <1>4, <2>1 DEF Edit
<1>5. ASSUME NEW q \in Run, ReportObserves(q) PROVE KnownInv(r)' /\ SeenInv(r)'
  <2>1. CASE q # r
    BY <1>2, <1>5, <2>1 DEF ReportObserves
  <2>2. CASE q = r
    <3>1. /\ known'[r] = tree[place[r]] /\ UNCHANGED <<tree, progress>>
          /\ revision'[r] = revision[r] + 1
      BY <1>5, <2>2 DEF ReportObserves
    <3>2. KnownInv(r)'
      BY <3>1 DEF KnownInv
    <3>3. SeenInv(r)'
      BY <3>1, Outdated DEF progress
    <3> QED
      BY <3>2, <3>3
  <2> QED
    BY <2>1, <2>2
<1>6. CASE UNCHANGED dlvVars
  BY <1>2, <1>6 DEF dlvVars, progress
<1>7. ASSUME NEW q \in Run, Resumption(q) PROVE KnownInv(r)' /\ SeenInv(r)'
  BY <1>2, <1>7 DEF Resumption
<1> QED
  BY <1>1, <1>3, <1>4, <1>5, <1>6, <1>7 DEF Next, LeaseRunsOut, OtherStep, vars

LEMMA PreparedStep ==
  ASSUME HolderInv, DeliveryInv, PreparedInv, [Next]_vars
  PROVE  PreparedInv'
<1> USE DEF DeliveryInv, DeliveryVarsOK
<1>1. /\ DOMAIN tree' = Workspace /\ DOMAIN known' = Run /\ DOMAIN touched' = Delivery
  BY DEF PreparedInv, Next, DeliveryStep, Begin, TakeFence, CheckFence, Renew,
     StartApply, Apply, Observe, Record, Confirm, BlockForRecovery, GiveBack, Crash,
     StartRun, Edit, LeaseRunsOut, ReportObserves, Resumption, OtherStep, vars,
     dlvVars, progress
<1>2. \A d \in Delivery : at'[d] = "applying" => touched'[d]
  BY <1>1 DEF PreparedInv, Next, DeliveryStep, Begin, TakeFence, CheckFence, Renew,
     StartApply, Apply, Observe, Record, Confirm, BlockForRecovery, GiveBack, Crash,
     StartRun, Edit, LeaseRunsOut, ReportObserves, Resumption, OtherStep, vars,
     dlvVars, progress, Go, TouchedByApply
<1>3. ASSUME NEW d \in Delivery, at'[d] # "idle"
      PROVE  expect'[d].revision <= revision'[RunOf[d]]
  <2>1. RunOf[d] \in Run /\ MaxRevision \in Nat
    BY DeliveryAssumption
  <2>2. revision[RunOf[d]] \in Int /\ revision'[RunOf[d]] \in Int
    BY <2>1, DeliveryInvStep
  <2>3. revision[RunOf[d]] <= revision'[RunOf[d]]
    <3>1. ASSUME NEW q \in Run, revision' = [revision EXCEPT ![q] = @ + 1]
          PROVE  revision[RunOf[d]] <= revision'[RunOf[d]]
      BY <2>1, <2>2, <3>1
    <3>2. CASE UNCHANGED revision
      BY <2>2, <3>2
    <3> QED
      BY <3>1, <3>2, DeliveryAssumption
      DEF Next, DeliveryStep, Begin, TakeFence, CheckFence, Renew,
          StartApply, Apply, Observe, Record, Confirm, BlockForRecovery, GiveBack, Crash,
          StartRun, Edit, LeaseRunsOut, ReportObserves, Resumption, OtherStep, vars,
          dlvVars, progress
  <2>4. CASE Begin(d)
    BY <2>1, <2>2, <2>4 DEF Begin
  <2>5. CASE at[d] # "idle" /\ expect'[d] = expect[d]
    BY <2>2, <2>3, <2>5 DEF PreparedInv
  <2>6. Begin(d) \/ (at[d] # "idle" /\ expect'[d] = expect[d])
    BY <1>3 DEF Next, DeliveryStep, Begin, TakeFence, CheckFence, Renew,
       StartApply, Apply, Observe, Record, Confirm, BlockForRecovery, GiveBack, Crash,
       StartRun, Edit, LeaseRunsOut, ReportObserves, Resumption, OtherStep, vars,
       dlvVars, progress, Go
  <2> QED
    BY <2>4, <2>5, <2>6
<1> QED
  BY <1>1, <1>2, <1>3 DEF PreparedInv

(* A run that is active and was absent has just been started. *)
LEMMA StartedNow ==
  ASSUME FenceTypeOK, [Next]_vars, NEW r \in Run, phase[r] = "absent",
         phase'[r] = "active"
  PROVE  \E w \in Workspace : StartRun(r, w)
<1> USE DEF FenceTypeOK
<1>1. ASSUME NEW q \in Run, NEW status \in {"blocked", "ended"}, Settle(q, status)
      PROVE  FALSE
  BY <1>1 DEF Settle
<1>2. ASSUME NEW q \in Run, Resumption(q) \/ Abandon(q) PROVE FALSE
  BY <1>2 DEF Resumption, Resume, Abandon
<1>3. ASSUME NEW d \in Delivery, TakeFence(d) PROVE FALSE
  BY <1>3 DEF TakeFence, Acquire, fenceVars
<1>4. ASSUME NEW d \in Delivery, BlockForRecovery(d) \/ GiveBack(d) PROVE FALSE
  BY <1>1, <1>4, DeliveryAssumption DEF BlockForRecovery, GiveBack, Release, fenceVars
<1>5. CASE UNCHANGED phase
  BY <1>5
<1>6. ASSUME NEW q \in Run, NEW w \in Workspace, StartRun(q, w) PROVE q = r
  BY <1>6 DEF StartRun, Start
<1> QED
  BY <1>1, <1>2, <1>3, <1>4, <1>5, <1>6
  DEF Next, DeliveryStep, Begin, CheckFence, Renew, StartApply, Apply, Observe,
      Record, Confirm, Crash, Edit, ReportObserves, OtherStep, LeaseRunsOut, Expire,
      OpenProject, vars, fenceVars

LEMMA CalmStep ==
  ASSUME FenceInv, HolderInv, DeliveryInv, CalmInv, [Next]_vars
  PROVE  CalmInv'
<1>1. PreparedInv'
  BY PreparedStep DEF CalmInv
<1>2. ASSUME NEW r \in Run, Calm(r)' PROVE KnownInv(r)' /\ SeenInv(r)'
  <2>1. CASE phase[r] = "absent"
    <3>1. PICK w \in Workspace : StartRun(r, w)
      BY <1>2, <2>1, StartedNow DEF Calm, FenceInv
    <3>2. tree' = tree /\ known'[r] = tree[w] /\ place'[r] = w /\ UNCHANGED at
      BY <3>1 DEF StartRun, Start, progress, CalmInv, PreparedInv, FenceInv, FenceTypeOK
    <3>3. \A d \in Delivery : RunOf[d] = r => at'[d] = "idle"
      BY <2>1, <3>2 DEF HolderInv
    <3> QED
      BY <3>2, <3>3 DEF KnownInv, SeenInv
  <2>2. CASE phase[r] # "absent"
    <3>1. Calm(r) /\ place'[r] = place[r] /\ place[r] \in Workspace
      BY <1>2, <2>2, CalmBefore
    <3>2. CASE \E d \in Delivery : DeliveryStep(d) /\ RunOf[d] = r
      BY <1>2, <3>1, <3>2, OwnStep DEF CalmInv
    <3>3. CASE \A d \in Delivery : DeliveryStep(d) => RunOf[d] # r
      BY <1>2, <2>2, <3>1, <3>3, OthersStep DEF CalmInv
    <3> QED
      BY <3>2, <3>3
  <2> QED
    BY <2>1, <2>2
<1> QED
  BY <1>1, <1>2 DEF CalmInv

(* No bytes of an apply stay unnoticed. *)
THEOREM UnrecordedIsPendingCorrect == Spec => []UnrecordedIsPending
<1> DEFINE Inv == FenceInv /\ HolderInv /\ DeliveryInv /\ CalmInv
<1>1. Init => Inv
  <2>1. Init => FenceInv /\ HolderInv /\ DeliveryInv
    BY FenceInvInit, DeliveryInvInit DEF Init, HolderInv
  <2>2. Init => CalmInv
    BY DEF Init, FenceInit, CalmInv, PreparedInv, Calm
  <2> QED
    BY <2>1, <2>2
<1>2. Inv /\ [Next]_vars => Inv'
  BY Fencing, FenceInvStep, HolderInvStep, DeliveryInvStep, CalmStep
<1>3. Inv => UnrecordedIsPending
  BY DEF CalmInv, Calm, KnownInv, Pending, UnrecordedIsPending
<1> QED
  BY <1>1, <1>2, <1>3, PTL DEF Spec

=============================================================================
