--------------------------- MODULE RunLease_proofs ---------------------------
(***************************************************************************)
(* Proofs about the run lease, for any number of commands, processes and    *)
(* sessions.                                                                *)
(***************************************************************************)
EXTENDS RunLease, TLAPS

(* The token a command is about to write stays within the bound, which        *)
(* ReadLease tests two steps earlier: LeaseTypeOK is not inductive without.   *)
TypeInv ==
  /\ LeaseTypeOK
  /\ \A c \in Command : at[c] = "deciding" => seen[c] < MaxToken

LEMMA TypeInit == Init => TypeInv
<1> SUFFICES ASSUME Init
             PROVE  TypeInv
  OBVIOUS
<1>1. raced \in BOOLEAN /\ expired \in BOOLEAN
  BY DEF Init
<1>2. row \in Lease \cup {NoRow} /\ superseded \subseteq Command /\ alive \subseteq Process
  BY DEF Init
<1>3. at \in [Command -> Places] /\ seen \in [Command -> 0..MaxToken]
      /\ token \in [Command -> 0..MaxToken]
  BY LeaseAssumption DEF Init, Places
<1>4. \A c \in Command : at[c] # "deciding"
  BY DEF Init
<1> QED
  BY <1>1, <1>2, <1>3, <1>4 DEF TypeInv, LeaseTypeOK

LEMMA TypeStep == TypeInv /\ [Next]_vars => TypeInv'
<1> SUFFICES ASSUME TypeInv, [Next]_vars
             PROVE  TypeInv'
  OBVIOUS
<1> USE LeaseAssumption DEF TypeInv, LeaseTypeOK, history
<1>1. ASSUME NEW c \in Command, ReadLease(c)
      PROVE  TypeInv'
  BY <1>1 DEF ReadLease, Go, TokenIn, Lease, Places
<1>2. ASSUME NEW c \in Command, WriteLease(c)
      PROVE  TypeInv'
  <2>1. row' \in Lease
    BY <1>2 DEF WriteLease, Go, NextToken, Lease
  <2> QED
    BY <1>2, <2>1 DEF WriteLease, Go, Places
<1>3. ASSUME NEW c \in Command, ReadBack(c)
      PROVE  TypeInv'
  BY <1>3 DEF ReadBack, Go, Lease, Places
<1>4. ASSUME NEW c \in Command, LostAtOnce(c)
      PROVE  TypeInv'
  BY <1>4 DEF LostAtOnce, Go, Places
<1>5. ASSUME NEW c \in Command, BeginFinalize(c)
      PROVE  TypeInv'
  BY <1>5 DEF BeginFinalize, Go, Places
<1>6. ASSUME NEW c \in Command, Conclude(c)
      PROVE  TypeInv'
  BY <1>6 DEF Conclude, Go, Places
<1>7. ASSUME NEW c \in Command, CheckRelease(c)
      PROVE  TypeInv'
  BY <1>7 DEF CheckRelease, Go, Places
<1>8. ASSUME NEW c \in Command, DeleteLease(c)
      PROVE  TypeInv'
  BY <1>8 DEF DeleteLease, Go, Places
<1>9. CASE Expire
  <2>1. row' \in Lease
    BY <1>9 DEF Expire, Lease
  <2> QED
    BY <1>9, <2>1 DEF Expire
<1>10. ASSUME NEW p \in Process, Exit(p)
       PROVE  TypeInv'
  BY <1>10 DEF Exit, Places
<1>11. CASE UNCHANGED vars
  BY <1>11 DEF vars
<1> QED
  BY <1>1, <1>2, <1>3, <1>4, <1>5, <1>6, <1>7, <1>8, <1>9, <1>10, <1>11
     DEF Next, Step

(* Every reachable lease and command has the shape the schema and the code    *)
(* give it.                                                                   *)
THEOREM LeaseTypeCorrect == Spec => []LeaseTypeOK
<1>1. TypeInv => LeaseTypeOK
  BY DEF TypeInv
<1> QED
  BY TypeInit, TypeStep, <1>1, PTL DEF Spec

-----------------------------------------------------------------------------
LEMMA InUseStep == TypeInv /\ LeaseIsInUse /\ [Next]_vars => LeaseIsInUse'
<1> SUFFICES ASSUME TypeInv, LeaseIsInUse, [Next]_vars
             PROVE  LeaseIsInUse'
  OBVIOUS
<1> USE LeaseAssumption DEF TypeInv, LeaseTypeOK, LeaseIsInUse, Lease
<1>1. ASSUME NEW c \in Command, ReadLease(c)
      PROVE  LeaseIsInUse'
  BY <1>1 DEF ReadLease, Go
<1>2. ASSUME NEW c \in Command, WriteLease(c)
      PROVE  LeaseIsInUse'
  BY <1>2 DEF WriteLease, Go
<1>3. ASSUME NEW c \in Command, ReadBack(c)
      PROVE  LeaseIsInUse'
  BY <1>3 DEF ReadBack, Go
<1>4. ASSUME NEW c \in Command, LostAtOnce(c)
      PROVE  LeaseIsInUse'
  BY <1>4 DEF LostAtOnce
<1>5. ASSUME NEW c \in Command, BeginFinalize(c)
      PROVE  LeaseIsInUse'
  BY <1>5 DEF BeginFinalize, Go
<1>6. ASSUME NEW c \in Command, Conclude(c)
      PROVE  LeaseIsInUse'
  BY <1>6 DEF Conclude, Go
<1>7. ASSUME NEW c \in Command, CheckRelease(c)
      PROVE  LeaseIsInUse'
  \* The only way out of the command that keeps the row: it is not the writer's.
  <2>1. row # NoRow /\ row.by = c /\ c \notin Resume => Holds(c)
    BY <1>7 DEF CheckRelease, Go, Holds
  <2> QED
    BY <1>7, <2>1 DEF CheckRelease, Go
<1>8. ASSUME NEW c \in Command, DeleteLease(c)
      PROVE  LeaseIsInUse'
  BY <1>8 DEF DeleteLease, Go
<1>9. CASE Expire
  BY <1>9 DEF Expire
<1>10. ASSUME NEW p \in Process, Exit(p)
       PROVE  LeaseIsInUse'
  BY <1>10 DEF Exit
<1>11. CASE UNCHANGED vars
  BY <1>11 DEF vars
<1> QED
  BY <1>1, <1>2, <1>3, <1>4, <1>5, <1>6, <1>7, <1>8, <1>9, <1>10, <1>11
     DEF Next, Step

(* A report never leaves its lease behind, however its two statements of      *)
(* acquire and of release are crossed by those of others.                     *)
THEOREM LeaseInUseCorrect == Spec => []LeaseIsInUse
<1>1. Init => LeaseIsInUse
  BY DEF Init, LeaseIsInUse
<1> QED
  BY TypeInit, TypeStep, InUseStep, <1>1, PTL DEF Spec
-----------------------------------------------------------------------------
(* Mutual exclusion, if no process has two commands of one session.  The      *)
(* invariant: until an acquire is crossed or a lease runs out, a command at    *)
(* work is the writer of the row, and the command about to write found nobody *)
(* in its way and still does not, since nobody else can write.                *)
Active == {"written", "working", "finalizing", "leaving", "deleting"}

NoReentry ==
  \A c, d \in Command : PidOf[c] = PidOf[d] /\ HolderOf[c] = HolderOf[d] => c = d

Exclusive ==
  /\ row # NoRow => row.live
  /\ \A c \in Command : at[c] \in Active => row # NoRow /\ row.by = c
  /\ \A c \in Command : at[c] = "deciding" => ~Conflict(c)
  /\ \A c, d \in Command : at[c] = "deciding" /\ at[d] = "deciding" => c = d

ExclusionInv ==
  /\ \A c \in Command : PidOf[c] \notin alive => at[c] = "dead"
  /\ ~raced /\ ~expired => Exclusive

(* A step into a history without a crossing or an expiry comes from one, and  *)
(* is not an expiry.                                                          *)
LEMMA HistoryStep ==
  ASSUME TypeInv, [Next]_vars, ~raced', ~expired'
  PROVE  ~raced /\ ~expired /\ ~Expire
BY DEF TypeInv, LeaseTypeOK, Next, Step, ReadLease, WriteLease, ReadBack, LostAtOnce,
       BeginFinalize, Conclude, CheckRelease, DeleteLease, Expire, Exit, vars, history

(* A process that ended does not come back, and neither do its commands.      *)
LEMMA DeadStep ==
  ASSUME TypeInv, ExclusionInv, [Next]_vars
  PROVE  \A c \in Command : PidOf[c] \notin alive' => at'[c] = "dead"
BY LeaseAssumption
   DEF TypeInv, LeaseTypeOK, ExclusionInv, Next, Step, ReadLease, WriteLease, ReadBack,
       LostAtOnce, BeginFinalize, Conclude, CheckRelease, DeleteLease, Expire, Exit, Go, vars

LEMMA ExclusiveStep ==
  ASSUME NoReentry, TypeInv, ExclusionInv, Exclusive, [Next]_vars, ~raced', ~Expire
  PROVE  Exclusive'
<1> USE LeaseAssumption DEF TypeInv, LeaseTypeOK, ExclusionInv, Exclusive, Lease, Active
<1>1. ASSUME NEW c \in Command, ReadLease(c)
      PROVE  Exclusive'
  <2>1. \A d \in Command : at[d] # "deciding"
    BY <1>1 DEF ReadLease
  <2> QED
    BY <1>1, <2>1 DEF ReadLease, Go, Conflict
<1>2. ASSUME NEW c \in Command, WriteLease(c)
      PROVE  Exclusive'
  \* Whoever was at work is in the way, or is this very command.
  <2>1. \A d \in Command : at[d] \notin Active
    BY <1>2 DEF WriteLease, Go, Conflict, NoReentry
  <2>2. row' # NoRow /\ row'.by = c /\ row'.live
    <3>1. row' = [by |-> c, token |-> NextToken(c), live |-> TRUE]
      BY <1>2 DEF WriteLease
    <3>2. row' \in [by : Command, token : 1..MaxToken, live : BOOLEAN]
      BY <1>2, <3>1 DEF WriteLease, Go, NextToken
    <3>3. row' # NoRow
      BY <3>2
    <3> QED
      BY <3>1, <3>3
  <2>3. /\ at[c] = "deciding" /\ at' = [at EXCEPT ![c] = "written"]
        /\ alive' = alive
    BY <1>2 DEF WriteLease, Go
  <2>4. \A d \in Command : at'[d] # "deciding"
    BY <2>3
  <2>5. \A d \in Command : at'[d] \in Active => d = c
    BY <2>1, <2>3
  <2> QED
    BY <2>2, <2>3, <2>4, <2>5
<1>3. ASSUME NEW c \in Command, ReadBack(c)
      PROVE  Exclusive'
  BY <1>3 DEF ReadBack, Go, Conflict
<1>4. ASSUME NEW c \in Command, LostAtOnce(c)
      PROVE  Exclusive'
  BY <1>4 DEF LostAtOnce, Go, Conflict
<1>5. ASSUME NEW c \in Command, BeginFinalize(c)
      PROVE  Exclusive'
  BY <1>5 DEF BeginFinalize, Go, Conflict
<1>6. ASSUME NEW c \in Command, Conclude(c)
      PROVE  Exclusive'
  BY <1>6 DEF Conclude, Go, Conflict
<1>7. ASSUME NEW c \in Command, CheckRelease(c)
      PROVE  Exclusive'
  BY <1>7 DEF CheckRelease, Go, Conflict
<1>8. ASSUME NEW c \in Command, DeleteLease(c)
      PROVE  Exclusive'
  BY <1>8 DEF DeleteLease, Go, Conflict
<1>9. ASSUME NEW p \in Process, Exit(p)
      PROVE  Exclusive'
  BY <1>9 DEF Exit, Conflict
<1>10. CASE UNCHANGED vars
  BY <1>10 DEF vars, Conflict
<1> QED
  BY <1>1, <1>2, <1>3, <1>4, <1>5, <1>6, <1>7, <1>8, <1>9, <1>10
     DEF Next, Step

(* What the lease promises: as long as no acquire is crossed by another and   *)
(* no lease runs out, no two commands finalize one run, for any number of     *)
(* commands, processes and sessions, whatever process ends.                   *)
THEOREM OneFinalizerCorrect ==
  ASSUME NoReentry
  PROVE  Spec => []OneFinalizer
<1>1. Init => ExclusionInv
  BY LeaseAssumption DEF Init, ExclusionInv, Exclusive, Active
<1>2. TypeInv /\ ExclusionInv /\ [Next]_vars => ExclusionInv'
  <2> SUFFICES ASSUME TypeInv, ExclusionInv, [Next]_vars
               PROVE  ExclusionInv'
    OBVIOUS
  <2>1. ASSUME ~raced', ~expired'
        PROVE  Exclusive'
    <3>1. ~raced /\ ~expired /\ ~Expire
      BY <2>1, HistoryStep
    <3>2. Exclusive
      BY <3>1 DEF ExclusionInv
    <3> QED
      BY <2>1, <3>1, <3>2, ExclusiveStep
  <2> QED
    BY <2>1, DeadStep DEF ExclusionInv
<1>3. ExclusionInv => OneFinalizer
  BY DEF ExclusionInv, Exclusive, OneFinalizer, Active
<1> QED
  BY TypeInit, TypeStep, <1>1, <1>2, <1>3, PTL DEF Spec
=============================================================================
