------------------------------ MODULE RunLease ------------------------------
(***************************************************************************)
(* The lease of one run: a command of the control plane takes it before it  *)
(* works on the run, looks at it once more before it finalizes, and gives   *)
(* it back; a resume takes it and leaves it.  It is one row of SQLite       *)
(* (holder, owner pid, fencing token, expiry), read and written by          *)
(* statements of their own: other processes may come between any two of     *)
(* them, other commands of the same process only where the code awaits.     *)
(*                                                                         *)
(* A process id is not reused.  What the command does to the run meanwhile  *)
(* is the subject of Finalization.                                          *)
(***************************************************************************)
EXTENDS Naturals

CONSTANTS
  Command,      \* commands on the run, each in a process and under a session
  Resume,       \* those that are `resume'; the others are reports
  Process,
  Holder,       \* sessions: the holder strings
  PidOf,
  HolderOf,
  MaxToken,     \* bound: fencing tokens
  NoRow

ASSUME LeaseAssumption ==
  /\ Resume \subseteq Command
  /\ PidOf \in [Command -> Process]
  /\ HolderOf \in [Command -> Holder]
  /\ MaxToken \in Nat \ {0}
  /\ NoRow \notin [by : Command, token : 1..MaxToken, live : BOOLEAN]

VARIABLES
  row,         \* the lease; its holder and owner pid are those of its writer
  at,          \* where each command is
  seen,        \* fencing token of the row its acquire read, 0 for none
  token,       \* fencing token it acquired
  alive,       \* running processes
  superseded,  \* history: commands at work whose lease another has taken over
  raced,       \* history: a command read the lease while another was deciding
  expired      \* history: a lease ran out

history == <<raced, expired>>
vars == <<row, at, seen, token, alive, superseded, raced, expired>>

Lease == [by : Command, token : 1..MaxToken, live : BOOLEAN]

Places == {"idle", "deciding", "written", "working", "finalizing", "leaving",
           "deleting", "dead"}

\* Where a command does not await: no other of its process takes a turn.
Synchronous == {"deciding", "written", "deleting"}

LeaseTypeOK ==
  /\ row \in Lease \cup {NoRow}
  /\ at \in [Command -> Places]
  /\ seen \in [Command -> 0..MaxToken]
  /\ token \in [Command -> 0..MaxToken]
  /\ alive \subseteq Process
  /\ superseded \subseteq Command
  /\ raced \in BOOLEAN
  /\ expired \in BOOLEAN

Init ==
  /\ row = NoRow
  /\ at = [c \in Command |-> "idle"]
  /\ seen = [c \in Command |-> 0]
  /\ token = [c \in Command |-> 0]
  /\ alive = Process
  /\ superseded = {}
  /\ raced = FALSE
  /\ expired = FALSE

Turn(c) ==
  \A d \in Command \ {c} : PidOf[d] = PidOf[c] => at[d] \notin Synchronous

Go(c, from, to) == at[c] = from /\ at' = [at EXCEPT ![c] = to]

TokenIn(lease) == IF lease = NoRow THEN 0 ELSE lease.token

-----------------------------------------------------------------------------
(* acquireLease: a read, a decision and an upsert, in no transaction.         *)

ConflictOfHolders(c) ==  \* mutant: the pid of a shared holder is not looked at
  /\ row # NoRow
  /\ row.live
  /\ HolderOf[row.by] # HolderOf[c]
ConflictForEver(c) ==  \* mutant: an expired lease is still in the way
  /\ row # NoRow
  /\ \/ HolderOf[row.by] # HolderOf[c]
     \/ PidOf[row.by] # PidOf[c] /\ PidOf[row.by] \in alive

(* A live lease is in the way when its holder is another, or the same in      *)
(* another process that still runs.                                           *)
Conflict(c) ==
  /\ row # NoRow
  /\ row.live
  /\ \/ HolderOf[row.by] # HolderOf[c]
     \/ PidOf[row.by] # PidOf[c] /\ PidOf[row.by] \in alive

(* The read of a command that is not refused; a refused one answers           *)
(* `lease-conflict' and changes nothing.                                      *)
ReadLease(c) ==
  /\ ~Conflict(c)
  /\ Turn(c)
  /\ TokenIn(row) < MaxToken
  /\ Go(c, "idle", "deciding")
  /\ seen' = [seen EXCEPT ![c] = TokenIn(row)]
  /\ raced' = (raced \/ \E d \in Command : at[d] = "deciding")
  /\ UNCHANGED <<row, token, alive, superseded, expired>>

NextToken(c) == seen[c] + 1

(* recordLease: the upsert does not look at what it replaces. *)
WriteLease(c) ==
  /\ Go(c, "deciding", "written")
  /\ row' = [by |-> c, token |-> NextToken(c), live |-> TRUE]
  /\ superseded' =
       (superseded \cup {d \in Command : at[d] = "working" /\ row # NoRow /\ row.by = d}) \ {c}
  /\ UNCHANGED <<seen, token, alive, history>>

(* recordLease answers with the row it finds, whoever wrote it ... *)
ReadBack(c) ==
  /\ row # NoRow
  /\ Go(c, "written", IF c \in Resume THEN "idle" ELSE "working")
  /\ token' = [token EXCEPT ![c] = row.token]
  /\ UNCHANGED <<row, seen, alive, superseded, history>>

(* ... and throws when there is none. *)
LostAtOnce(c) ==
  /\ row = NoRow
  /\ Go(c, "written", "idle")
  /\ UNCHANGED <<row, seen, token, alive, superseded, history>>

-----------------------------------------------------------------------------
(* The command and its end. *)

HoldsLive(c) ==  \* mutant: only a lease that has not run out is released
  /\ row # NoRow
  /\ row.live
  /\ HolderOf[row.by] = HolderOf[c]
  /\ row.token = token[c]
Holds(c) ==
  /\ row # NoRow
  /\ HolderOf[row.by] = HolderOf[c]
  /\ row.token = token[c]

(* isLeaseHeld, before finalizeRun. *)
BeginFinalize(c) ==
  /\ Holds(c)
  /\ row.live
  /\ Turn(c)
  /\ Go(c, "working", "finalizing")
  /\ UNCHANGED <<row, seen, token, alive, superseded, history>>

(* A report that has nothing to finalize, may not, fails, or has finalized.   *)
Conclude(c) ==
  /\ Turn(c)
  /\ Go(c, "working", "leaving") \/ Go(c, "finalizing", "leaving")
  /\ UNCHANGED <<row, seen, token, alive, superseded, history>>

(* releaseLease, again a read and a write of their own. *)
CheckRelease(c) ==
  /\ Turn(c)
  /\ Go(c, "leaving", IF Holds(c) THEN "deleting" ELSE "idle")
  /\ UNCHANGED <<row, seen, token, alive, superseded, history>>

(* deleteLease: the statement names the holder and not the token. *)
DeleteLease(c) ==
  /\ Go(c, "deleting", "idle")
  /\ row' = IF row # NoRow /\ HolderOf[row.by] = HolderOf[c] THEN NoRow ELSE row
  /\ UNCHANGED <<seen, token, alive, superseded, history>>

-----------------------------------------------------------------------------
(* The lease runs out. *)
Expire ==
  /\ row # NoRow
  /\ row.live
  /\ row' = [row EXCEPT !.live = FALSE]
  /\ expired' = TRUE
  /\ UNCHANGED <<at, seen, token, alive, superseded, raced>>

(* A process ends, by itself or not, with the commands it was at. *)
Exit(p) ==
  /\ p \in alive
  /\ alive' = alive \ {p}
  /\ at' = [c \in Command |-> IF PidOf[c] = p THEN "dead" ELSE at[c]]
  /\ UNCHANGED <<row, seen, token, superseded, history>>

Step(c) ==
  \/ ReadLease(c) \/ WriteLease(c) \/ ReadBack(c) \/ LostAtOnce(c)
  \/ BeginFinalize(c) \/ Conclude(c) \/ CheckRelease(c) \/ DeleteLease(c)

Next ==
  \/ \E c \in Command : Step(c)
  \/ Expire
  \/ \E p \in Process : Exit(p)

Spec == Init /\ [][Next]_vars

(* A command that was begun goes on while its process runs; nothing makes a   *)
(* session begin one.                                                         *)
EndsStep(c) == WriteLease(c) \/ ReadBack(c) \/ LostAtOnce(c) \/ Conclude(c)
               \/ CheckRelease(c) \/ DeleteLease(c)

FairSpec == Spec /\ WF_vars(Expire) /\ \A c \in Command : WF_vars(EndsStep(c))

-----------------------------------------------------------------------------
(* A report leaves no lease behind (state-store.ts:4314): a lease whose       *)
(* writer is not in the middle of its command is that of a resume or of a     *)
(* process that ended.  What may go wrong is an expiry, a takeover or another *)
(* acquire or release between any two statements of the writer's own acquire  *)
(* and release.                                                               *)
LeaseIsInUse ==
  row # NoRow =>
    \/ row.by \in Resume
    \/ at[row.by] \in {"written", "deleting", "dead"}
    \/ at[row.by] \in {"working", "finalizing", "leaving"} /\ token[row.by] = row.token

(* At most one command finalizes (control-plane.ts:4362, 5279), sessions that *)
(* share their holder string included, whatever process ends, as long as no   *)
(* acquire was crossed by another's between its read and its write and no     *)
(* lease ran out: nothing else takes the run from under a finalization.       *)
OneFinalizer ==
  ~raced /\ ~expired =>
    \A c, d \in Command : at[c] = "finalizing" /\ at[d] = "finalizing" => c = d

(* No session is locked out of the run for ever (control-plane.ts:4375):      *)
(* again and again, a command of any session would be admitted, whatever      *)
(* process ended in the middle of what and whatever resume left its lease,    *)
(* unless other sessions begin commands without end.                          *)
LeaseComesFree ==
  \A c \in Command :
    \/ []<>~Conflict(c)
    \/ []<><<\E d \in Command : ReadLease(d)>>_vars

(* Violated: a command whose lease was taken over while it was paused does    *)
(* not begin to finalize (state-store.ts:4273), whatever acquires may do that *)
(* do not cross.  The token starts again with every release, which deletes    *)
(* the row.                                                                   *)
SupersededRejected ==
  [][\A c \in superseded :
       ~(~raced /\ at[c] = "working" /\ at'[c] = "finalizing")]_vars

=============================================================================
