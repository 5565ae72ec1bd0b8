----------------------------- MODULE OneOutcome -----------------------------
(***************************************************************************)
(* What a report operation promises its caller: an operation is for one    *)
(* payload, has at most one outcome, and every answer ever given for it,   *)
(* by whichever process and after however many retransmissions, is that    *)
(* outcome.                                                                *)
(***************************************************************************)
CONSTANTS Operation, Payload, Outcome, None

VARIABLES
  submitted,  \* the payload an operation is bound to, None before
  outcome,    \* its outcome, None while it is in progress
  answered    \* the answers given: pairs of operation and outcome

vars == <<submitted, outcome, answered>>

Init ==
  /\ submitted = [o \in Operation |-> None]
  /\ outcome = [o \in Operation |-> None]
  /\ answered = {}

Submit(o, p) ==
  /\ submitted[o] = None
  /\ submitted' = [submitted EXCEPT ![o] = p]
  /\ UNCHANGED <<outcome, answered>>

Decide(o, r) ==
  /\ submitted[o] # None
  /\ outcome[o] = None
  /\ outcome' = [outcome EXCEPT ![o] = r]
  /\ UNCHANGED <<submitted, answered>>

Answer(o) ==
  /\ outcome[o] # None
  /\ answered' = answered \cup {[operation |-> o, outcome |-> outcome[o]]}
  /\ UNCHANGED <<submitted, outcome>>

(* An outcome that is decided and handed out in one step. *)
DecideAndAnswer(o, r) ==
  /\ submitted[o] # None
  /\ outcome[o] = None
  /\ outcome' = [outcome EXCEPT ![o] = r]
  /\ answered' = answered \cup {[operation |-> o, outcome |-> r]}
  /\ UNCHANGED submitted

Next ==
  \E o \in Operation :
    \/ \E p \in Payload : Submit(o, p)
    \/ \E r \in Outcome : Decide(o, r) \/ DecideAndAnswer(o, r)
    \/ Answer(o)

Spec == Init /\ [][Next]_vars

=============================================================================
