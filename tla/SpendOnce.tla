----------------------------- MODULE SpendOnce ------------------------------
(***************************************************************************)
(* What zkapi-serverd promises about a nullifier, whatever endpoint it is  *)
(* presented to and however the server is interrupted: it is used up once, *)
(* either by one paid request, which fixes one charge and one signed next  *)
(* state for good, or by one withdrawal clearance; and nobody learns an    *)
(* outcome that was not fixed before.                                      *)
(***************************************************************************)
EXTENDS Naturals

CONSTANTS
  Nullifiers,
  Outcomes     \* records with the fields charge and state, state > 0

VARIABLES
  ledger,      \* "unused", "reserved", "spent" or "closed"
  outcome,     \* the charge and next state of each spent nullifier
  answered,    \* the outcomes callers have learnt
  released     \* the nullifiers whose clearance callers hold

vars == <<ledger, outcome, answered, released>>

NoOutcome == [charge |-> 0, state |-> 0]

Init ==
  /\ ledger = [n \in Nullifiers |-> "unused"]
  /\ outcome = [n \in Nullifiers |-> NoOutcome]
  /\ answered = {}
  /\ released = {}

Reserve(n) ==
  /\ ledger[n] = "unused"
  /\ ledger' = [ledger EXCEPT ![n] = "reserved"]
  /\ UNCHANGED <<outcome, answered, released>>

\* The next state is new, and the caller may learn of it at once.
Spend(n, o) ==
  /\ ledger[n] = "reserved"
  /\ \A m \in Nullifiers : outcome[m].state # o.state
  /\ ledger' = [ledger EXCEPT ![n] = "spent"]
  /\ outcome' = [outcome EXCEPT ![n] = o]
  /\ answered' \in {answered, answered \cup {<<n, o>>}}
  /\ UNCHANGED released

Close(n) ==
  /\ ledger[n] = "unused"
  /\ ledger' = [ledger EXCEPT ![n] = "closed"]
  /\ released' \in {released, released \cup {n}}
  /\ UNCHANGED <<outcome, answered>>

Answer(n) ==
  /\ ledger[n] = "spent"
  /\ answered' = answered \cup {<<n, outcome[n]>>}
  /\ UNCHANGED <<ledger, outcome, released>>

Release(n) ==
  /\ ledger[n] = "closed"
  /\ released' = released \cup {n}
  /\ UNCHANGED <<ledger, outcome, answered>>

Next ==
  \E n \in Nullifiers :
    \/ Reserve(n)
    \/ \E o \in Outcomes : Spend(n, o)
    \/ Close(n)
    \/ Answer(n)
    \/ Release(n)

Spec == Init /\ [][Next]_vars

=============================================================================
