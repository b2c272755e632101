------------------------------- MODULE FifoLock -------------------------------
(***************************************************************************)
(* What the per-instance mutex of utils/instance-lock.ts promises, with    *)
(* nothing of how it does it: calls ask for the lock of an instance, enter *)
(* in the order in which they asked, one at a time, and leave whatever     *)
(* became of them.  InstanceLock refines this specification.               *)
(***************************************************************************)
EXTENDS Naturals

CONSTANTS
  Calls,      \* the calls of withInstanceLock, each made at most once
  Instances,  \* the instance ids
  None        \* no instance

VARIABLES
  phase,   \* [Calls -> {"out", "waiting", "in", "gone"}]
  lockOf,  \* [Calls -> Instances \cup {None}]: whose lock the call asked for
  ticket,  \* [Calls -> Nat]: the place of the call in the order of asking
  next     \* the next ticket

vars == <<phase, lockOf, ticket, next>>

Init ==
  /\ phase = [c \in Calls |-> "out"]
  /\ lockOf = [c \in Calls |-> None]
  /\ ticket = [c \in Calls |-> 0]
  /\ next = 0

Ask(c, i) ==
  /\ phase[c] = "out"
  /\ phase' = [phase EXCEPT ![c] = "waiting"]
  /\ lockOf' = [lockOf EXCEPT ![c] = i]
  /\ ticket' = [ticket EXCEPT ![c] = next]
  /\ next' = next + 1

\* Entering is allowed only to the oldest call that has not left.
Enter(c) ==
  /\ phase[c] = "waiting"
  /\ \A d \in Calls :
       lockOf[d] = lockOf[c] /\ ticket[d] < ticket[c] => phase[d] = "gone"
  /\ phase' = [phase EXCEPT ![c] = "in"]
  /\ UNCHANGED <<lockOf, ticket, next>>

Leave(c) ==
  /\ phase[c] = "in"
  /\ phase' = [phase EXCEPT ![c] = "gone"]
  /\ UNCHANGED <<lockOf, ticket, next>>

Next ==
  \E c \in Calls :
    \/ \E i \in Instances : Ask(c, i)
    \/ Enter(c)
    \/ Leave(c)

Fairness == \A c \in Calls : WF_vars(Enter(c)) /\ WF_vars(Leave(c))

Spec == Init /\ [][Next]_vars

FairSpec == Spec /\ Fairness
===============================================================================
