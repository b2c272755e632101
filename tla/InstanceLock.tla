----------------------------- MODULE InstanceLock -----------------------------
(***************************************************************************)
(* The per-instance mutex of src/utils/instance-lock.ts: a Map from the    *)
(* instance id to the promise of the last call, the tail on which the next *)
(* call chains itself.  Everything is single-threaded JavaScript, so one   *)
(* action is one run of synchronous code: a call of withInstanceLock, or   *)
(* one promise reaction.                                                   *)
(*                                                                         *)
(*   idle --Call--> queued --Begin--> running --Settle--> settled          *)
(*        --ReleaseTail--> released --Cleanup--> finished                  *)
(*                                                                         *)
(* order and clock are history variables: the order in which the calls     *)
(* were made, which the code keeps only implicitly in its promise chain.   *)
(***************************************************************************)
EXTENDS Naturals

CONSTANTS
  Calls,      \* the calls of withInstanceLock, each made at most once
  Instances,  \* the instance ids
  None        \* no call, no instance

ASSUME NoneIsNothing == None \notin Calls \cup Instances

VARIABLES
  locks,     \* [Instances -> Calls \cup {None}]: whose tail the Map holds
  instance,  \* [Calls -> Instances \cup {None}]: the instance asked for
  previous,  \* [Calls -> Calls \cup {None}]: whose tail the call waits for
  state,     \* [Calls -> States]
  failed,    \* the calls whose fn rejected
  order,     \* [Calls -> Nat]: history, the position of the call
  clock      \* history, the number of calls made

vars == <<locks, instance, previous, state, failed, order, clock>>

States == {"idle", "queued", "running", "settled", "released", "finished"}

TypeOK ==
  /\ locks \in [Instances -> Calls \cup {None}]
  /\ instance \in [Calls -> Instances \cup {None}]
  /\ previous \in [Calls -> Calls \cup {None}]
  /\ state \in [Calls -> States]
  /\ failed \in SUBSET Calls
  /\ order \in [Calls -> Nat]
  /\ clock \in Nat

-------------------------------------------------------------------------------
\* The tail of c has settled: what the next call waits for.
Released(c) == state[c] \in {"released", "finished"}

\* fn of c has been started.
Begun(c) == state[c] \in {"running", "settled"} \/ Released(c)

isInstanceLocked(i) == locks[i] # None

Init ==
  /\ locks = [i \in Instances |-> None]
  /\ instance = [c \in Calls |-> None]
  /\ previous = [c \in Calls |-> None]
  /\ state = [c \in Calls |-> "idle"]
  /\ failed = {}
  /\ order = [c \in Calls |-> 0]
  /\ clock = 0

\* The synchronous part of withInstanceLock: read the stored tail (a resolved
\* promise if there is none), chain fn on it, store the own tail.
withInstanceLock(c, i) ==
  /\ state[c] = "idle"
  /\ previous' = [previous EXCEPT ![c] = locks[i]]
  /\ locks' = [locks EXCEPT ![i] = c]
  /\ state' = [state EXCEPT ![c] = "queued"]
  /\ instance' = [instance EXCEPT ![c] = i]
  /\ order' = [order EXCEPT ![c] = clock]
  /\ clock' = clock + 1
  /\ UNCHANGED failed

\* Mutant of Begin: fn is called without waiting.
BeginAtOnce(c) ==
  /\ state[c] = "queued"
  /\ state' = [state EXCEPT ![c] = "running"]
  /\ UNCHANGED <<locks, instance, previous, failed, order, clock>>

\* previous.then(fn, fn): fn starts once the previous tail has settled.
Begin(c) ==
  /\ state[c] = "queued"
  /\ previous[c] # None => Released(previous[c])
  /\ state' = [state EXCEPT ![c] = "running"]
  /\ UNCHANGED <<locks, instance, previous, failed, order, clock>>

\* fn's promise resolves, or rejects.
Settle(c) ==
  /\ state[c] = "running"
  /\ state' = [state EXCEPT ![c] = "settled"]
  /\ failed' \in {failed, failed \cup {c}}
  /\ UNCHANGED <<locks, instance, previous, order, clock>>

\* Both reactions of result.then(..) resolve the tail, so a rejected fn (c in
\* failed) releases it like any other.
ReleaseTail(c) ==
  /\ state[c] = "settled"
  /\ state' = [state EXCEPT ![c] = "released"]
  /\ UNCHANGED <<locks, instance, previous, failed, order, clock>>

\* Mutant of Cleanup: the entry is dropped whoever stored it.
CleanupUnchecked(c) ==
  /\ state[c] = "released"
  /\ locks' = [locks EXCEPT ![instance[c]] = None]
  /\ state' = [state EXCEPT ![c] = "finished"]
  /\ UNCHANGED <<instance, previous, failed, order, clock>>

\* tail.finally: drop the Map entry unless a later call has replaced it.
Cleanup(c) ==
  /\ state[c] = "released"
  /\ locks' = IF locks[instance[c]] = c
                THEN [locks EXCEPT ![instance[c]] = None]
                ELSE locks
  /\ state' = [state EXCEPT ![c] = "finished"]
  /\ UNCHANGED <<instance, previous, failed, order, clock>>

Next ==
  \E c \in Calls :
    \/ \E i \in Instances : withInstanceLock(c, i)
    \/ Begin(c)
    \/ Settle(c)
    \/ ReleaseTail(c)
    \/ Cleanup(c)

\* The event loop runs every reaction that is due; fn is assumed to settle:
\* rest-api requests time out after 15 s, and the Docker socket and S3, which
\* have no timeout here, are taken to answer or fail.  Nobody has to call the lock.
Fairness ==
  \A c \in Calls :
    WF_vars(Begin(c)) /\ WF_vars(Settle(c)) /\ WF_vars(ReleaseTail(c)) /\ WF_vars(Cleanup(c))

Spec == Init /\ [][Next]_vars

FairSpec == Spec /\ Fairness

-------------------------------------------------------------------------------
\* Never two operations of one instance at once, and first come, first served:
\* when fn of a call has begun, every call made before it for the same instance
\* has completely released the lock ("start/stop/delete/auto-restart never run
\* concurrently for the same instance").
ServedInOrder ==
  \A c, d \in Calls :
    /\ instance[c] = instance[d]
    /\ state[c] # "idle"
    /\ order[c] < order[d]
    /\ Begun(d)
    => Released(c)

\* isInstanceLocked answers truly: FALSE only when no call of the instance is
\* queued or in flight, and an entry never outlives the call that stored it.
LockedTellsTheTruth ==
  \A i \in Instances :
    /\ ~isInstanceLocked(i) =>
         \A c \in Calls : instance[c] = i => Released(c)
    /\ isInstanceLocked(i) =>
         /\ instance[locks[i]] = i
         /\ state[locks[i]] # "finished"

\* The detailed lock implements the abstract one, liveness included.
Abstract == INSTANCE FifoLock WITH
  phase <- [c \in Calls |->
              CASE state[c] = "idle" -> "out"
                [] state[c] = "queued" -> "waiting"
                [] state[c] \in {"running", "settled"} -> "in"
                [] OTHER -> "gone"],
  lockOf <- instance,
  ticket <- order,
  next <- clock

ImplementsFifoLock == Abstract!FairSpec

-------------------------------------------------------------------------------
\* Parts of the inductive invariant behind ServedInOrder.

\* The history variables count the calls.
Positions ==
  /\ \A c \in Calls : (state[c] = "idle") <=> (instance[c] = None)
  /\ \A c \in Calls : state[c] # "idle" => order[c] < clock
  /\ \A c, d \in Calls :
       c # d /\ state[c] # "idle" /\ state[d] # "idle" => order[c] # order[d]

\* The promise a call waits for is the tail of its immediate predecessor.
ChainedOnPredecessor ==
  \A c \in Calls : state[c] # "idle" =>
    /\ previous[c] # None =>
         /\ state[previous[c]] # "idle"
         /\ instance[previous[c]] = instance[c]
         /\ order[previous[c]] < order[c]
    /\ \A d \in Calls :
         state[d] # "idle" /\ instance[d] = instance[c] /\ order[d] < order[c] =>
           \/ Released(d)
           \/ previous[c] # None /\ order[d] <= order[previous[c]]

\* The Map holds the tail of the last call, or nothing once all is released.
TailIsLast ==
  \A i \in Instances :
    /\ locks[i] = None => \A c \in Calls : instance[c] = i => Released(c)
    /\ locks[i] # None =>
         /\ instance[locks[i]] = i
         /\ state[locks[i]] # "finished"
         /\ \A c \in Calls : instance[c] = i => order[c] <= order[locks[i]]

IInv == TypeOK /\ Positions /\ ChainedOnPredecessor /\ TailIsLast /\ ServedInOrder
===============================================================================
