------------------------------ MODULE GpuRecovery ------------------------------
(***************************************************************************)
(* gpu-recovery.ts: gpu-xserver, which all instances render with, dies and *)
(* comes back; instances that crash shortly after its death are queued and *)
(* resumed by a pass that a timer starts after its return.  What restarts  *)
(* an instance is InstanceLifecycle's; here it works or fails.  No         *)
(* instance is deleted meanwhile.                                          *)
(*                                                                         *)
(* The death and the return are handled as they happen, without an await;  *)
(* the death of an instance waits for a PATCH before it is put down to     *)
(* gpu-xserver or not.                                                     *)
(***************************************************************************)
EXTENDS Naturals

CONSTANTS
  Instances,
  Nobody,
  MaxOutages  \* bound on the deaths of gpu-xserver

ASSUME GpuAssumption == MaxOutages \in Nat /\ Nobody \notin Instances

Passes == 1..MaxOutages

VARIABLES
  up,         \* gpu-xserver runs
  deaths,     \* how often it has died
  correlated, \* gpuXserverDownSince is set, and still in the correlation window
  life,       \* life[i] = the row's status; "dying" while it still is "running"
  answered,   \* instances whose PATCH to "error" is done and its reply on the way
  pending,    \* pendingGpuRecovery; the order of the Map is left open
  pass,       \* pass[n] = where the pass after the n-th return is
  left,       \* left[n] = instances it has still to look at
  turn        \* turn[n] = the instance it is at

gpu == <<up, deaths>>
passes == <<pass, left, turn>>
gpuVars == <<gpu, correlated, life, answered, pending, passes>>

GpuTypeOK ==
  /\ up \in BOOLEAN /\ deaths \in 0..MaxOutages
  /\ correlated \in BOOLEAN
  /\ life \in [Instances -> {"running", "dying", "error"}]
  /\ answered \subseteq Instances /\ pending \subseteq Instances
  /\ pass \in [Passes -> {"none", "grace", "next", "lookup", "restart", "over", "thrown"}]
  /\ left \in [Passes -> SUBSET Instances]
  /\ turn \in [Passes -> Instances \cup {Nobody}]

GpuInit ==
  /\ up = TRUE /\ deaths = 0 /\ correlated = FALSE
  /\ life = [i \in Instances |-> "running"] /\ answered = {} /\ pending = {}
  /\ pass = [n \in Passes |-> "none"]
  /\ left = [n \in Passes |-> {}] /\ turn = [n \in Passes |-> Nobody]

-------------------------------------------------------------------------------
\* handleGpuXserverEvent: die.
GpuDies ==
  /\ up /\ deaths < MaxOutages
  /\ up' = FALSE /\ deaths' = deaths + 1
  /\ correlated' = TRUE
  /\ UNCHANGED <<life, answered, pending, passes>>

\* handleGpuXserverEvent: start.  The outage is over, and a timer is set.
GpuStarts ==
  /\ ~up /\ up' = TRUE
  /\ correlated' = FALSE
  /\ pass' = [pass EXCEPT ![deaths] = "grace"]
  /\ UNCHANGED <<deaths, life, answered, pending, left, turn>>

\* GPU_XSERVER_DIE_CORRELATION_WINDOW_MS are over.
WindowEnds ==
  /\ correlated /\ correlated' = FALSE
  /\ UNCHANGED <<gpu, life, answered, pending, passes>>

\* An instance crashes, with gpu-xserver or for reasons of its own.
Crashes(i) ==
  /\ life[i] = "running" /\ i \notin answered
  /\ life' = [life EXCEPT ![i] = "dying"]
  /\ UNCHANGED <<gpu, correlated, answered, pending, passes>>

\* The PATCH of handleContainerDieEvent reaches the row.
MarkError(i) ==
  /\ life[i] = "dying"
  /\ life' = [life EXCEPT ![i] = "error"]
  /\ answered' = answered \cup {i}
  /\ UNCHANGED <<gpu, correlated, pending, passes>>

\* It is answered: queueIfGpuCorrelated.
queueIfGpuCorrelated(i) ==
  /\ i \in answered /\ answered' = answered \ {i}
  /\ pending' = IF correlated THEN pending \cup {i} ELSE pending
  /\ UNCHANGED <<gpu, correlated, life, passes>>

\* The owner starts it.
StartedOtherwise(i) ==
  /\ life[i] = "error"
  /\ life' = [life EXCEPT ![i] = "running"]
  /\ UNCHANGED <<gpu, correlated, answered, pending, passes>>

At(n, step) == pass' = [pass EXCEPT ![n] = step]

\* The timer: the pending instances are this pass's now.
TimerFires(n) ==
  /\ pass[n] = "grace"
  /\ At(n, IF pending = {} THEN "over" ELSE "next")
  /\ left' = [left EXCEPT ![n] = pending]
  /\ pending' = {}
  /\ UNCHANGED <<gpu, correlated, life, answered, turn>>

\* Mutant: the queue is cleared when the pass is through.
NextInstanceThenClear(n) ==
  /\ pass[n] = "next"
  /\ \/ /\ left[n] = {} /\ At(n, "over") /\ pending' = {} /\ UNCHANGED <<left, turn>>
     \/ \E i \in left[n] :
          /\ At(n, "lookup") /\ turn' = [turn EXCEPT ![n] = i]
          /\ left' = [left EXCEPT ![n] = @ \ {i}]
          /\ UNCHANGED pending
  /\ UNCHANGED <<gpu, correlated, life, answered>>

\* The loop, after RESTART_STAGGER_MS from the second round on.
NextInstance(n) ==
  /\ pass[n] = "next"
  /\ \/ left[n] = {} /\ At(n, "over") /\ UNCHANGED <<left, turn>>
     \/ \E i \in left[n] :
          /\ At(n, "lookup") /\ turn' = [turn EXCEPT ![n] = i]
          /\ left' = [left EXCEPT ![n] = @ \ {i}]
  /\ UNCHANGED <<gpu, correlated, life, answered, pending>>

\* It runs again, started some other way: on to the next; otherwise it is restarted.  A
\* lookup that throws ends the pass, and nobody takes up what is left of it.
LookUp(n) ==
  /\ pass[n] = "lookup"
  /\ \/ life[turn[n]] # "error" /\ At(n, "next") /\ UNCHANGED left
     \/ life[turn[n]] = "error" /\ At(n, "restart") /\ UNCHANGED left
     \/ At(n, "thrown") /\ left' = [left EXCEPT ![n] = {}]
  /\ turn' = [turn EXCEPT ![n] = IF pass'[n] = "restart" THEN @ ELSE Nobody]
  /\ UNCHANGED <<gpu, correlated, life, answered, pending>>

\* restartInstance succeeds or not; the loop goes on.
RestartInstance(n) ==
  /\ pass[n] = "restart"
  /\ \E l \in {"running", life[turn[n]]} : life' = [life EXCEPT ![turn[n]] = l]
  /\ At(n, "next") /\ turn' = [turn EXCEPT ![n] = Nobody]
  /\ UNCHANGED <<gpu, correlated, answered, pending, left>>

Recover(n) == TimerFires(n) \/ NextInstance(n) \/ LookUp(n) \/ RestartInstance(n)

GpuNext ==
  \/ GpuDies \/ GpuStarts \/ WindowEnds
  \/ \E i \in Instances : Crashes(i) \/ MarkError(i) \/ queueIfGpuCorrelated(i) \/ StartedOtherwise(i)
  \/ \E n \in Passes : Recover(n)

-------------------------------------------------------------------------------
\* An instance whose crash was put down to gpu-xserver is restarted after its return,
\* unless its row says by then that it runs, or a lookup threw: neither a pass under way
\* when the next outage queues it, nor the one that a second return starts, loses it.
QueuedIsResumed ==
  \A i \in Instances :
    i \in pending ~>
      \/ life[i] # "error"
      \/ \E n \in Passes : pass[n] = "restart" /\ turn[n] = i
      \/ \E n \in Passes : pass[n] = "thrown"
===============================================================================
