-------------------------- MODULE InstanceLifecycle --------------------------
(***************************************************************************)
(* The life of one instance on a node: the rest-api row, the Docker        *)
(* containers that carry the instance's name, its config directory and its *)
(* S3 prefix, and everything that changes them -- the create, start, stop  *)
(* and delete routes, the plan sweep, gpu-xserver recovery, the die-event  *)
(* handler, and the boot-time reconciliation after a crash of the manager. *)
(*                                                                         *)
(* One action is one awaited effect (a request to rest-api, a Docker call, *)
(* an S3 or disk operation) with the synchronous code that runs up to the  *)
(* next await.  Where code runs between the effect and the next one that   *)
(* others can observe (a broadcast, the end of an api-stopping mark, the   *)
(* release of the lock), the continuation is an action of its own.         *)
(*                                                                         *)
(* The per-instance mutex appears as what it promises (FifoLock, which     *)
(* InstanceLock refines): a FIFO queue whose head holds the lock.          *)
(***************************************************************************)
EXTENDS Naturals, Sequences

CONSTANTS
  Ops,         \* request slots: each serves at most one request
  Boot,        \* the boot-time reconciliation
  Containers,  \* Docker container ids: as many as the bound allows
  None,
  Requests,    \* the kinds of request that arrive, a subset of AllRequests
  Faults,      \* what may go wrong, a subset of AllFaults
  MaxCrashes   \* bound on the crashes of the manager

AllRequests == {"create", "start", "recover", "stop", "sweep", "destroy"}

(***************************************************************************)
(*  rest    a rest-api write fails, applied (the reply is lost) or not;    *)
(*          a read fails                                                   *)
(*  docker  a Docker call fails without effect                             *)
(*  s3      a config push to S3 fails                                      *)
(*  disk    writing the instance's config directory fails                  *)
(*  key     the owner's stream key, or the instance's passwords, are not   *)
(*          given out                                                      *)
(*  stream  the Docker event stream drops a die event (it has ended and is *)
(*          attached again later, or cuts an event in two)                 *)
(*  race    a container dies while an operation of the instance is under   *)
(*          way, before the row names it, or while no event listener is    *)
(*          attached after a restart                                       *)
(*  crash   the manager dies                                               *)
(***************************************************************************)
AllFaults == {"rest", "docker", "s3", "disk", "key", "stream", "race", "crash"}

ASSUME ConstantsOK ==
  /\ Requests \subseteq AllRequests
  /\ Faults \subseteq AllFaults
  /\ MaxCrashes \in Nat
  /\ Boot \notin Ops
  /\ Containers \cap (Ops \cup {Boot}) = {}
  /\ None \notin Ops \cup {Boot} \cup Containers

Runners == Ops \cup {Boot}

VARIABLES
  status,       \* the row's status, "none" when there is no row
  cid,          \* the row's container_id
  docker,       \* [Containers -> DockerStates]
  died,         \* [Containers -> the status its exit code stands for]
  dieEvents,    \* containers whose die event is on its way to the manager
  pc,           \* [Runners -> where the operation is]
  mine,         \* [Runners -> the container the operation created]
  snap,         \* [Runners -> the container id the operation read]
  hpc,          \* [Containers -> where the handler of the die event is]
  queue,        \* the FIFO lock: runners and, for handlers, containers
  apiStopping,  \* clients/docker.ts apiStoppingContainers
  dir,          \* whether the local config directory exists
  s3,           \* whether anything is stored under the S3 prefix
  shown,        \* the last lifecycle event broadcast to the owner's browsers
  phase,        \* "up", "down" or "boot": the manager process
  crashes,      \* number of crashes so far
  pendingGpuRecovery  \* whether a crash of the instance waits for gpu-xserver

row == <<status, cid>>
daemon == <<docker, died, dieEvents>>
store == <<dir, s3>>
process == <<phase, crashes, pendingGpuRecovery>>
vars == <<row, daemon, pc, mine, snap, hpc, queue, apiStopping, store, shown, process>>

Statuses == {"none", "creating", "running", "stopped", "error"}
DockerStates == {"absent", "created", "running", "exited", "removed"}

CreatePCs == {"cKey", "cUndo", "cPull", "cContainer", "cBoot", "cPatch", "cOk",
              "cErrPatch", "cErr"}
StartPCs == {"sFind", "sKey", "sClear", "sPull", "sContainer", "sBoot", "sPatch", "sOk",
             "sAdopt", "sCleanup", "sSurvivor", "sErrPatch", "sErr"}
StopPCs == {"tMark", "tStop", "tPush", "tRemove", "tPatch", "tOk"}
DestroyPCs == {"dMark", "dStop", "dDir", "dRemove", "dS3", "dRow"}

\* Operations that are in the lock's queue: asked for it and not released it.
QueuedPCs == StartPCs \cup StopPCs \cup DestroyPCs

PCs == {"idle", "done", "sEnter", "tEnter", "dEnter", "pRead", "bRead", "bInspect"}
         \cup CreatePCs \cup QueuedPCs \cup {"bError", "bRunning", "bStopped"}
HandlerPCs == {"idle", "patch", "notify", "check", "persist", "done"}

TypeOK ==
  /\ status \in Statuses
  /\ cid \in Containers \cup {None}
  /\ docker \in [Containers -> DockerStates]
  /\ died \in [Containers -> {"stopped", "error"}]
  /\ dieEvents \subseteq Containers
  /\ pc \in [Runners -> PCs]
  /\ mine \in [Runners -> Containers \cup {None}]
  /\ snap \in [Runners -> Containers \cup {None}]
  /\ hpc \in [Containers -> HandlerPCs]
  /\ queue \in Seq(Runners \cup Containers)
  /\ apiStopping \subseteq Containers
  /\ dir \in BOOLEAN
  /\ s3 \in BOOLEAN
  /\ shown \in {"none", "starting", "started", "stopping", "stopped", "error", "deleted"}
  /\ phase \in {"up", "down", "boot"}
  /\ crashes \in Nat
  /\ pendingGpuRecovery \in BOOLEAN

-------------------------------------------------------------------------------
\* No instance yet (when creates are among the requests), or one that was stopped
\* cleanly, or one that runs.
Init ==
  /\ \/ /\ "create" \in Requests
        /\ status = "none" /\ cid = None /\ shown = "none"
        /\ docker = [c \in Containers |-> "absent"]
        /\ dir = FALSE /\ s3 = FALSE
     \/ /\ status = "stopped" /\ cid = None /\ shown = "stopped"
        /\ docker = [c \in Containers |-> "absent"]
        /\ dir = FALSE /\ s3 = TRUE
     \/ /\ status = "running" /\ cid \in Containers /\ shown = "started"
        /\ docker = [c \in Containers |-> IF c = cid THEN "running" ELSE "absent"]
        /\ dir = TRUE /\ s3 = TRUE
  /\ died = [c \in Containers |-> "stopped"]
  /\ dieEvents = {}
  /\ pc = [p \in Runners |-> "idle"]
  /\ mine = [p \in Runners |-> None]
  /\ snap = [p \in Runners |-> None]
  /\ hpc = [c \in Containers |-> "idle"]
  /\ queue = <<>>
  /\ apiStopping = {}
  /\ phase = "up"
  /\ crashes = 0
  /\ pendingGpuRecovery = FALSE

-------------------------------------------------------------------------------
(* Helpers. *)

Fault(f) == f \in Faults

Goto(p, l) == pc' = [pc EXCEPT ![p] = l]

\* withInstanceLock, isInstanceLocked and the turn of a queued operation.
isInstanceLocked == queue # <<>>
Enqueue(p) == queue' = Append(queue, p)
NoWait(p) == TRUE  \* mutant of HasLock: fn is called at once
HasLock(p) == queue # <<>> /\ Head(queue) = p

\* Mutant of Exit: a tail that does not settle.
ExitKeepingLock(p) == Goto(p, "done") /\ UNCHANGED <<queue, process>>

\* A locked operation settles: the lock passes on, and if it was the restart
\* made by reconcileContainers the boot goes on (there is one instance).
Exit(p) ==
  /\ Goto(p, "done")
  /\ queue' = Tail(queue)
  /\ phase' = IF p = Boot THEN "up" ELSE phase
  /\ UNCHANGED <<crashes, pendingGpuRecovery>>

Stay == UNCHANGED <<queue, process>>

broadcast(e) == shown' = e

\* PATCH of the row: applied and confirmed; or 404 without a row, or failed
\* with or without having been applied.
PatchOk(s, c) == status # "none" /\ status' = s /\ cid' = c
PatchFails(s, c) ==
  \/ status = "none" /\ UNCHANGED row
  \/ status # "none" /\ Fault("rest") /\ (UNCHANGED row \/ (status' = s /\ cid' = c))

\* DELETE of the row; rest-api itself tells the browsers.
DeleteOk == status # "none" /\ status' = "none" /\ cid' = None /\ broadcast("deleted")
DeleteFails ==
  \/ status = "none" /\ UNCHANGED <<row, shown>>
  \/ status # "none" /\ Fault("rest") /\ (UNCHANGED <<row, shown>> \/ DeleteOk)

\* Docker holds one container of a name at a time.
Holding == {c \in Containers : docker[c] \in {"created", "running", "exited"}}
Running == {c \in Containers : docker[c] = "running"}

findContainerByName(c) == c \in Holding \/ (Holding = {} /\ c = None)

CreateContainer(p, c) ==
  /\ Holding = {}
  /\ docker[c] = "absent"
  /\ docker' = [docker EXCEPT ![c] = "created"]
  /\ mine' = [mine EXCEPT ![p] = c]
  /\ UNCHANGED <<died, dieEvents>>
CreateContainerFails ==
  /\ Holding # {} \/ Fault("docker")
  /\ UNCHANGED <<daemon, mine>>

StartContainer(c) ==
  /\ docker[c] = "created"
  /\ docker' = [docker EXCEPT ![c] = "running"]
  /\ UNCHANGED <<died, dieEvents>>
StartContainerFails(c) ==
  /\ docker[c] # "created" \/ Fault("docker")
  /\ UNCHANGED daemon

\* A running container ends in state s; a listening manager gets a die event,
\* unless the event stream drops it.
End(c, s) ==
  /\ docker' = [docker EXCEPT ![c] = s]
  /\ \E d \in {"stopped", "error"} : died' = [died EXCEPT ![c] = d]
  /\ \/ phase = "up" /\ dieEvents' = dieEvents \cup {c}
     \/ /\ phase # "up" \/ Fault("stream")
        /\ UNCHANGED dieEvents

\* docker stop fails on a container that is not running (304) or gone (404).
StopContainer(c) == docker[c] = "running" /\ End(c, "exited")
StopContainerFails(c) ==
  /\ docker[c] # "running" \/ Fault("docker")
  /\ UNCHANGED daemon

\* docker rm --force kills first; it fails on a container that is gone (404).
RemoveContainer(c) ==
  \/ docker[c] = "running" /\ End(c, "removed")
  \/ /\ docker[c] \in {"created", "exited"}
     /\ docker' = [docker EXCEPT ![c] = "removed"]
     /\ UNCHANGED <<died, dieEvents>>
RemoveContainerFails(c) ==
  /\ docker[c] \in {"absent", "removed"} \/ Fault("docker")
  /\ UNCHANGED daemon
RemoveBestEffort(c) ==
  IF c = None THEN UNCHANGED daemon
  ELSE RemoveContainer(c) \/ RemoveContainerFails(c)

\* pullObsConfig pushes a leftover directory before it pulls; the secrets are
\* then written into the directory, which exists in any case.
PullConfig ==
  /\ dir' = TRUE
  /\ s3' \in IF Fault("s3") THEN {s3, s3 \/ dir} ELSE {s3 \/ dir}

\* persistAndRemoveLocalConfig: the directory goes only when the push succeeded;
\* a push that fails may have stored some of the files.
PersistAndRemove ==
  \/ s3' = (s3 \/ dir) /\ dir' \in IF Fault("disk") THEN {FALSE, dir} ELSE {FALSE}
  \/ Fault("s3") /\ s3' \in {s3, s3 \/ dir} /\ UNCHANGED dir

-------------------------------------------------------------------------------
(* Mutants: plausible bugs of the steps below, one for each property. *)

\* The row of a refused create is left behind.
CreateUndoForgotten(o) ==
  /\ pc[o] = "cUndo"
  /\ Goto(o, "done")
  /\ UNCHANGED <<row, shown, daemon, mine, snap, hpc, apiStopping, store>> /\ Stay

\* No look at Docker before a start: whatever runs is not noticed.
StartWithoutLook(p) ==
  /\ pc[p] = "sFind" /\ HasLock(p)
  /\ snap' = [snap EXCEPT ![p] = None]
  /\ Goto(p, "sKey")
  /\ UNCHANGED <<row, daemon, mine, hpc, apiStopping, store, shown>> /\ Stay

\* "Starting" is broadcast before the refusals.
StartKeyTooEarly(p) ==
  /\ pc[p] = "sKey"
  /\ broadcast("starting")
  /\ \/ /\ status # "none"
        /\ Goto(p, IF snap[p] # None THEN "sClear" ELSE "sPull") /\ Stay
     \/ /\ status = "none" \/ Fault("key") \/ Fault("rest")
        /\ Exit(p)
  /\ UNCHANGED <<row, daemon, mine, snap, hpc, apiStopping, store>>

\* A failed start leaves its container where it is.
StartWithoutCleanup(p) ==
  /\ pc[p] = "sCleanup"
  /\ Goto(p, "sSurvivor")
  /\ UNCHANGED <<row, daemon, mine, snap, hpc, apiStopping, store, shown>> /\ Stay

\* The finally block of a stop is missing.
StopExitMarked(o) == Exit(o) /\ UNCHANGED apiStopping

\* A stop that does not clear the row's container id.
StopPatchKeepsId(o) ==
  /\ pc[o] = "tPatch"
  /\ \/ PatchOk("stopped", cid) /\ Goto(o, "tOk") /\ Stay /\ UNCHANGED apiStopping
     \/ PatchFails("stopped", cid) /\ Exit(o) /\ apiStopping' = apiStopping \ {snap[o]}
  /\ UNCHANGED <<daemon, mine, snap, hpc, store, shown>>

\* The push after a death does not check for a new container.
DieCheckSkipped(c) ==
  /\ hpc[c] = "check" /\ HasLock(c)
  /\ hpc' = [hpc EXCEPT ![c] = "persist"]
  /\ UNCHANGED <<row, daemon, queue, pc, mine, snap, apiStopping, store, shown, process>>

\* The row is cleared by instance id: a late death takes the new container's place.
DiePatchAnyId(c) ==
  /\ hpc[c] = "patch"
  /\ \/ status # "none" /\ status' = died[c] /\ cid' = None /\ hpc' = [hpc EXCEPT ![c] = "notify"]
     \/ status = "none" /\ UNCHANGED row /\ hpc' = [hpc EXCEPT ![c] = "done"]
  /\ UNCHANGED <<daemon, pc, mine, snap, queue, apiStopping, store, shown, process>>

\* A row whose container has exited is taken to be in order.
ReconcileNeverStops ==
  /\ pc[Boot] = "bInspect"
  /\ LET state == docker[snap[Boot]]
     IN  \/ /\ state = "removed" /\ status = "running"
            /\ Goto(Boot, "sFind") /\ Enqueue(Boot) /\ UNCHANGED process
         \/ state = "running" /\ status # "running" /\ Goto(Boot, "bRunning") /\ Stay
         \/ /\ state # "removed" \/ status # "running"
            /\ state # "running" \/ status = "running"
            /\ Goto(Boot, "done") /\ phase' = "up" /\ UNCHANGED <<queue, crashes, pendingGpuRecovery>>
  /\ UNCHANGED <<row, daemon, mine, snap, hpc, apiStopping, store, shown>>

\* A container whose state is unknown is not passed over.
ReconcileInsists ==
  /\ pc[Boot] = "bInspect"
  /\ LET state == docker[snap[Boot]]
     IN  \/ /\ state = "removed" /\ status = "running"
            /\ Goto(Boot, "sFind") /\ Enqueue(Boot) /\ UNCHANGED process
         \/ state = "running" /\ status # "running" /\ Goto(Boot, "bRunning") /\ Stay
         \/ Fault("docker") /\ Goto(Boot, "bInspect") /\ Stay
  /\ UNCHANGED <<row, daemon, mine, snap, hpc, apiStopping, store, shown>>

-------------------------------------------------------------------------------
(* createInstance (not under the lock). *)

\* POST of the new row, under a fresh id.
InsertInstance(o) ==
  /\ "create" \in Requests /\ phase = "up" /\ pc[o] = "idle"
  /\ status = "none" /\ shown = "none"
  /\ \/ status' = "creating" /\ Goto(o, "cKey")
     \/ Fault("rest") /\ status' \in {"none", "creating"} /\ Goto(o, "done")
  /\ UNCHANGED <<cid, daemon, mine, snap, hpc, apiStopping, store, shown>> /\ Stay

\* The stream key decides whether to go on: rest-api gives it only to a node with
\* a row for the user.  "starting" follows a grant.
CreateKey(o) ==
  /\ pc[o] = "cKey"
  /\ \/ status # "none" /\ Goto(o, "cPull") /\ broadcast("starting")
     \/ /\ status = "none" \/ Fault("key") \/ Fault("rest")
        /\ Goto(o, "cUndo") /\ UNCHANGED shown
  /\ UNCHANGED <<row, daemon, mine, snap, hpc, apiStopping, store>> /\ Stay

CreateUndo(o) ==
  /\ pc[o] = "cUndo"
  /\ DeleteOk \/ DeleteFails
  /\ Goto(o, "done")
  /\ UNCHANGED <<daemon, mine, snap, hpc, apiStopping, store>> /\ Stay

\* Config pull, passwords (refused without a row), secrets into the directory.
CreatePull(o) ==
  /\ pc[o] = "cPull"
  /\ PullConfig
  /\ \/ status # "none" /\ Goto(o, "cContainer")
     \/ /\ status = "none" \/ Fault("rest") \/ Fault("disk")
        /\ Goto(o, "cErrPatch")
  /\ UNCHANGED <<row, daemon, mine, snap, hpc, apiStopping, shown>> /\ Stay

CreateCreateContainer(o) ==
  /\ pc[o] = "cContainer"
  /\ \/ \E c \in Containers : CreateContainer(o, c) /\ Goto(o, "cBoot")
     \/ CreateContainerFails /\ Goto(o, "cErrPatch")
  /\ UNCHANGED <<row, snap, hpc, apiStopping, store, shown>> /\ Stay

CreateStartContainer(o) ==
  /\ pc[o] = "cBoot"
  /\ \/ StartContainer(mine[o]) /\ Goto(o, "cPatch")
     \/ StartContainerFails(mine[o]) /\ Goto(o, "cErrPatch")
  /\ UNCHANGED <<row, mine, snap, hpc, apiStopping, store, shown>> /\ Stay

CreatePatch(o) ==
  /\ pc[o] = "cPatch"
  /\ \/ PatchOk("running", mine[o]) /\ Goto(o, "cOk")
     \/ PatchFails("running", mine[o]) /\ Goto(o, "cErrPatch")
  /\ UNCHANGED <<daemon, mine, snap, hpc, apiStopping, store, shown>> /\ Stay

CreateOk(o) ==
  /\ pc[o] = "cOk"
  /\ broadcast("started")
  /\ Goto(o, "done")
  /\ UNCHANGED <<row, daemon, mine, snap, hpc, apiStopping, store>> /\ Stay

\* The catch block: a PATCH that throws here leaves the block.
CreateErrPatch(o) ==
  /\ pc[o] = "cErrPatch"
  /\ \/ PatchOk("error", cid) /\ Goto(o, "cErr")
     \/ PatchFails("error", cid) /\ Goto(o, "done")
  /\ UNCHANGED <<daemon, mine, snap, hpc, apiStopping, store, shown>> /\ Stay

CreateErr(o) ==
  /\ pc[o] = "cErr"
  /\ broadcast("error")
  /\ RemoveBestEffort(mine[o])
  /\ Goto(o, "done")
  /\ UNCHANGED <<row, mine, snap, hpc, apiStopping, store>> /\ Stay

Create(o) ==
  \/ InsertInstance(o) \/ CreateKey(o) \/ CreateUndo(o) \/ CreatePull(o)
  \/ CreateCreateContainer(o) \/ CreateStartContainer(o) \/ CreatePatch(o)
  \/ CreateOk(o) \/ CreateErrPatch(o) \/ CreateErr(o)

-------------------------------------------------------------------------------
(* restartInstance: the start routes, gpu-xserver recovery, the reconciler.   *)

\* POST /:id/start reads the row, then asks for the plan.
StartRead(o) ==
  /\ "start" \in Requests /\ phase = "up" /\ pc[o] = "idle"
  /\ status \notin {"none", "running"}
  /\ Goto(o, "sEnter")
  /\ UNCHANGED <<row, daemon, mine, snap, hpc, apiStopping, store, shown>> /\ Stay

\* 409 if the instance is busy; otherwise the lock is asked for.
StartEnter(o) ==
  /\ pc[o] = "sEnter"
  /\ \/ isInstanceLocked /\ Goto(o, "done") /\ UNCHANGED queue
     \/ ~isInstanceLocked /\ Goto(o, "sFind") /\ Enqueue(o)
  /\ UNCHANGED <<row, daemon, mine, snap, hpc, apiStopping, store, shown, process>>

\* The recovery pass after gpu-xserver is back: the pending set is emptied first;
\* an instance that is gone or runs again, or cannot be read, is passed over.
RecoverRead(o) ==
  /\ phase = "up" /\ pc[o] = "idle"
  /\ pendingGpuRecovery /\ pendingGpuRecovery' = FALSE
  /\ \/ status \notin {"none", "running"} /\ Goto(o, "sFind") /\ Enqueue(o)
     \/ /\ status \in {"none", "running"} \/ Fault("rest")
        /\ Goto(o, "done") /\ UNCHANGED queue
  /\ UNCHANGED <<row, daemon, mine, snap, hpc, apiStopping, store, shown, phase, crashes>>

\* Docker, not the row, decides whether there is a container already.
StartFind(p) ==
  /\ pc[p] = "sFind" /\ HasLock(p)
  /\ \/ /\ \E found \in Containers \cup {None} :
             /\ findContainerByName(found)
             /\ snap' = [snap EXCEPT ![p] = found]
        /\ Goto(p, IF Running # {} THEN "sAdopt" ELSE "sKey")
        /\ UNCHANGED <<queue, process>>
     \/ Fault("docker") /\ Exit(p) /\ UNCHANGED snap
  /\ UNCHANGED <<row, daemon, mine, hpc, apiStopping, store, shown>>

\* Refusals come before the "starting" broadcast.
StartKey(p) ==
  /\ pc[p] = "sKey"
  /\ \/ /\ status # "none"
        /\ broadcast("starting")
        /\ Goto(p, IF snap[p] # None THEN "sClear" ELSE "sPull") /\ Stay
     \/ /\ status = "none" \/ Fault("key") \/ Fault("rest")
        /\ Exit(p) /\ UNCHANGED shown
  /\ UNCHANGED <<row, daemon, mine, snap, hpc, apiStopping, store>>

\* The stale container is removed; a failure throws past the catch block.
StartClear(p) ==
  /\ pc[p] = "sClear"
  /\ \/ RemoveContainer(snap[p]) /\ Goto(p, "sPull") /\ Stay
     \/ RemoveContainerFails(snap[p]) /\ Exit(p)
  /\ UNCHANGED <<row, mine, snap, hpc, apiStopping, store, shown>>

StartPull(p) ==
  /\ pc[p] = "sPull"
  /\ PullConfig
  /\ \/ Goto(p, "sContainer") /\ Stay
     \/ Fault("disk") /\ Exit(p)
  /\ UNCHANGED <<row, daemon, mine, snap, hpc, apiStopping, shown>>

StartCreateContainer(p) ==
  /\ pc[p] = "sContainer"
  /\ \/ \E c \in Containers : CreateContainer(p, c) /\ Goto(p, "sBoot")
     \/ CreateContainerFails /\ Goto(p, "sSurvivor")
  /\ UNCHANGED <<row, snap, hpc, apiStopping, store, shown>> /\ Stay

StartStartContainer(p) ==
  /\ pc[p] = "sBoot"
  /\ \/ StartContainer(mine[p]) /\ Goto(p, "sPatch")
     \/ StartContainerFails(mine[p]) /\ Goto(p, "sCleanup")
  /\ UNCHANGED <<row, mine, snap, hpc, apiStopping, store, shown>> /\ Stay

StartPatch(p) ==
  /\ pc[p] = "sPatch"
  /\ \/ PatchOk("running", mine[p]) /\ Goto(p, "sOk")
     \/ PatchFails("running", mine[p]) /\ Goto(p, "sCleanup")
  /\ UNCHANGED <<daemon, mine, snap, hpc, apiStopping, store, shown>> /\ Stay

StartOk(p) ==
  /\ pc[p] = "sOk"
  /\ broadcast("started")
  /\ Exit(p)
  /\ UNCHANGED <<row, daemon, mine, snap, hpc, apiStopping, store>>

\* adoptRunningContainer
StartAdopt(p) ==
  /\ pc[p] = "sAdopt"
  /\ \/ PatchOk("running", snap[p]) /\ Goto(p, "sOk") /\ Stay
     \/ PatchFails("running", snap[p]) /\ Exit(p)
  /\ UNCHANGED <<daemon, mine, snap, hpc, apiStopping, store, shown>>

StartCleanup(p) ==
  /\ pc[p] = "sCleanup"
  /\ RemoveBestEffort(mine[p])
  /\ Goto(p, "sSurvivor")
  /\ UNCHANGED <<row, mine, snap, hpc, apiStopping, store, shown>> /\ Stay

\* "Never mark a live instance error": look again before doing so.
StartSurvivor(p) ==
  /\ pc[p] = "sSurvivor"
  /\ \/ /\ \E survivor \in Running : snap' = [snap EXCEPT ![p] = survivor]
        /\ Goto(p, "sAdopt")
     \/ /\ Running = {} \/ Fault("docker")
        /\ Goto(p, "sErrPatch") /\ UNCHANGED snap
  /\ UNCHANGED <<row, daemon, mine, hpc, apiStopping, store, shown>> /\ Stay

StartErrPatch(p) ==
  /\ pc[p] = "sErrPatch"
  /\ \/ PatchOk("error", cid) /\ Goto(p, "sErr") /\ Stay
     \/ PatchFails("error", cid) /\ Exit(p)
  /\ UNCHANGED <<daemon, mine, snap, hpc, apiStopping, store, shown>>

StartErr(p) ==
  /\ pc[p] = "sErr"
  /\ broadcast("error")
  /\ Exit(p)
  /\ UNCHANGED <<row, daemon, mine, snap, hpc, apiStopping, store>>

Restart(p) ==
  \/ StartFind(p) \/ StartKey(p) \/ StartClear(p) \/ StartPull(p)
  \/ StartCreateContainer(p) \/ StartStartContainer(p) \/ StartPatch(p) \/ StartOk(p)
  \/ StartAdopt(p) \/ StartCleanup(p) \/ StartSurvivor(p) \/ StartErrPatch(p) \/ StartErr(p)

-------------------------------------------------------------------------------
(* stopInstance: the stop routes and the plan sweep. *)

\* POST /:id/stop reads the row and needs a container id; no 409.
StopRead(o) ==
  /\ "stop" \in Requests /\ phase = "up" /\ pc[o] = "idle"
  /\ status # "none" /\ cid # None
  /\ snap' = [snap EXCEPT ![o] = cid]
  /\ Goto(o, "tEnter")
  /\ UNCHANGED <<row, daemon, mine, hpc, apiStopping, store, shown>> /\ Stay

\* The sweep skips a busy instance before it reads the row.
SweepCheck(o) ==
  /\ "sweep" \in Requests /\ phase = "up" /\ pc[o] = "idle"
  /\ ~isInstanceLocked
  /\ Goto(o, "pRead")
  /\ UNCHANGED <<row, daemon, mine, snap, hpc, apiStopping, store, shown>> /\ Stay

SweepRead(o) ==
  /\ pc[o] = "pRead"
  /\ IF status = "running" /\ cid # None
       THEN snap' = [snap EXCEPT ![o] = cid] /\ Goto(o, "tEnter")
       ELSE UNCHANGED snap /\ Goto(o, "done")
  /\ UNCHANGED <<row, daemon, mine, hpc, apiStopping, store, shown>> /\ Stay

StopEnter(o) ==
  /\ pc[o] = "tEnter"
  /\ Enqueue(o) /\ Goto(o, "tMark")
  /\ UNCHANGED <<row, daemon, mine, snap, hpc, apiStopping, store, shown, process>>

\* From here on the die event of the container is ignored.
StopMark(o) ==
  /\ pc[o] = "tMark" /\ HasLock(o)
  /\ apiStopping' = apiStopping \cup {snap[o]}
  /\ broadcast("stopping")
  /\ Goto(o, "tStop")
  /\ UNCHANGED <<row, daemon, mine, snap, hpc, store>> /\ Stay

\* The finally block, and the end of the locked function.
StopExit(o) ==
  /\ apiStopping' = apiStopping \ {snap[o]}
  /\ Exit(o)

StopStop(o) ==
  /\ pc[o] = "tStop"
  /\ \/ StopContainer(snap[o]) /\ Goto(o, "tPush") /\ Stay /\ UNCHANGED apiStopping
     \/ StopContainerFails(snap[o]) /\ StopExit(o)
  /\ UNCHANGED <<row, mine, snap, hpc, store, shown>>

StopPush(o) ==
  /\ pc[o] = "tPush"
  /\ PersistAndRemove
  /\ Goto(o, "tRemove")
  /\ UNCHANGED <<row, daemon, mine, snap, hpc, apiStopping, shown>> /\ Stay

StopRemove(o) ==
  /\ pc[o] = "tRemove"
  /\ RemoveBestEffort(snap[o])
  /\ Goto(o, "tPatch")
  /\ UNCHANGED <<row, mine, snap, hpc, apiStopping, store, shown>> /\ Stay

StopPatch(o) ==
  /\ pc[o] = "tPatch"
  /\ \/ PatchOk("stopped", None) /\ Goto(o, "tOk") /\ Stay /\ UNCHANGED apiStopping
     \/ PatchFails("stopped", None) /\ StopExit(o)
  /\ UNCHANGED <<daemon, mine, snap, hpc, store, shown>>

StopOk(o) ==
  /\ pc[o] = "tOk"
  /\ broadcast("stopped")
  /\ StopExit(o)
  /\ UNCHANGED <<row, daemon, mine, snap, hpc, store>>

Stop(o) ==
  \/ StopRead(o) \/ SweepCheck(o) \/ SweepRead(o) \/ StopEnter(o) \/ StopMark(o)
  \/ StopStop(o) \/ StopPush(o) \/ StopRemove(o) \/ StopPatch(o) \/ StopOk(o)

-------------------------------------------------------------------------------
(* destroyInstance: the delete routes. *)

DestroyRead(o) ==
  /\ "destroy" \in Requests /\ phase = "up" /\ pc[o] = "idle"
  /\ status # "none"
  /\ snap' = [snap EXCEPT ![o] = cid]
  /\ Goto(o, "dEnter")
  /\ UNCHANGED <<row, daemon, mine, hpc, apiStopping, store, shown>> /\ Stay

DestroyEnter(o) ==
  /\ pc[o] = "dEnter"
  /\ Enqueue(o) /\ Goto(o, "dMark")
  /\ UNCHANGED <<row, daemon, mine, snap, hpc, apiStopping, store, shown, process>>

\* Only the container id read by the route leads to any local clean-up.
DestroyMark(o) ==
  /\ pc[o] = "dMark" /\ HasLock(o)
  /\ IF snap[o] # None
       THEN apiStopping' = apiStopping \cup {snap[o]} /\ Goto(o, "dStop")
       ELSE UNCHANGED apiStopping /\ Goto(o, "dS3")
  /\ UNCHANGED <<row, daemon, mine, snap, hpc, store, shown>> /\ Stay

DestroyStop(o) ==
  /\ pc[o] = "dStop"
  /\ StopContainer(snap[o]) \/ StopContainerFails(snap[o])
  /\ Goto(o, "dDir")
  /\ UNCHANGED <<row, mine, snap, hpc, apiStopping, store, shown>> /\ Stay

DestroyDir(o) ==
  /\ pc[o] = "dDir"
  /\ dir' \in IF Fault("disk") THEN {FALSE, dir} ELSE {FALSE}
  /\ Goto(o, "dRemove")
  /\ UNCHANGED <<row, daemon, mine, snap, hpc, apiStopping, s3, shown>> /\ Stay

DestroyRemove(o) ==
  /\ pc[o] = "dRemove"
  /\ RemoveBestEffort(snap[o])
  /\ Goto(o, "dS3")
  /\ UNCHANGED <<row, mine, snap, hpc, apiStopping, store, shown>> /\ Stay

\* The finally block of the clean-up, then the S3 prefix.
DestroyS3(o) ==
  /\ pc[o] = "dS3"
  /\ apiStopping' = apiStopping \ {snap[o]}
  /\ s3' \in IF Fault("s3") THEN {FALSE, s3} ELSE {FALSE}
  /\ Goto(o, "dRow")
  /\ UNCHANGED <<row, daemon, mine, snap, hpc, dir, shown>> /\ Stay

DestroyRow(o) ==
  /\ pc[o] = "dRow"
  /\ DeleteOk \/ DeleteFails
  /\ Exit(o)
  /\ UNCHANGED <<daemon, mine, snap, hpc, apiStopping, store>>

Destroy(o) ==
  \/ DestroyRead(o) \/ DestroyEnter(o) \/ DestroyMark(o) \/ DestroyStop(o)
  \/ DestroyDir(o) \/ DestroyRemove(o) \/ DestroyS3(o) \/ DestroyRow(o)

-------------------------------------------------------------------------------
(* Deaths of containers, and handleContainerDieEvent. *)

\* OBS crashes, is killed by the kernel or stopped from outside: without the
\* fault "race" only a container that the row names, in the absence of operations.
Die(c) ==
  /\ docker[c] = "running"
  /\ \/ Fault("race")
     \/ /\ cid = c /\ phase # "boot"
        /\ ~isInstanceLocked /\ \A o \in Ops : pc[o] \notin CreatePCs
  /\ End(c, "exited")
  /\ UNCHANGED <<row, pc, mine, snap, hpc, queue, apiStopping, store, shown, process>>

\* The event arrives; an api-stopping container is skipped.
DieEvent(c) ==
  /\ phase = "up" /\ c \in dieEvents
  /\ dieEvents' = dieEvents \ {c}
  /\ hpc' = [hpc EXCEPT ![c] = IF c \in apiStopping THEN "done" ELSE "patch"]
  /\ UNCHANGED <<row, docker, died, pc, mine, snap, queue, apiStopping, store, shown, process>>

\* PATCH by container id: 404, and nothing more to do, unless the row has it.
DiePatch(c) ==
  /\ hpc[c] = "patch"
  /\ \/ /\ cid = c
        /\ status' = died[c] /\ cid' = None
        /\ hpc' = [hpc EXCEPT ![c] = "notify"]
     \/ /\ cid # c \/ Fault("rest")
        /\ UNCHANGED row
        /\ hpc' = [hpc EXCEPT ![c] = "done"]
     \/ /\ Fault("rest") /\ cid = c
        /\ status' = died[c] /\ cid' = None
        /\ hpc' = [hpc EXCEPT ![c] = "done"]
  /\ UNCHANGED <<daemon, pc, mine, snap, queue, apiStopping, store, shown, process>>

\* The row has it now.  A crash shortly after the death of gpu-xserver is put down
\* to it (queueIfGpuCorrelated).
DieNotify(c) ==
  /\ hpc[c] = "notify"
  /\ broadcast(died[c])
  /\ \/ UNCHANGED pendingGpuRecovery
     \/ "recover" \in Requests /\ died[c] = "error" /\ pendingGpuRecovery' = TRUE
  /\ Enqueue(c)
  /\ hpc' = [hpc EXCEPT ![c] = "check"]
  /\ UNCHANGED <<row, daemon, pc, mine, snap, apiStopping, store, phase, crashes>>

\* Under the lock: skip the push if the instance has a container again.
DieCheck(c) ==
  /\ hpc[c] = "check" /\ HasLock(c)
  /\ \/ /\ cid = None
        /\ hpc' = [hpc EXCEPT ![c] = "persist"] /\ UNCHANGED queue
     \/ /\ cid # None \/ Fault("rest")
        /\ hpc' = [hpc EXCEPT ![c] = "done"] /\ queue' = Tail(queue)
  /\ UNCHANGED <<row, daemon, pc, mine, snap, apiStopping, store, shown, process>>

DiePersist(c) ==
  /\ hpc[c] = "persist"
  /\ PersistAndRemove
  /\ hpc' = [hpc EXCEPT ![c] = "done"]
  /\ queue' = Tail(queue)
  /\ UNCHANGED <<row, daemon, pc, mine, snap, apiStopping, shown, process>>

Handler(c) == DieEvent(c) \/ DiePatch(c) \/ DieNotify(c) \/ DieCheck(c) \/ DiePersist(c)

-------------------------------------------------------------------------------
(* The manager dies and comes back: reconcileContainers before anything else. *)

\* Everything in memory is lost; what was sent has had its effect or has not.
Crash ==
  /\ Fault("crash") /\ phase # "down" /\ crashes < MaxCrashes
  /\ phase' = "down"
  /\ crashes' = crashes + 1
  /\ pc' = [p \in Runners |->
              IF p = Boot THEN "idle" ELSE IF pc[p] = "idle" THEN "idle" ELSE "done"]
  /\ hpc' = [c \in Containers |-> IF hpc[c] = "idle" THEN "idle" ELSE "done"]
  /\ dieEvents' = {} /\ queue' = <<>> /\ apiStopping' = {} /\ pendingGpuRecovery' = FALSE
  /\ UNCHANGED <<row, docker, died, mine, snap, store, shown>>

\* While the manager is down an exited container may be removed from outside.
Vanish(c) ==
  /\ phase = "down"
  /\ docker[c] = "exited"
  /\ docker' = [docker EXCEPT ![c] = "removed"]
  /\ UNCHANGED <<row, died, dieEvents, pc, mine, snap, hpc, queue, apiStopping, store, shown, process>>

Reboot ==
  /\ phase = "down"
  /\ phase' = "boot"
  /\ Goto(Boot, "bRead")
  /\ UNCHANGED <<row, daemon, mine, snap, hpc, queue, apiStopping, store, shown, crashes, pendingGpuRecovery>>

\* reconcileContainers ends; a throw inside it is caught by index.ts.
Booted ==
  /\ Goto(Boot, "done")
  /\ phase' = "up"
  /\ UNCHANGED <<queue, crashes, pendingGpuRecovery>>

\* The live list of rows; a row without a container id is passed over.
ReconcileRead ==
  /\ pc[Boot] = "bRead"
  /\ snap' = [snap EXCEPT ![Boot] = cid]
  /\ \/ cid # None /\ Goto(Boot, "bInspect") /\ Stay
     \/ (cid = None \/ Fault("rest")) /\ Booted
  /\ UNCHANGED <<row, daemon, mine, hpc, apiStopping, store, shown>>

\* getContainerStatus against the status in the row.
ReconcileInspect ==
  /\ pc[Boot] = "bInspect"
  /\ LET state == docker[snap[Boot]]
     IN  \/ /\ state = "removed" /\ status = "running"
            /\ Goto(Boot, "sFind") /\ Enqueue(Boot) /\ UNCHANGED process
         \/ state = "removed" /\ status \notin {"running", "error"} /\ Goto(Boot, "bError") /\ Stay
         \/ state = "running" /\ status # "running" /\ Goto(Boot, "bRunning") /\ Stay
         \/ state \in {"created", "exited"} /\ status = "running" /\ Goto(Boot, "bStopped") /\ Stay
         \/ /\ \/ state = "removed" /\ status = "error"
               \/ state = "running" /\ status = "running"
               \/ state \in {"created", "exited"} /\ status # "running"
               \/ Fault("docker")
            /\ Booted
  /\ UNCHANGED <<row, daemon, mine, snap, hpc, apiStopping, store, shown>>

\* PATCH of the status alone, the broadcast that follows it, end of the boot.
ReconcilePatch ==
  \E verdict \in {<<"bError", "error", "error">>, <<"bRunning", "running", "started">>,
                  <<"bStopped", "stopped", "stopped">>} :
    /\ pc[Boot] = verdict[1]
    /\ \/ PatchOk(verdict[2], cid) /\ broadcast(verdict[3])
       \/ PatchFails(verdict[2], cid) /\ UNCHANGED shown
    /\ Booted
    /\ UNCHANGED <<daemon, mine, snap, hpc, apiStopping, store>>

Reconcile == ReconcileRead \/ ReconcileInspect \/ ReconcilePatch

-------------------------------------------------------------------------------
Next ==
  \/ \E o \in Ops :
       Create(o) \/ StartRead(o) \/ StartEnter(o) \/ RecoverRead(o) \/ Stop(o) \/ Destroy(o)
  \/ \E p \in Runners : Restart(p)
  \/ \E c \in Containers : Die(c) \/ Handler(c) \/ Vanish(c)
  \/ Crash \/ Reboot \/ Reconcile

\* A step of an operation that has begun: requests need not come.
Continue(p) ==
  /\ pc[p] # "idle"
  /\ Restart(p) \/ (p \in Ops /\ (Create(p) \/ StartEnter(p) \/ Stop(p) \/ Destroy(p)))

\* Effects complete (calls answer, or fail and are caught), due callbacks run,
\* die events are delivered while the listener is attached, and a crashed
\* manager is restarted (docker compose restart policy).
Fairness ==
  /\ \A p \in Runners : WF_vars(Continue(p))
  /\ \A c \in Containers : WF_vars(Handler(c))
  /\ WF_vars(Reboot) /\ WF_vars(Reconcile)

Spec == Init /\ [][Next]_vars

FairSpec == Spec /\ Fairness

-------------------------------------------------------------------------------
(* Properties. *)

\* Nothing in progress and nothing on its way.
Quiet ==
  /\ phase = "up"
  /\ queue = <<>> /\ dieEvents = {}
  /\ \A p \in Runners : pc[p] \in {"idle", "done"}
  /\ \A c \in Containers : hpc[c] \in {"idle", "done"}

\* The operation is between markApiStopping and clearApiStopping.
Marking(o) ==
  \/ pc[o] \in {"tStop", "tPush", "tRemove", "tPatch", "tOk", "dStop", "dDir", "dRemove"}
  \/ pc[o] = "dS3" /\ snap[o] # None

\* A container is in the api-stopping set exactly while the stop or delete that
\* put it there runs: no die event is ever swallowed on behalf of an operation
\* that is over, and no other operation can end the suppression early.
SuppressionExact == apiStopping = {snap[o] : o \in {p \in Ops : Marking(p)}}

\* adoptRunningContainer exists so that a start never rewrites the bind-mounted
\* config directory under a live OBS.
ConfigNotRewrittenLive == \A p \in Runners : pc[p] = "sPull" => Running = {}

\* The final push mirrors deletions to S3, which is right only for a stopped
\* container (of an instance that still has its row).
FinalPushOnlyWhenStopped ==
  status # "none" /\ (\/ \E o \in Ops : pc[o] = "tPush"
                      \/ \E c \in Containers : hpc[c] = "persist") => Running = {}

\* When a stop reports success the row is "stopped" without container, and
\* nothing of the instance is left in Docker.
StopMeansStopped ==
  \A o \in Ops : pc[o] = "tOk" => status = "stopped" /\ cid = None /\ Holding = {}

\* "Never mark a live instance error": when a failed start is about to write
\* "error" to the row, no container of the instance runs.
NeverMarkLiveError == \A p \in Runners : pc[p] = "sErrPatch" => Running = {}

\* The same of a failed create, whose own container may still run: the mutex is
\* there so that no loser of a Docker name collision "marks a genuinely running
\* instance error".
CreateNeverMarksLiveError ==
  \A o \in Ops : pc[o] = "cErrPatch" => Running \subseteq {mine[o]}

\* No container of the instance runs that the row does not name.
NoOrphan == Quiet /\ status # "none" => Running \subseteq {cid}

\* A delete tears down the container, whatever happened before it.
NoRowNoContainer == Quiet /\ status = "none" => Running = {}

\* A "starting" on the owner's screens is always resolved, unless the manager dies.
\* (A "stopping" is not: a second stop finds no container to stop and throws.)
NoDanglingProgress == Quiet /\ crashes = 0 => shown # "starting"

\* No row is left in "creating" by an operation that is over, unless the manager
\* died in it.
CreatingIsTransient == Quiet /\ crashes = 0 => status # "creating"

\* The row lets go of a container, for another one or for none, only when it runs no
\* more -- unless a create, which takes no lock, is about.
LetsGoOfTheDead ==
  [][cid # None /\ cid' # cid /\ status' # "none" => docker[cid] # "running"]_vars

\* After the boot-time reconciliation the row and its container agree again, unless
\* the owner's stream key is refused to the restart it makes.
BootRepairs ==
  [][phase = "boot" /\ phase' = "up" /\ cid' # None /\ pc[Boot] # "sKey" =>
       (status' = "running" <=> docker'[cid'] = "running")]_vars

\* A crashed manager gets through its reconciliation, whatever fails in it.
BootEnds == phase # "up" ~> phase = "up"

\* Every accepted request comes to an end.
EveryRequestEnds == \A p \in Ops : pc[p] # "idle" ~> pc[p] = "done"

-------------------------------------------------------------------------------
(* Parts of the inductive invariant behind SuppressionExact and                *)
(* ConfigNotRewrittenLive.                                                     *)

\* Who is past the wait for the lock holds it.
HoldersAreHeads ==
  /\ \A p \in Runners :
       pc[p] \in QueuedPCs \ {"sFind", "tMark", "dMark"} => HasLock(p)
  /\ \A c \in Containers : hpc[c] = "persist" => HasLock(c)

\* A stop always has a container id; so has the tear-down part of a delete.
SnapNamed ==
  \A p \in Runners :
    pc[p] \in {"tEnter", "sClear", "dStop", "dDir", "dRemove"} \cup StopPCs => snap[p] # None

\* Between its look at Docker and its own docker start a locked start finds no
\* container running -- unless a create, which takes no lock, is about.
ColdStart ==
  "create" \notin Requests =>
    \A p \in Runners :
      /\ pc[p] \notin CreatePCs
      /\ pc[p] \in {"sKey", "sClear", "sPull", "sContainer", "sBoot"} => Running = {}

IInv == TypeOK /\ HoldersAreHeads /\ SnapNamed /\ ColdStart /\ SuppressionExact
-------------------------------------------------------------------------------
(* Parts of the inductive invariant behind the other properties.  Each names   *)
(* the requests and faults it does not survive.                                *)

\* The reconciliation has the manager to itself.
BootPCs == {"bRead", "bInspect", "bError", "bRunning", "bStopped"}

BootAlone ==
  /\ phase = "boot" <=> pc[Boot] \notin {"idle", "done"}
  /\ phase # "up" =>
       /\ \A o \in Ops : pc[o] \in {"idle", "done"}
       /\ \A c \in Containers : hpc[c] \in {"idle", "done"}
  /\ pc[Boot] \in {"idle", "done"} \cup BootPCs \cup StartPCs
  /\ \A o \in Ops : pc[o] \notin BootPCs
  /\ crashes # 0 => Fault("crash")

\* Docker has one container of the name.
OneContainer == \A c, d \in Holding : c = d

\* A container is created by one operation, and started by no other.
OwnContainers ==
  /\ \A p, q \in Runners : mine[p] # None /\ mine[p] = mine[q] => p = q
  /\ \A p \in Runners : mine[p] # None => docker[mine[p]] # "absent"
  /\ \A p \in Runners :
       /\ pc[p] \in {"cBoot", "cPatch", "sBoot", "sPatch", "sCleanup"} => mine[p] # None
       /\ pc[p] = "cBoot" => docker[mine[p]] \in {"created", "removed"}
       /\ pc[p] = "sBoot" => docker[mine[p]] = "created"
       /\ pc[p] = "sPatch" => docker[mine[p]] \in {"running", "exited"}
  /\ \A o \in Ops : pc[o] \in {"idle", "cKey", "cUndo", "cPull", "cContainer"} => mine[o] = None

\* What has ended does not run again.
DeadStayDead ==
  \A c \in Containers :
    c \in dieEvents \/ hpc[c] # "idle" => docker[c] \in {"exited", "removed"}

\* Without a row there is no container id, and no "starting".
NoRowNoId == status = "none" => cid = None /\ shown # "starting"

\* A stop has stopped its container, then removed it, then cleared the row.
StopTakesAll ==
  "create" \notin Requests =>
    \A o \in Ops :
      /\ pc[o] \in {"tPush", "tRemove"} => docker[snap[o]] = "exited"
      /\ pc[o] \in {"tPatch", "tOk"} => Running = {}
      /\ pc[o] \in {"tPatch", "tOk"} /\ ~Fault("docker") => Holding = {}
      /\ pc[o] = "tOk" => status = "stopped" /\ cid = None

\* A start adopts the container that runs, and marks an error when none does.
LookedTwice ==
  "create" \notin Requests =>
    \A p \in Runners :
      /\ pc[p] = "sAdopt" => Running \subseteq {snap[p]}
      /\ pc[p] = "sErrPatch" /\ ~Fault("docker") => Running = {}

\* The death of the container that the row names is on its way through the handler.
Dying ==
  \E c \in Containers :
    \/ cid = c /\ (c \in dieEvents \/ hpc[c] = "patch")
    \/ hpc[c] \in {"notify", "check", "persist"}

\* What runs is named by the row, or was started by the operation that is about to
\* write it there, or to remove it again.
Attributed ==
  "create" \notin Requests /\ ~Fault("docker") /\ status # "none" /\ (crashes = 0 \/ Dying) =>
    \/ Running \subseteq {cid}
    \/ \E p \in Runners : pc[p] \in {"sPatch", "sCleanup"} /\ Running \subseteq {mine[p]}

\* The push after a death runs on a row that names no container.
PushAfterDeath == "create" \notin Requests => \A c \in Containers : hpc[c] = "persist" => cid = None

\* What a refused create has made is gone before it says so: its removal is for
\* the containers it could not start.
FailedCreate ==
  \A o \in Ops :
    /\ pc[o] \in CreatePCs \ {"cKey", "cUndo"} => shown # "none"
    /\ ~Fault("rest") /\ ~Fault("docker") =>
         /\ pc[o] = "cErrPatch" =>
              mine[o] = None \/ docker[mine[o]] = "removed" \/ status = "none"
         /\ pc[o] = "cErr" => mine[o] = None \/ docker[mine[o]] = "removed"

\* A create has Docker to itself, as long as nothing else starts the instance.
OnlyCreate ==
  /\ pendingGpuRecovery => "recover" \in Requests
  /\ Requests \cap {"start", "recover"} = {} =>
       /\ \A o \in Ops : pc[o] \notin StartPCs \cup {"sEnter"}
       /\ pc[Boot] \in {"sClear", "sPull", "sContainer"} => shown # "none"
       /\ shown = "none" => \A c \in Containers : docker[c] = "absent"
       /\ \A o, q \in Ops : pc[o] \in CreatePCs /\ pc[q] \in CreatePCs => o = q
       /\ \A o \in Ops : pc[o] \in CreatePCs =>
            /\ status # "none" \/ shown # "none"
            /\ \A c \in Containers : docker[c] # "absent" => c = mine[o]

\* The stale container a start has found is there when the start removes it.
StaleIsThere ==
  ~Fault("rest") /\ ~Fault("docker") =>
    \A p \in Runners :
      pc[p] \in {"sKey", "sClear"} /\ snap[p] # None => snap[p] \in Holding

\* Who still has something to say.
Speaking ==
  {"cPull", "cContainer", "cBoot", "cPatch", "cOk", "cErrPatch", "cErr"} \cup (StartPCs \ {"sFind", "sKey"})

\* A "starting" is followed by the end of somebody's start.
StartIsAnswered ==
  Faults \cap {"rest", "docker", "disk"} = {} /\ crashes = 0 /\ shown = "starting" =>
    \E p \in Runners : pc[p] \in Speaking

\* A row in "creating" belongs to a create that has not written to it yet.
CreatingIsOwned ==
  ~Fault("rest") /\ crashes = 0 /\ status = "creating" =>
    \E o \in Ops : pc[o] \in {"cKey", "cUndo", "cPull", "cContainer", "cBoot", "cPatch", "cErrPatch"}

\* The reconciliation acts on what it has seen.
BootKnows ==
  phase = "boot" /\ Faults \cap {"rest", "docker", "disk", "race"} = {} =>
    /\ pc[Boot] # "bRead" => status # "none"
    /\ pc[Boot] = "bInspect" => cid # None /\ snap[Boot] = cid
    /\ pc[Boot] = "bError" => cid # None /\ docker[cid] = "removed"
    /\ pc[Boot] = "bRunning" => cid # None /\ docker[cid] = "running"
    /\ pc[Boot] = "bStopped" => cid # None /\ docker[cid] \in {"created", "exited"}
    /\ pc[Boot] = "sAdopt" => snap[Boot] \in Running
    /\ pc[Boot] \in {"sKey", "sClear"} /\ snap[Boot] = None => Holding = {}
    /\ pc[Boot] \in {"sPull", "sContainer"} => Holding = {}
    /\ pc[Boot] = "sPatch" => docker[mine[Boot]] = "running"
    /\ pc[Boot] = "sOk" => cid # None /\ status = "running" /\ docker[cid] = "running"
    /\ pc[Boot] \notin {"sCleanup", "sSurvivor", "sErrPatch", "sErr"}

RowInv ==
  /\ BootAlone /\ OneContainer /\ OwnContainers /\ DeadStayDead /\ NoRowNoId
  /\ StopTakesAll /\ LookedTwice /\ Attributed /\ PushAfterDeath
  /\ FailedCreate /\ OnlyCreate /\ StaleIsThere /\ StartIsAnswered /\ CreatingIsOwned /\ BootKnows

-------------------------------------------------------------------------------
(* The queue of the lock. *)

Listed(q, x) == \E i \in DOMAIN q : q[i] = x

Once(q) == \A i, j \in DOMAIN q : q[i] = q[j] => i = j

\* Waits for the lock, or works under it.
Underway(x) ==
  \/ x \in Runners /\ pc[x] \in QueuedPCs
  \/ x \in Containers /\ hpc[x] \in {"check", "persist"}

\* The queue has who waits or works, each once, and nobody else: who is over has left it,
\* whichever way it went.  That a handler joins once rests on a container's dying once.
QueueExact ==
  /\ Once(queue)
  /\ \A x \in Runners \cup Containers : Listed(queue, x) <=> Underway(x)
  /\ \A c \in dieEvents : hpc[c] = "idle"

\* What every reachable state satisfies, whatever is asked for and whatever fails.
LifecycleInv == IInv /\ RowInv /\ QueueExact
===============================================================================
