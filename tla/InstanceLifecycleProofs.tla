----------------------- MODULE InstanceLifecycleProofs -----------------------
(***************************************************************************)
(* Proofs about InstanceLifecycle, for any number of requests, containers  *)
(* and crashes and any combination of faults: the invariant IInv, hence    *)
(* type correctness, the exactness of the api-stopping set, and that no    *)
(* start rewrites the configuration under a running container as long as   *)
(* creates are left out.                                                   *)
(*                                                                         *)
(* The argument: whoever is past its wait is at the head of the lock's     *)
(* queue (HoldersAreHeads), so at most one operation is in its critical    *)
(* section.  What that operation has put into the api-stopping set, and    *)
(* what it has seen in Docker, nobody else changes before it exits.        *)
(***************************************************************************)
EXTENDS InstanceLifecycle, TLAPS

-------------------------------------------------------------------------------
(* The queue of the lock. *)

\* Taking from and adding to a queue gives a queue; the head stays.
LEMMA QueueTyped ==
  ASSUME NEW S, NEW q \in Seq(S)
  PROVE  /\ q # <<>> => Tail(q) \in Seq(S)
         /\ \A x \in S : Append(q, x) \in Seq(S)
  OBVIOUS

\* Whoever joins the queue is its head only if it was empty.
LEMMA QueueGrows ==
  ASSUME NEW S, NEW q \in Seq(S), NEW x \in S
  PROVE  /\ Append(q, x) # <<>>
         /\ q # <<>> => Head(Append(q, x)) = Head(q)
         /\ q = <<>> => Head(Append(q, x)) = x
  OBVIOUS

\* The lock excludes: whoever is past its wait is the holder.
LEMMA OneHolder ==
  ASSUME HoldersAreHeads, NEW p, HasLock(p)
  PROVE  /\ \A q \in Runners : pc[q] \in QueuedPCs \ {"sFind", "tMark", "dMark"} => q = p
         /\ \A c \in Containers : hpc[c] = "persist" => c = p
  BY DEF HoldersAreHeads, HasLock

\* Exit of the holder keeps the types.
LEMMA HolderExits ==
  ASSUME TypeOK, NEW p \in Runners, HasLock(p), Exit(p)
  PROVE  /\ queue' \in Seq(Runners \cup Containers)
         /\ pc' = [pc EXCEPT ![p] = "done"]
         /\ pc' \in [Runners -> PCs]
         /\ phase' \in {"up", "down", "boot"}
         /\ crashes' \in Nat /\ pendingGpuRecovery' \in BOOLEAN
  BY QueueTyped DEF TypeOK, HasLock, Exit, Goto, PCs

\* The final push, whatever comes of it, leaves two Booleans.
LEMMA PersistTyped ==
  ASSUME TypeOK, PersistAndRemove
  PROVE  dir' \in BOOLEAN /\ s3' \in BOOLEAN
  BY DEF TypeOK, PersistAndRemove, store

-------------------------------------------------------------------------------
(* Types. *)

\* Steps of createInstance keep the types.
LEMMA CreateTyped ==
  ASSUME IInv, NEW o \in Ops, Create(o)
  PROVE  TypeOK'
<1> USE ConstantsOK DEF TypeOK, row, daemon, store, process, Runners, Statuses,
      DockerStates, HandlerPCs, PCs, CreatePCs, QueuedPCs, StartPCs, StopPCs, DestroyPCs,
      Goto, Stay, broadcast
<1>0. TypeOK /\ HoldersAreHeads /\ SnapNamed
  BY DEF IInv
<1>1. CASE InsertInstance(o)
  BY <1>0, <1>1 DEF InsertInstance
<1>2. CASE CreateKey(o)
  BY <1>0, <1>2 DEF CreateKey
<1>3. CASE CreateUndo(o)
  BY <1>0, <1>3 DEF CreateUndo, DeleteOk, DeleteFails
<1>4. CASE CreatePull(o)
  BY <1>0, <1>4 DEF CreatePull, PullConfig
<1>5. CASE CreateCreateContainer(o)
  BY SMTT(60), <1>0, <1>5 DEF CreateCreateContainer, CreateContainer, CreateContainerFails
<1>6. CASE CreateStartContainer(o)
  BY <1>0, <1>6 DEF CreateStartContainer, StartContainer, StartContainerFails
<1>7. CASE CreatePatch(o)
  BY <1>0, <1>7 DEF CreatePatch, PatchOk, PatchFails
<1>8. CASE CreateOk(o)
  BY <1>0, <1>8 DEF CreateOk
<1>9. CASE CreateErrPatch(o)
  BY <1>0, <1>9 DEF CreateErrPatch, PatchOk, PatchFails
<1>10. CASE CreateErr(o)
  BY <1>0, <1>10 DEF CreateErr, RemoveBestEffort, RemoveContainer, RemoveContainerFails,
     End, SnapNamed
<1> QED
  BY <1>1, <1>2, <1>3, <1>4, <1>5, <1>6, <1>7, <1>8, <1>9, <1>10 DEF Create

\* Steps of restartInstance keep the types.
LEMMA RestartTyped ==
  ASSUME IInv, NEW p \in Runners, Restart(p)
  PROVE  TypeOK'
<1> USE ConstantsOK DEF TypeOK, row, daemon, store, process, Runners, Statuses,
      DockerStates, HandlerPCs, PCs, CreatePCs, QueuedPCs, StartPCs, StopPCs, DestroyPCs,
      Goto, Stay, broadcast
<1>0. TypeOK /\ HoldersAreHeads /\ SnapNamed
  BY DEF IInv
<1>1. CASE StartFind(p)
  <2>1. HasLock(p)
    BY <1>0, <1>1 DEF StartFind, HoldersAreHeads
  <2> QED
    BY <1>0, <1>1, <2>1, HolderExits DEF StartFind
<1>2. CASE StartKey(p)
  <2>1. HasLock(p)
    BY <1>0, <1>2 DEF StartKey, HoldersAreHeads
  <2> QED
    BY <1>0, <1>2, <2>1, HolderExits DEF StartKey
<1>3. CASE StartClear(p)
  <2>1. HasLock(p) /\ snap[p] \in Containers
    BY <1>0, <1>3 DEF StartClear, HoldersAreHeads, SnapNamed
  <2>2. CASE RemoveContainer(snap[p]) /\ Goto(p, "sPull") /\ Stay
    BY <1>0, <1>3, <2>1, <2>2 DEF StartClear, RemoveContainer, End
  <2>3. CASE RemoveContainerFails(snap[p]) /\ Exit(p)
    BY <1>0, <1>3, <2>1, <2>3, HolderExits DEF StartClear, RemoveContainerFails
  <2> QED
    BY <1>3, <2>2, <2>3 DEF StartClear
<1>4. CASE StartPull(p)
  <2>1. HasLock(p)
    BY <1>0, <1>4 DEF StartPull, HoldersAreHeads
  <2> QED
    BY <1>0, <1>4, <2>1, HolderExits DEF StartPull, PullConfig
<1>5. CASE StartCreateContainer(p)
  <2>1. CASE \E c \in Containers : CreateContainer(p, c) /\ Goto(p, "sBoot")
    BY <1>0, <1>5, <2>1 DEF StartCreateContainer, CreateContainer
  <2>2. CASE CreateContainerFails /\ Goto(p, "sSurvivor")
    BY <1>0, <1>5, <2>2 DEF StartCreateContainer, CreateContainerFails
  <2> QED
    BY <1>5, <2>1, <2>2 DEF StartCreateContainer
<1>6. CASE StartStartContainer(p)
  BY <1>0, <1>6 DEF StartStartContainer, StartContainer, StartContainerFails
<1>7. CASE StartPatch(p)
  BY <1>0, <1>7 DEF StartPatch, PatchOk, PatchFails
<1>8. CASE StartOk(p)
  <2>1. HasLock(p)
    BY <1>0, <1>8 DEF StartOk, HoldersAreHeads
  <2> QED
    BY <1>0, <1>8, <2>1, HolderExits DEF StartOk
<1>9. CASE StartAdopt(p)
  <2>1. HasLock(p)
    BY <1>0, <1>9 DEF StartAdopt, HoldersAreHeads
  <2> QED
    BY <1>0, <1>9, <2>1, HolderExits DEF StartAdopt, PatchOk, PatchFails
<1>10. CASE StartCleanup(p)
  BY <1>0, <1>10 DEF StartCleanup, RemoveBestEffort, RemoveContainer,
     RemoveContainerFails, End, SnapNamed
<1>11. CASE StartSurvivor(p)
  BY <1>0, <1>11 DEF StartSurvivor, Running
<1>12. CASE StartErrPatch(p)
  <2>1. HasLock(p)
    BY <1>0, <1>12 DEF StartErrPatch, HoldersAreHeads
  <2> QED
    BY <1>0, <1>12, <2>1, HolderExits DEF StartErrPatch, PatchOk, PatchFails
<1>13. CASE StartErr(p)
  <2>1. HasLock(p)
    BY <1>0, <1>13 DEF StartErr, HoldersAreHeads
  <2> QED
    BY <1>0, <1>13, <2>1, HolderExits DEF StartErr
<1> QED
  BY <1>1, <1>2, <1>3, <1>4, <1>5, <1>6, <1>7, <1>8, <1>9, <1>10, <1>11, <1>12, <1>13
     DEF Restart

\* Steps of stopInstance keep the types.
LEMMA StopTyped ==
  ASSUME IInv, NEW o \in Ops, Stop(o)
  PROVE  TypeOK'
<1> USE ConstantsOK DEF TypeOK, row, daemon, store, process, Runners, Statuses,
      DockerStates, HandlerPCs, PCs, CreatePCs, QueuedPCs, StartPCs, StopPCs, DestroyPCs,
      Goto, Stay, broadcast
<1>0. TypeOK /\ HoldersAreHeads /\ SnapNamed
  BY DEF IInv
<1>1. CASE StopRead(o)
  BY <1>0, <1>1 DEF StopRead
<1>2. CASE SweepCheck(o)
  BY <1>0, <1>2 DEF SweepCheck
<1>3. CASE SweepRead(o)
  BY SMTT(30), <1>0, <1>3 DEF SweepRead
<1>4. CASE StopEnter(o)
  BY SMTT(60), <1>0, <1>4, QueueTyped DEF StopEnter, Enqueue
<1>5. CASE StopMark(o)
  BY <1>0, <1>5 DEF StopMark, SnapNamed
<1>6. CASE StopStop(o)
  <2>1. HasLock(o) /\ snap[o] \in Containers
    BY <1>0, <1>6 DEF StopStop, HoldersAreHeads, SnapNamed
  <2>2. CASE StopContainer(snap[o]) /\ Goto(o, "tPush") /\ Stay /\ UNCHANGED apiStopping
    BY <1>0, <1>6, <2>1, <2>2 DEF StopStop, StopContainer, End
  <2>3. CASE StopContainerFails(snap[o]) /\ StopExit(o)
    BY <1>0, <1>6, <2>1, <2>3, HolderExits DEF StopStop, StopContainerFails, StopExit
  <2> QED
    BY <1>6, <2>2, <2>3 DEF StopStop
<1>7. CASE StopPush(o)
  BY <1>0, <1>7, PersistTyped DEF StopPush
<1>8. CASE StopRemove(o)
  BY <1>0, <1>8 DEF StopRemove, RemoveBestEffort, RemoveContainer, RemoveContainerFails,
     End, SnapNamed
<1>9. CASE StopPatch(o)
  <2>1. HasLock(o)
    BY <1>0, <1>9 DEF StopPatch, HoldersAreHeads
  <2> QED
    BY <1>0, <1>9, <2>1, HolderExits DEF StopPatch, PatchOk, PatchFails, StopExit
<1>10. CASE StopOk(o)
  <2>1. HasLock(o)
    BY <1>0, <1>10 DEF StopOk, HoldersAreHeads
  <2> QED
    BY <1>0, <1>10, <2>1, HolderExits DEF StopOk, StopExit
<1> QED
  BY <1>1, <1>2, <1>3, <1>4, <1>5, <1>6, <1>7, <1>8, <1>9, <1>10 DEF Stop

\* Steps of destroyInstance keep the types.
LEMMA DestroyTyped ==
  ASSUME IInv, NEW o \in Ops, Destroy(o)
  PROVE  TypeOK'
<1> USE ConstantsOK DEF TypeOK, row, daemon, store, process, Runners, Statuses,
      DockerStates, HandlerPCs, PCs, CreatePCs, QueuedPCs, StartPCs, StopPCs, DestroyPCs,
      Goto, Stay, broadcast
<1>0. TypeOK /\ HoldersAreHeads /\ SnapNamed
  BY DEF IInv
<1>1. CASE DestroyRead(o)
  BY <1>0, <1>1 DEF DestroyRead
<1>2. CASE DestroyEnter(o)
  BY SMTT(60), <1>0, <1>2, QueueTyped DEF DestroyEnter, Enqueue
<1>3. CASE DestroyMark(o)
  BY <1>0, <1>3 DEF DestroyMark, SnapNamed
<1>4. CASE DestroyStop(o)
  BY <1>0, <1>4 DEF DestroyStop, StopContainer, StopContainerFails, End, SnapNamed
<1>5. CASE DestroyDir(o)
  <2>1. dir' \in BOOLEAN
    BY <1>0, <1>5 DEF DestroyDir
  <2>2. pc' \in [Runners -> PCs]
    BY <1>0, <1>5 DEF DestroyDir
  <2> QED
    BY SMTT(60), <1>0, <1>5, <2>1, <2>2 DEF DestroyDir
<1>6. CASE DestroyRemove(o)
  BY <1>0, <1>6 DEF DestroyRemove, RemoveBestEffort, RemoveContainer,
     RemoveContainerFails, End, SnapNamed
<1>7. CASE DestroyS3(o)
  <2>1. s3' \in BOOLEAN
    BY <1>0, <1>7 DEF DestroyS3
  <2>2. pc' \in [Runners -> PCs]
    BY <1>0, <1>7 DEF DestroyS3
  <2> QED
    BY SMTT(60), <1>0, <1>7, <2>1, <2>2 DEF DestroyS3
<1>8. CASE DestroyRow(o)
  <2>1. HasLock(o)
    BY <1>0, <1>8 DEF DestroyRow, HoldersAreHeads
  <2> QED
    BY <1>0, <1>8, <2>1, HolderExits DEF DestroyRow, DeleteOk, DeleteFails
<1> QED
  BY <1>1, <1>2, <1>3, <1>4, <1>5, <1>6, <1>7, <1>8 DEF Destroy

\* Steps of handleContainerDieEvent keep the types.
LEMMA HandlerTyped ==
  ASSUME IInv, NEW c \in Containers, Handler(c)
  PROVE  TypeOK'
<1> USE ConstantsOK DEF TypeOK, row, daemon, store, process, Runners, Statuses,
      DockerStates, HandlerPCs, PCs, CreatePCs, QueuedPCs, StartPCs, StopPCs, DestroyPCs,
      Goto, Stay, broadcast
<1>0. TypeOK /\ HoldersAreHeads /\ SnapNamed
  BY DEF IInv
<1>1. CASE DieEvent(c)
  BY <1>0, <1>1 DEF DieEvent
<1>2. CASE DiePatch(c)
  BY <1>0, <1>2 DEF DiePatch
<1>3. CASE DieNotify(c)
  BY ZenonT(30), <1>0, <1>3, QueueTyped DEF DieNotify, Enqueue
<1>4. CASE DieCheck(c)
  <2>1. HasLock(c)
    BY <1>0, <1>4 DEF DieCheck, HoldersAreHeads
  <2>2. Tail(queue) \in Seq(Runners \cup Containers)
    BY <1>0, <2>1, QueueTyped DEF HasLock
  <2>3. queue' \in Seq(Runners \cup Containers)
    BY <1>0, <1>4, <2>2 DEF DieCheck
  <2>4. hpc' \in [Containers -> HandlerPCs]
    BY <1>0, <1>4 DEF DieCheck
  <2> QED
    BY <1>0, <1>4, <2>3, <2>4 DEF DieCheck
<1>5. CASE DiePersist(c)
  <2>1. HasLock(c)
    BY <1>0, <1>5 DEF DiePersist, HoldersAreHeads
  <2>2. Tail(queue) \in Seq(Runners \cup Containers)
    BY <1>0, <2>1, QueueTyped DEF HasLock
  <2>3. queue' \in Seq(Runners \cup Containers)
    BY <1>0, <1>5, <2>2 DEF DiePersist
  <2>4. hpc' \in [Containers -> HandlerPCs]
    BY <1>0, <1>5 DEF DiePersist
  <2> QED
    BY <1>0, <1>5, <2>3, <2>4, PersistTyped DEF DiePersist
<1> QED
  BY <1>1, <1>2, <1>3, <1>4, <1>5 DEF Handler

\* Steps of reconcileContainers keep the types.
LEMMA ReconcileTyped ==
  ASSUME IInv, Reconcile
  PROVE  TypeOK'
<1> USE ConstantsOK DEF TypeOK, row, daemon, store, process, Runners, Statuses,
      DockerStates, HandlerPCs, PCs, CreatePCs, QueuedPCs, StartPCs, StopPCs, DestroyPCs,
      Goto, Stay, broadcast
<1>0. TypeOK /\ HoldersAreHeads /\ SnapNamed
  BY DEF IInv
<1>1. CASE ReconcileRead
  BY <1>0, <1>1 DEF ReconcileRead, Booted
<1>2. CASE ReconcileInspect
  <2>1. Append(queue, Boot) \in Seq(Runners \cup Containers)
    BY <1>0, QueueTyped
  <2>2. queue' \in Seq(Runners \cup Containers)
    BY <1>0, <1>2, <2>1 DEF ReconcileInspect, Booted, Enqueue
  <2>3. pc' \in [Runners -> PCs] /\ phase' \in {"up", phase}
      /\ crashes' = crashes /\ pendingGpuRecovery' = pendingGpuRecovery
    BY <1>0, <1>2 DEF ReconcileInspect, Booted
  <2>4. UNCHANGED <<row, daemon, mine, snap, hpc, apiStopping, store, shown>>
    BY <1>2 DEF ReconcileInspect
  <2> QED
    BY <1>0, <2>2, <2>3, <2>4
<1>3. CASE ReconcilePatch
  BY <1>0, <1>3 DEF ReconcilePatch, Booted, PatchOk, PatchFails
<1> QED
  BY <1>1, <1>2, <1>3 DEF Reconcile

-------------------------------------------------------------------------------
(* The other parts of the invariant. *)

\* Steps of createInstance keep the lock, the ids and the api-stopping set in order.
LEMMA CreateSafe ==
  ASSUME IInv, TypeOK', NEW o \in Ops, Create(o)
  PROVE  HoldersAreHeads' /\ SnapNamed' /\ ColdStart' /\ SuppressionExact'
<1> USE ConstantsOK DEF HoldersAreHeads, SnapNamed, ColdStart, SuppressionExact, Marking,
      row, daemon, store, process, Runners, CreatePCs, QueuedPCs, StartPCs, StopPCs,
      DestroyPCs, Goto, Stay, Exit, Enqueue, HasLock, isInstanceLocked, Running
<1>0. TypeOK /\ HoldersAreHeads /\ SnapNamed /\ ColdStart /\ SuppressionExact
  BY DEF IInv
<1>1. CASE InsertInstance(o)
  BY <1>0, <1>1 DEF InsertInstance, TypeOK
<1>2. CASE CreateKey(o)
  BY <1>0, <1>2 DEF CreateKey, TypeOK
<1>3. CASE CreateUndo(o)
  BY <1>0, <1>3 DEF CreateUndo, DeleteOk, DeleteFails, TypeOK
<1>4. CASE CreatePull(o)
  BY <1>0, <1>4 DEF CreatePull, PullConfig, TypeOK
<1>5. CASE CreateCreateContainer(o)
  BY <1>0, <1>5 DEF CreateCreateContainer, CreateContainer, CreateContainerFails, TypeOK
<1>6. CASE CreateStartContainer(o)
  BY <1>0, <1>6 DEF CreateStartContainer, StartContainer, StartContainerFails, TypeOK
<1>7. CASE CreatePatch(o)
  BY <1>0, <1>7 DEF CreatePatch, PatchOk, PatchFails, TypeOK
<1>8. CASE CreateOk(o)
  BY <1>0, <1>8 DEF CreateOk, TypeOK
<1>9. CASE CreateErrPatch(o)
  BY <1>0, <1>9 DEF CreateErrPatch, PatchOk, PatchFails, TypeOK
<1>10. CASE CreateErr(o)
  BY <1>0, <1>10 DEF CreateErr, RemoveBestEffort, RemoveContainer, RemoveContainerFails,
     End, TypeOK
<1> QED
  BY <1>1, <1>2, <1>3, <1>4, <1>5, <1>6, <1>7, <1>8, <1>9, <1>10 DEF Create

\* Steps of restartInstance keep the lock, the ids and the api-stopping set in order.
LEMMA RestartSafe ==
  ASSUME IInv, TypeOK', NEW p \in Runners, Restart(p)
  PROVE  HoldersAreHeads' /\ SnapNamed' /\ ColdStart' /\ SuppressionExact'
<1> USE ConstantsOK DEF HoldersAreHeads, SnapNamed, ColdStart, SuppressionExact, Marking,
      row, daemon, store, process, Runners, CreatePCs, QueuedPCs, StartPCs, StopPCs,
      DestroyPCs, Goto, Stay, Exit, Enqueue, HasLock, isInstanceLocked, Running
<1>0. TypeOK /\ HoldersAreHeads /\ SnapNamed /\ ColdStart /\ SuppressionExact
  BY DEF IInv
<1>1. CASE StartFind(p)
  BY SMTT(60), <1>0, <1>1 DEF StartFind, TypeOK
<1>2. CASE StartKey(p)
  BY <1>0, <1>2 DEF StartKey, TypeOK
<1>3. CASE StartClear(p)
  <2>1. HasLock(p)
    BY <1>0, <1>3 DEF StartClear
  <2>2. \A q \in Runners : pc[q] \in QueuedPCs \ {"sFind", "tMark", "dMark"} => q = p
    BY <1>0, <2>1, OneHolder
  <2>3. HoldersAreHeads'
    BY SMTT(60), <1>0, <1>3, <2>1, <2>2 DEF StartClear, RemoveContainer, RemoveContainerFails,
       End, TypeOK
  <2>4. SnapNamed'
    BY <1>0, <1>3, <2>1, <2>2 DEF StartClear, RemoveContainer, RemoveContainerFails,
       End, TypeOK
  <2>5. ColdStart'
    BY <1>0, <1>3, <2>1, <2>2 DEF StartClear, RemoveContainer, RemoveContainerFails,
       End, TypeOK
  <2>6. SuppressionExact'
    BY <1>0, <1>3, <2>1, <2>2 DEF StartClear, RemoveContainer, RemoveContainerFails,
       End, TypeOK
  <2> QED
    BY <2>3, <2>4, <2>5, <2>6
<1>4. CASE StartPull(p)
  <2>1. HasLock(p)
    BY <1>0, <1>4 DEF StartPull
  <2>2. \A q \in Runners : pc[q] \in QueuedPCs \ {"sFind", "tMark", "dMark"} => q = p
    BY <1>0, <2>1, OneHolder
  <2>3. HoldersAreHeads'
    BY <1>0, <1>4, <2>1, <2>2 DEF StartPull, PullConfig, TypeOK
  <2>4. SnapNamed'
    BY <1>0, <1>4, <2>1, <2>2 DEF StartPull, PullConfig, TypeOK
  <2>5. ColdStart'
    BY <1>0, <1>4, <2>1, <2>2 DEF StartPull, PullConfig, TypeOK
  <2>6. SuppressionExact'
    BY <1>0, <1>4, <2>1, <2>2 DEF StartPull, PullConfig, TypeOK
  <2> QED
    BY <2>3, <2>4, <2>5, <2>6
<1>5. CASE StartCreateContainer(p)
  BY <1>0, <1>5 DEF StartCreateContainer, CreateContainer, CreateContainerFails, TypeOK
<1>6. CASE StartStartContainer(p)
  BY <1>0, <1>6 DEF StartStartContainer, StartContainer, StartContainerFails, TypeOK
<1>7. CASE StartPatch(p)
  BY <1>0, <1>7 DEF StartPatch, PatchOk, PatchFails, TypeOK
<1>8. CASE StartOk(p)
  BY <1>0, <1>8 DEF StartOk, TypeOK
<1>9. CASE StartAdopt(p)
  BY <1>0, <1>9 DEF StartAdopt, PatchOk, PatchFails, TypeOK
<1>10. CASE StartCleanup(p)
  BY <1>0, <1>10 DEF StartCleanup, RemoveBestEffort, RemoveContainer,
     RemoveContainerFails, End, TypeOK
<1>11. CASE StartSurvivor(p)
  BY <1>0, <1>11 DEF StartSurvivor, TypeOK
<1>12. CASE StartErrPatch(p)
  BY <1>0, <1>12 DEF StartErrPatch, PatchOk, PatchFails, TypeOK
<1>13. CASE StartErr(p)
  BY <1>0, <1>13 DEF StartErr, TypeOK
<1> QED
  BY <1>1, <1>2, <1>3, <1>4, <1>5, <1>6, <1>7, <1>8, <1>9, <1>10, <1>11, <1>12, <1>13
     DEF Restart

\* Steps of stopInstance keep the lock, the ids and the api-stopping set in order.
LEMMA StopSafe ==
  ASSUME IInv, TypeOK', NEW o \in Ops, Stop(o)
  PROVE  HoldersAreHeads' /\ SnapNamed' /\ ColdStart' /\ SuppressionExact'
<1> USE ConstantsOK DEF HoldersAreHeads, SnapNamed, ColdStart, SuppressionExact, Marking,
      row, daemon, store, process, Runners, CreatePCs, QueuedPCs, StartPCs, StopPCs,
      DestroyPCs, Goto, Stay, Exit, Enqueue, HasLock, isInstanceLocked, Running
<1>0. TypeOK /\ HoldersAreHeads /\ SnapNamed /\ ColdStart /\ SuppressionExact
  BY DEF IInv
<1>1. CASE StopRead(o)
  BY <1>0, <1>1 DEF StopRead, TypeOK
<1>2. CASE SweepCheck(o)
  BY <1>0, <1>2 DEF SweepCheck, TypeOK
<1>3. CASE SweepRead(o)
  BY <1>0, <1>3 DEF SweepRead, TypeOK
<1>4. CASE StopEnter(o)
  BY <1>0, <1>4 DEF StopEnter, TypeOK
<1>5. CASE StopMark(o)
  BY <1>0, <1>5 DEF StopMark, TypeOK
<1>6. CASE StopStop(o)
  <2>1. HasLock(o)
    BY <1>0, <1>6 DEF StopStop
  <2>2. \A q \in Runners : pc[q] \in QueuedPCs \ {"sFind", "tMark", "dMark"} => q = o
    BY <1>0, <2>1, OneHolder
  <2>3. HoldersAreHeads'
    BY <1>0, <1>6, <2>1, <2>2 DEF StopStop, StopContainer, StopContainerFails, End,
       StopExit, TypeOK
  <2>4. SnapNamed'
    BY <1>0, <1>6, <2>1, <2>2 DEF StopStop, StopContainer, StopContainerFails, End,
       StopExit, TypeOK
  <2>5. ColdStart'
    BY <1>0, <1>6, <2>1, <2>2 DEF StopStop, StopContainer, StopContainerFails, End,
       StopExit, TypeOK
  <2>6. SuppressionExact'
    <3>1. CASE StopContainer(snap[o]) /\ Goto(o, "tPush") /\ UNCHANGED apiStopping
      BY <1>0, <1>6, <3>1 DEF StopStop, TypeOK
    <3>2. CASE StopContainerFails(snap[o]) /\ StopExit(o)
      <4>0. {q \in Ops : Marking(q)} = {o}
        BY <1>0, <1>6, <2>2 DEF StopStop
      <4>1. apiStopping = {snap[o]}
        <5> HIDE DEF Marking
        <5> QED
          BY <1>0, <4>0
      <4>2. \A q \in Ops : pc'[q] \notin {"tStop", "tPush", "tRemove", "tPatch", "tOk", "dStop",
                                       "dDir", "dRemove", "dS3"}
        BY <1>0, <1>6, <2>2, <3>2 DEF StopStop, StopExit, TypeOK
      <4> QED
        BY <3>2, <4>1, <4>2 DEF StopExit
    <3> QED
      BY <1>6, <3>1, <3>2 DEF StopStop
  <2> QED
    BY <2>3, <2>4, <2>5, <2>6
<1>7. CASE StopPush(o)
  BY <1>0, <1>7 DEF StopPush, PersistAndRemove, TypeOK
<1>8. CASE StopRemove(o)
  BY <1>0, <1>8 DEF StopRemove, RemoveBestEffort, RemoveContainer, RemoveContainerFails,
     End, TypeOK
<1>9. CASE StopPatch(o)
  <2>1. HasLock(o)
    BY <1>0, <1>9 DEF StopPatch
  <2>2. \A q \in Runners : pc[q] \in QueuedPCs \ {"sFind", "tMark", "dMark"} => q = o
    BY <1>0, <2>1, OneHolder
  <2>3. HoldersAreHeads'
    BY <1>0, <1>9, <2>1, <2>2 DEF StopPatch, PatchOk, PatchFails, StopExit, TypeOK
  <2>4. SnapNamed'
    BY <1>0, <1>9, <2>1, <2>2 DEF StopPatch, PatchOk, PatchFails, StopExit, TypeOK
  <2>5. ColdStart'
    BY <1>0, <1>9, <2>1, <2>2 DEF StopPatch, PatchOk, PatchFails, StopExit, TypeOK
  <2>6. SuppressionExact'
    <3>0. {q \in Ops : Marking(q)} = {o}
      BY <1>0, <1>9, <2>2 DEF StopPatch
    <3>1. CASE Goto(o, "tOk") /\ UNCHANGED apiStopping
      <4>1. \A q \in Ops : Marking(q)' <=> Marking(q)
        BY <1>0, <1>9, <3>1 DEF StopPatch, TypeOK
      <4> HIDE DEF Marking
      <4> QED
        BY <1>0, <1>9, <3>1, <4>1 DEF StopPatch
    <3>2. CASE StopExit(o)
      <4>1. apiStopping = {snap[o]}
        <5> HIDE DEF Marking
        <5> QED
          BY <1>0, <3>0
      <4>2. \A q \in Ops : pc'[q] \notin {"tStop", "tPush", "tRemove", "tPatch", "tOk", "dStop",
                                       "dDir", "dRemove", "dS3"}
        BY <1>0, <1>9, <2>2, <3>2 DEF StopPatch, StopExit, TypeOK
      <4> QED
        BY <3>2, <4>1, <4>2 DEF StopExit
    <3> QED
      BY <1>9, <3>1, <3>2 DEF StopPatch
  <2> QED
    BY <2>3, <2>4, <2>5, <2>6
<1>10. CASE StopOk(o)
  <2>1. HasLock(o)
    BY <1>0, <1>10 DEF StopOk
  <2>2. \A q \in Runners : pc[q] \in QueuedPCs \ {"sFind", "tMark", "dMark"} => q = o
    BY <1>0, <2>1, OneHolder
  <2>3. HoldersAreHeads'
    BY <1>0, <1>10, <2>1, <2>2 DEF StopOk, StopExit, TypeOK
  <2>4. SnapNamed'
    BY <1>0, <1>10, <2>1, <2>2 DEF StopOk, StopExit, TypeOK
  <2>5. ColdStart'
    BY <1>0, <1>10, <2>1, <2>2 DEF StopOk, StopExit, TypeOK
  <2>6. SuppressionExact'
    BY <1>0, <1>10, <2>1, <2>2 DEF StopOk, StopExit, TypeOK
  <2> QED
    BY <2>3, <2>4, <2>5, <2>6
<1> QED
  BY <1>1, <1>2, <1>3, <1>4, <1>5, <1>6, <1>7, <1>8, <1>9, <1>10 DEF Stop

\* Steps of destroyInstance keep the lock, the ids and the api-stopping set in order.
LEMMA DestroySafe ==
  ASSUME IInv, TypeOK', NEW o \in Ops, Destroy(o)
  PROVE  HoldersAreHeads' /\ SnapNamed' /\ ColdStart' /\ SuppressionExact'
<1> USE ConstantsOK DEF HoldersAreHeads, SnapNamed, ColdStart, SuppressionExact, Marking,
      row, daemon, store, process, Runners, CreatePCs, QueuedPCs, StartPCs, StopPCs,
      DestroyPCs, Goto, Stay, Exit, Enqueue, HasLock, isInstanceLocked, Running
<1>0. TypeOK /\ HoldersAreHeads /\ SnapNamed /\ ColdStart /\ SuppressionExact
  BY DEF IInv
<1>1. CASE DestroyRead(o)
  BY <1>0, <1>1 DEF DestroyRead, TypeOK
<1>2. CASE DestroyEnter(o)
  <2>1. HoldersAreHeads'
    BY <1>0, <1>2, QueueGrows DEF DestroyEnter, TypeOK
  <2>2. SnapNamed'
    BY <1>0, <1>2, QueueGrows DEF DestroyEnter, TypeOK
  <2>3. ColdStart'
    BY <1>0, <1>2, QueueGrows DEF DestroyEnter, TypeOK
  <2>4. SuppressionExact'
    BY <1>0, <1>2, QueueGrows DEF DestroyEnter, TypeOK
  <2> QED
    BY <2>1, <2>2, <2>3, <2>4
<1>3. CASE DestroyMark(o)
  BY <1>0, <1>3 DEF DestroyMark, TypeOK
<1>4. CASE DestroyStop(o)
  BY <1>0, <1>4 DEF DestroyStop, StopContainer, StopContainerFails, End, TypeOK
<1>5. CASE DestroyDir(o)
  BY <1>0, <1>5 DEF DestroyDir, TypeOK
<1>6. CASE DestroyRemove(o)
  BY <1>0, <1>6 DEF DestroyRemove, RemoveBestEffort, RemoveContainer,
     RemoveContainerFails, End, TypeOK
<1>7. CASE DestroyS3(o)
  BY <1>0, <1>7 DEF DestroyS3, TypeOK
<1>8. CASE DestroyRow(o)
  BY <1>0, <1>8 DEF DestroyRow, DeleteOk, DeleteFails, TypeOK
<1> QED
  BY <1>1, <1>2, <1>3, <1>4, <1>5, <1>6, <1>7, <1>8 DEF Destroy

\* Steps of handleContainerDieEvent keep the lock, the ids and the api-stopping set in order.
LEMMA HandlerSafe ==
  ASSUME IInv, TypeOK', NEW c \in Containers, Handler(c)
  PROVE  HoldersAreHeads' /\ SnapNamed' /\ ColdStart' /\ SuppressionExact'
<1> USE ConstantsOK DEF HoldersAreHeads, SnapNamed, ColdStart, SuppressionExact, Marking,
      row, daemon, store, process, Runners, CreatePCs, QueuedPCs, StartPCs, StopPCs,
      DestroyPCs, Goto, Stay, Exit, Enqueue, HasLock, isInstanceLocked, Running
<1>0. TypeOK /\ HoldersAreHeads /\ SnapNamed /\ ColdStart /\ SuppressionExact
  BY DEF IInv
<1>1. CASE DieEvent(c)
  BY <1>0, <1>1 DEF DieEvent, TypeOK
<1>2. CASE DiePatch(c)
  BY <1>0, <1>2 DEF DiePatch, TypeOK
<1>3. CASE DieNotify(c)
  BY <1>0, <1>3 DEF DieNotify, TypeOK
<1>4. CASE DieCheck(c)
  BY <1>0, <1>4 DEF DieCheck, TypeOK
<1>5. CASE DiePersist(c)
  BY <1>0, <1>5 DEF DiePersist, PersistAndRemove, TypeOK
<1> QED
  BY <1>1, <1>2, <1>3, <1>4, <1>5 DEF Handler

\* Steps of reconcileContainers keep the lock, the ids and the api-stopping set in order.
LEMMA ReconcileSafe ==
  ASSUME IInv, TypeOK', Reconcile
  PROVE  HoldersAreHeads' /\ SnapNamed' /\ ColdStart' /\ SuppressionExact'
<1> USE ConstantsOK DEF HoldersAreHeads, SnapNamed, ColdStart, SuppressionExact, Marking,
      row, daemon, store, process, Runners, CreatePCs, QueuedPCs, StartPCs, StopPCs,
      DestroyPCs, Goto, Stay, Exit, Enqueue, HasLock, isInstanceLocked, Running
<1>0. TypeOK /\ HoldersAreHeads /\ SnapNamed /\ ColdStart /\ SuppressionExact
  BY DEF IInv
<1>1. CASE ReconcileRead
  BY <1>0, <1>1 DEF ReconcileRead, Booted, TypeOK
<1>2. CASE ReconcileInspect
  <2>1. HoldersAreHeads'
    BY <1>0, <1>2, QueueGrows DEF ReconcileInspect, Booted, TypeOK
  <2>2. SnapNamed'
    BY <1>0, <1>2, QueueGrows DEF ReconcileInspect, Booted, TypeOK
  <2>3. ColdStart'
    BY <1>0, <1>2, QueueGrows DEF ReconcileInspect, Booted, TypeOK
  <2>4. SuppressionExact'
    BY <1>0, <1>2, QueueGrows DEF ReconcileInspect, Booted, TypeOK
  <2> QED
    BY <2>1, <2>2, <2>3, <2>4
<1>3. CASE ReconcilePatch
  BY <1>0, <1>3 DEF ReconcilePatch, Booted, PatchOk, PatchFails, TypeOK
<1> QED
  BY <1>1, <1>2, <1>3 DEF Reconcile

-------------------------------------------------------------------------------
(* The steps outside the operations, and the theorems. *)

\* A start that reads the row, or asks for the lock.
LEMMA EnterSafe ==
  ASSUME IInv, NEW o \in Ops, StartRead(o) \/ StartEnter(o) \/ RecoverRead(o)
  PROVE  IInv'
<1> USE ConstantsOK DEF IInv, TypeOK, HoldersAreHeads, SnapNamed, ColdStart, SuppressionExact,
      Marking, row, daemon, store, process, Runners, PCs, CreatePCs, QueuedPCs, StartPCs,
      StopPCs, DestroyPCs, Goto, Stay, Enqueue, HasLock, isInstanceLocked, Running
<1>1. CASE StartRead(o)
  BY <1>1 DEF StartRead
<1>2. CASE StartEnter(o)
  BY <1>2, QueueTyped, QueueGrows DEF StartEnter
<1>3. CASE RecoverRead(o)
  <2>1. pendingGpuRecovery' \in BOOLEAN
    BY <1>3 DEF RecoverRead
  <2>2. CASE Goto(o, "sFind") /\ Enqueue(o)
    <3>1. TypeOK'
      BY <1>3, <2>1, <2>2, QueueTyped DEF RecoverRead
    <3>2. HoldersAreHeads'
      BY <1>3, <2>2, QueueGrows DEF RecoverRead
    <3>3. SnapNamed' /\ ColdStart'
      BY <1>3, <2>2 DEF RecoverRead
    <3>4. SuppressionExact'
      BY <1>3, <2>2 DEF RecoverRead
    <3> QED
      BY <3>1, <3>2, <3>3, <3>4
  <2>3. CASE Goto(o, "done") /\ UNCHANGED queue
    <3>1. TypeOK'
      BY <1>3, <2>1, <2>3 DEF RecoverRead
    <3>2. HoldersAreHeads' /\ SnapNamed' /\ ColdStart'
      BY <1>3, <2>3 DEF RecoverRead
    <3>3. SuppressionExact'
      BY <1>3, <2>3 DEF RecoverRead
    <3> QED
      BY <3>1, <3>2, <3>3
  <2> QED
    BY <1>3, <2>2, <2>3 DEF RecoverRead
<1> QED
  BY <1>1, <1>2, <1>3

\* A death or disappearance of a container starts none and moves no operation.
LEMMA ContainerSafe ==
  ASSUME IInv, NEW c \in Containers, Die(c) \/ Vanish(c)
  PROVE  IInv'
<1> USE ConstantsOK DEF IInv, TypeOK, HoldersAreHeads, SnapNamed, ColdStart, SuppressionExact,
      Marking, row, store, process, HasLock, Running, DockerStates
<1>1. CASE Die(c)
  BY <1>1 DEF Die, End
<1>2. CASE Vanish(c)
  BY <1>2 DEF Vanish
<1> QED
  BY <1>1, <1>2

\* A crash empties everything at once.
LEMMA CrashSafe ==
  ASSUME IInv, Crash
  PROVE  IInv'
<1> USE ConstantsOK DEF Crash, Runners
<1>0. TypeOK /\ ColdStart
  BY DEF IInv
<1>1. /\ \A p \in Runners : pc'[p] \in {"idle", "done"}
      /\ \A c \in Containers : hpc'[c] \in {"idle", "done"}
  <2>1. \A p \in Runners : pc'[p] \in {"idle", "done"}
    OBVIOUS
  <2>2. \A c \in Containers : hpc'[c] \in {"idle", "done"}
    OBVIOUS
  <2> QED
    BY <2>1, <2>2
<1>2. TypeOK'
  <2>1. pc' \in [Runners -> PCs] /\ hpc' \in [Containers -> HandlerPCs]
    BY DEF PCs, HandlerPCs
  <2>2. queue' \in Seq(Runners \cup Containers)
    OBVIOUS
  <2>3. pendingGpuRecovery' \in BOOLEAN
    OBVIOUS
  <2>4. crashes' \in Nat /\ phase' \in {"up", "down", "boot"}
    BY <1>0 DEF TypeOK
  <2>5. dieEvents' \subseteq Containers /\ apiStopping' \subseteq Containers
    OBVIOUS
  <2> QED
    BY <1>0, <2>1, <2>2, <2>3, <2>4, <2>5 DEF TypeOK, row, store
<1>3. HoldersAreHeads'
  BY <1>1 DEF HoldersAreHeads, QueuedPCs, StartPCs, StopPCs, DestroyPCs
<1>4. SnapNamed'
  BY <1>1 DEF SnapNamed, StopPCs
<1>5. ColdStart'
  BY <1>1 DEF ColdStart, CreatePCs
<1>6. SuppressionExact'
  <2>1. \A o \in Ops : ~Marking(o)'
    BY <1>1 DEF Marking
  <2> QED
    BY <2>1 DEF SuppressionExact
<1> QED
  BY <1>2, <1>3, <1>4, <1>5, <1>6 DEF IInv

\* So does the restart that follows it.
LEMMA RebootSafe ==
  ASSUME IInv, Reboot
  PROVE  IInv'
  BY ConstantsOK DEF Reboot, IInv, TypeOK, HoldersAreHeads, SnapNamed, ColdStart, SuppressionExact,
     Marking, row, daemon, store, Runners, PCs, HandlerPCs, CreatePCs, QueuedPCs, StartPCs,
     StopPCs, DestroyPCs, HasLock, Running, Goto

\* The initial states: nothing is under way and nothing is marked.
LEMMA InitSafe == Init => IInv
<1> SUFFICES ASSUME Init PROVE IInv
  OBVIOUS
<1>1. \A p \in Runners : pc[p] = "idle"
  BY DEF Init
<1>2. TypeOK
  <2>1. /\ status \in Statuses
        /\ cid \in Containers \cup {None}
        /\ dir \in BOOLEAN /\ s3 \in BOOLEAN
        /\ shown \in {"none", "starting", "started", "stopping", "stopped", "error", "deleted"}
    BY DEF Init, Statuses
  <2>2. docker \in [Containers -> DockerStates]
    BY DEF Init, DockerStates
  <2>3. /\ died \in [Containers -> {"stopped", "error"}]
        /\ pc \in [Runners -> PCs]
        /\ hpc \in [Containers -> HandlerPCs]
        /\ mine \in [Runners -> Containers \cup {None}]
        /\ snap \in [Runners -> Containers \cup {None}]
    BY DEF Init, PCs, HandlerPCs
  <2>4. /\ queue \in Seq(Runners \cup Containers)
        /\ dieEvents \subseteq Containers /\ apiStopping \subseteq Containers
        /\ phase \in {"up", "down", "boot"} /\ crashes \in Nat
    BY DEF Init
  <2>5. pendingGpuRecovery \in BOOLEAN
    BY DEF Init
  <2> QED
    BY <2>1, <2>2, <2>3, <2>4, <2>5 DEF TypeOK
<1>3. HoldersAreHeads /\ SnapNamed /\ ColdStart
  BY <1>1 DEF Init, HoldersAreHeads, SnapNamed, ColdStart, CreatePCs, QueuedPCs, StartPCs, StopPCs,
              DestroyPCs
<1>4. SuppressionExact
  <2>1. \A o \in Ops : ~Marking(o)
    BY <1>1 DEF Marking, Runners
  <2> QED
    BY <2>1 DEF Init, SuppressionExact
<1> QED
  BY <1>2, <1>3, <1>4 DEF IInv

\* A stuttering step.
LEMMA StutterSafe == IInv /\ UNCHANGED vars => IInv'
  BY DEF IInv, TypeOK, HoldersAreHeads, SnapNamed, ColdStart, SuppressionExact, Marking, HasLock,
     Running, vars, row, daemon, store, process

\* Every step of the system keeps the invariant.
LEMMA StepSafe == IInv /\ [Next]_vars => IInv'
<1> SUFFICES ASSUME IInv, [Next]_vars PROVE IInv'
  OBVIOUS
<1>1. ASSUME NEW o \in Ops, Create(o) PROVE IInv'
  BY <1>1, CreateTyped, CreateSafe DEF IInv
<1>2. ASSUME NEW o \in Ops, StartRead(o) \/ StartEnter(o) \/ RecoverRead(o) PROVE IInv'
  BY <1>2, EnterSafe
<1>3. ASSUME NEW o \in Ops, Stop(o) PROVE IInv'
  BY <1>3, StopTyped, StopSafe DEF IInv
<1>4. ASSUME NEW o \in Ops, Destroy(o) PROVE IInv'
  BY <1>4, DestroyTyped, DestroySafe DEF IInv
<1>5. ASSUME NEW p \in Runners, Restart(p) PROVE IInv'
  BY <1>5, RestartTyped, RestartSafe DEF IInv
<1>6. ASSUME NEW c \in Containers, Handler(c) PROVE IInv'
  BY <1>6, HandlerTyped, HandlerSafe DEF IInv
<1>7. ASSUME NEW c \in Containers, Die(c) \/ Vanish(c) PROVE IInv'
  BY <1>7, ContainerSafe
<1>8. CASE Crash \/ Reboot
  BY <1>8, CrashSafe, RebootSafe
<1>9. CASE Reconcile
  BY <1>9, ReconcileTyped, ReconcileSafe DEF IInv
<1>10. CASE UNCHANGED vars
  BY <1>10, StutterSafe
<1> QED
  BY <1>1, <1>2, <1>3, <1>4, <1>5, <1>6, <1>7, <1>8, <1>9, <1>10 DEF Next

\* The inductive invariant, for every value of the constants.
THEOREM Invariance == Spec => []IInv
  BY InitSafe, StepSafe, PTL DEF Spec

\* A container is in the api-stopping set (markApiStopping, clearApiStopping)
\* exactly while the stop or delete that put it there runs.
THEOREM SuppressionIsExact == Spec => []SuppressionExact
<1>1. IInv => SuppressionExact
  BY DEF IInv
<1> QED
  BY <1>1, Invariance, PTL

\* What adoptRunningContainer is for: without creates, which do not take the lock,
\* no start rewrites the config directory under a running container.
THEOREM NoRewriteUnderLiveObs ==
  ASSUME "create" \notin Requests
  PROVE  Spec => []ConfigNotRewrittenLive
<1>1. IInv => ConfigNotRewrittenLive
  BY DEF IInv, ColdStart, ConfigNotRewrittenLive
<1> QED
  BY <1>1, Invariance, PTL
===============================================================================
