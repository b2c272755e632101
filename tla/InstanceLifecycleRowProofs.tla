---------------------- MODULE InstanceLifecycleRowProofs ----------------------
(***************************************************************************)
(* Proofs about InstanceLifecycle, for any number of requests, containers  *)
(* and crashes: what the row, Docker and the broadcasts say of each other. *)
(*                                                                         *)
(* RowInv holds in every reachable state, whatever fails: each of its      *)
(* parts names the requests and faults it does not survive.  The argument  *)
(* rests on the first invariant: one operation at a time is past its wait  *)
(* for the lock (HoldersAreHeads), so what a start has seen in Docker, and *)
(* what a stop has done to its container, nobody else undoes before the    *)
(* operation settles -- but a container may die at any time, and a create  *)
(* takes no lock.                                                          *)
(*                                                                         *)
(* One lemma per group of steps, and in it one step per part of RowInv.    *)
(*                                                                         *)
(* QueueExact rests on both: a holder leaves the queue it is the head of,  *)
(* and a container, whose handler joins it, dies once.                     *)
(***************************************************************************)
EXTENDS InstanceLifecycleProofs

-------------------------------------------------------------------------------
(* The steps of each operation keep RowInv. *)

\* createInstance: until it has written its row a create owns a row in "creating", and
\* what it has made is gone before it reports a failure.
LEMMA CreateKeeps ==
  ASSUME IInv, RowInv, NEW o \in Ops, Create(o)
  PROVE  RowInv'
<1> USE ConstantsOK DEF TypeOK, Runners, Create, InsertInstance, CreateKey, CreateUndo,
       CreatePull, CreateCreateContainer, CreateStartContainer, CreatePatch, CreateOk,
       CreateErrPatch, CreateErr, CreateContainer, CreateContainerFails, StartContainer,
       StartContainerFails, RemoveBestEffort, RemoveContainer, RemoveContainerFails, End, PatchOk,
       PatchFails, DeleteOk, DeleteFails, Goto, Stay, broadcast, row, daemon, process
<1>0. TypeOK /\ HoldersAreHeads /\ SnapNamed /\ ColdStart
  BY DEF IInv
<1> USE DEF RowInv
<1>1. BootAlone'
  BY <1>0 DEF BootAlone, BootPCs
<1>2. OneContainer'
  BY <1>0 DEF OneContainer, Holding
<1>3. OwnContainers'
  BY <1>0 DEF OwnContainers
<1>4. DeadStayDead'
  BY <1>0 DEF DeadStayDead
<1>5. NoRowNoId'
  BY <1>0 DEF NoRowNoId
<1>6. StopTakesAll'
  BY <1>0 DEF ColdStart, CreatePCs, StopTakesAll
<1>7. LookedTwice'
  BY <1>0 DEF ColdStart, CreatePCs, LookedTwice
<1>8. Attributed'
  BY <1>0 DEF ColdStart, CreatePCs, Attributed
<1>9. PushAfterDeath'
  BY <1>0 DEF ColdStart, CreatePCs, PushAfterDeath
<1>10. FailedCreate'
  BY <1>0 DEF FailedCreate, OwnContainers, CreatePCs
<1>11. OnlyCreate'
  BY <1>0 DEF OnlyCreate, StartPCs, StopPCs, CreatePCs, OwnContainers, FailedCreate
<1>12. StaleIsThere'
  BY <1>0 DEF Holding, FailedCreate, StaleIsThere
<1>13. StartIsAnswered'
  BY <1>0 DEF StartPCs, NoRowNoId, Fault, StartIsAnswered, Speaking
<1>14. CreatingIsOwned'
  BY <1>0 DEF CreatingIsOwned
<1>15. BootKnows'
  BY <1>0 DEF BootAlone, BootKnows
<1> QED
  BY <1>1, <1>2, <1>3, <1>4, <1>5, <1>6, <1>7, <1>8, <1>9, <1>10, <1>11, <1>12, <1>13,
       <1>14, <1>15

\* A start that reads the row, joins the lock's queue or refuses changes nothing the row,
\* Docker or the clients show.
LEMMA EnterKeeps ==
  ASSUME IInv, RowInv, NEW o \in Ops, StartRead(o) \/ StartEnter(o) \/ RecoverRead(o)
  PROVE  RowInv'
<1> USE ConstantsOK DEF TypeOK, Runners, StartRead, StartEnter, RecoverRead, Enqueue, Goto,
       Stay, row, daemon, process
<1>0. TypeOK /\ HoldersAreHeads /\ SnapNamed /\ ColdStart
  BY DEF IInv
<1> USE DEF RowInv
<1>1. BootAlone'
  BY <1>0 DEF BootAlone, BootPCs
<1>2. OneContainer'
  BY <1>0 DEF OneContainer, Holding
<1>3. OwnContainers'
  BY <1>0 DEF OwnContainers
<1>4. DeadStayDead'
  BY <1>0 DEF DeadStayDead
<1>5. NoRowNoId'
  BY <1>0 DEF NoRowNoId
<1>6. StopTakesAll'
  BY <1>0 DEF Holding, Running, StopTakesAll
<1>7. LookedTwice'
  BY <1>0 DEF ColdStart, Running, LookedTwice
<1>8. Attributed'
  BY <1>0 DEF Running, Dying, Attributed
<1>9. PushAfterDeath'
  BY <1>0 DEF PushAfterDeath
<1>10. FailedCreate'
  BY <1>0 DEF FailedCreate, CreatePCs
<1>11. OnlyCreate'
  BY <1>0 DEF OnlyCreate
<1>12. StaleIsThere'
  BY <1>0 DEF Holding, StaleIsThere
<1>13. StartIsAnswered'
  BY <1>0 DEF StartPCs, StartIsAnswered, Speaking
<1>14. CreatingIsOwned'
  BY <1>0 DEF CreatingIsOwned
<1>15. BootKnows'
  BY <1>0 DEF Holding, Running, BootKnows
<1> QED
  BY <1>1, <1>2, <1>3, <1>4, <1>5, <1>6, <1>7, <1>8, <1>9, <1>10, <1>11, <1>12, <1>13,
       <1>14, <1>15

\* restartInstance looks at Docker, reads the stream key, pulls the config and answers:
\* what it has seen at its turn is what it acts on.
LEMMA RestartLookKeeps ==
  ASSUME IInv, RowInv, NEW p \in Runners,
         \/ StartFind(p) \/ StartKey(p) \/ StartPull(p)
         \/ StartOk(p) \/ StartSurvivor(p) \/ StartErr(p)
  PROVE  RowInv'
<1> USE ConstantsOK DEF TypeOK, Runners, StartFind, StartKey, StartPull, StartOk,
       StartSurvivor, StartErr, findContainerByName, Exit, Goto, Stay, broadcast, row, daemon,
       process
<1>0. TypeOK /\ HoldersAreHeads /\ SnapNamed /\ ColdStart
  BY DEF IInv
<1> USE DEF RowInv
<1>1. BootAlone'
  BY <1>0 DEF BootAlone, BootPCs, StartPCs
<1>2. OneContainer'
  BY <1>0 DEF OneContainer, Holding
<1>3. OwnContainers'
  BY <1>0 DEF OwnContainers
<1>4. DeadStayDead'
  BY <1>0 DEF DeadStayDead
<1>5. NoRowNoId'
  BY <1>0 DEF NoRowNoId
<1>6. StopTakesAll'
  BY <1>0 DEF Holding, Running, StopTakesAll
<1>7. LookedTwice'
  BY <1>0 DEF OneContainer, Holding, Running, LookedTwice
<1>8. Attributed'
  BY <1>0 DEF Running, Dying, Attributed
<1>9. PushAfterDeath'
  BY <1>0 DEF PushAfterDeath
<1>10. FailedCreate'
  BY <1>0 DEF FailedCreate, CreatePCs
<1>11. OnlyCreate'
  BY <1>0 DEF OnlyCreate, StartPCs
<1>12. StaleIsThere'
  BY <1>0 DEF ColdStart, Holding, StaleIsThere
<1>13. StartIsAnswered'
  BY <1>0 DEF StartPCs, SnapNamed, Fault, StartIsAnswered, Speaking
<1>14. CreatingIsOwned'
  BY <1>0 DEF CreatingIsOwned
<1>15. BootKnows'
  BY <1>0 DEF OneContainer, Holding, Running, BootKnows
<1> QED
  BY <1>1, <1>2, <1>3, <1>4, <1>5, <1>6, <1>7, <1>8, <1>9, <1>10, <1>11, <1>12, <1>13,
       <1>14, <1>15

\* restartInstance removes the stale container, creates and starts its own, or cleans up:
\* Docker has one container of the name, and it is the one the start knows.
LEMMA RestartDockerKeeps ==
  ASSUME IInv, RowInv, NEW p \in Runners,
         \/ StartClear(p) \/ StartCreateContainer(p)
         \/ StartStartContainer(p) \/ StartCleanup(p)
  PROVE  RowInv'
<1> USE ConstantsOK DEF TypeOK, Runners, StartClear, StartCreateContainer,
       StartStartContainer, StartCleanup, CreateContainer, CreateContainerFails, StartContainer,
       StartContainerFails, RemoveBestEffort, RemoveContainer, RemoveContainerFails, End, Exit,
       Goto, Stay, row, daemon, process
<1>0. TypeOK /\ HoldersAreHeads /\ SnapNamed /\ ColdStart
  BY DEF IInv
<1> USE DEF RowInv
<1>1. BootAlone'
  BY <1>0 DEF BootAlone, BootPCs, StartPCs
<1>2. OneContainer'
  BY <1>0 DEF OneContainer, Holding
<1>3. OwnContainers'
  BY <1>0 DEF OwnContainers, HoldersAreHeads, HasLock, QueuedPCs, StartPCs
<1>4. DeadStayDead'
  BY <1>0 DEF DeadStayDead
<1>5. NoRowNoId'
  BY <1>0 DEF NoRowNoId
<1>6. StopTakesAll'
  BY <1>0 DEF HoldersAreHeads, HasLock, QueuedPCs, StartPCs, StopPCs, StopTakesAll
<1>7. LookedTwice'
  <2>1. \A q \in Runners : pc[q] \notin {"sAdopt", "sErrPatch"}
    BY <1>0 DEF HoldersAreHeads, HasLock, QueuedPCs, StartPCs
  <2>2. \A q \in Runners : pc'[q] \notin {"sAdopt", "sErrPatch"}
    BY <1>0, <2>1
  <2> QED
    BY <2>2 DEF LookedTwice
<1>8. Attributed'
  <2>1. CASE StartClear(p)
    BY <1>0, <2>1 DEF OneContainer, Holding, Running, Dying, Attributed
  <2>2. CASE StartCreateContainer(p)
    BY <1>0, <2>2 DEF OneContainer, Holding, Running, Dying, Attributed
  <2>3. CASE StartStartContainer(p)
    BY <1>0, <2>3 DEF OneContainer, Holding, Running, Dying, Attributed
  <2>4. CASE StartCleanup(p)
    BY <1>0, <2>4 DEF OneContainer, Holding, Running, Dying, Attributed
  <2> QED
    BY <2>1, <2>2, <2>3, <2>4
<1>9. PushAfterDeath'
  BY <1>0 DEF PushAfterDeath
<1>10. FailedCreate'
  BY <1>0 DEF FailedCreate, CreatePCs
<1>11. OnlyCreate'
  BY <1>0 DEF OnlyCreate, StartPCs, CreatePCs, BootAlone
<1>12. StaleIsThere'
  BY <1>0 DEF HoldersAreHeads, HasLock, QueuedPCs, StartPCs, Holding, StaleIsThere
<1>13. StartIsAnswered'
  BY <1>0 DEF StartPCs, SnapNamed, Holding, Fault, StaleIsThere, StartIsAnswered, Speaking
<1>14. CreatingIsOwned'
  BY <1>0 DEF CreatingIsOwned
<1>15. BootKnows'
  BY <1>0 DEF BootAlone, OneContainer, Holding, OwnContainers, Fault, BootKnows
<1> QED
  BY <1>1, <1>2, <1>3, <1>4, <1>5, <1>6, <1>7, <1>8, <1>9, <1>10, <1>11, <1>12, <1>13,
       <1>14, <1>15

\* restartInstance writes to the row: the container it started, the one it adopts, or an
\* error after having looked twice.
LEMMA RestartRowKeeps ==
  ASSUME IInv, RowInv, NEW p \in Runners, StartPatch(p) \/ StartAdopt(p) \/ StartErrPatch(p)
  PROVE  RowInv'
<1> USE ConstantsOK DEF TypeOK, Runners, StartPatch, StartAdopt, StartErrPatch, PatchOk,
       PatchFails, Exit, Goto, Stay, row, daemon, process
<1>0. TypeOK /\ HoldersAreHeads /\ SnapNamed /\ ColdStart
  BY DEF IInv
<1> USE DEF RowInv
<1>1. BootAlone'
  BY <1>0 DEF BootAlone, BootPCs, StartPCs
<1>2. OneContainer'
  BY <1>0 DEF OneContainer, Holding
<1>3. OwnContainers'
  BY <1>0 DEF OwnContainers
<1>4. DeadStayDead'
  BY <1>0 DEF DeadStayDead
<1>5. NoRowNoId'
  BY <1>0 DEF NoRowNoId
<1>6. StopTakesAll'
  BY <1>0 DEF HoldersAreHeads, HasLock, QueuedPCs, StartPCs, StopPCs, StopTakesAll
<1>7. LookedTwice'
  BY <1>0 DEF Running, LookedTwice
<1>8. Attributed'
  BY <1>0 DEF OneContainer, Holding, Running, OwnContainers, Dying, LookedTwice, Attributed
<1>9. PushAfterDeath'
  BY <1>0 DEF HoldersAreHeads, HasLock, QueuedPCs, StartPCs, PushAfterDeath
<1>10. FailedCreate'
  BY <1>0 DEF FailedCreate, CreatePCs
<1>11. OnlyCreate'
  BY <1>0 DEF OnlyCreate, StartPCs
<1>12. StaleIsThere'
  BY <1>0 DEF Holding, StaleIsThere
<1>13. StartIsAnswered'
  BY <1>0 DEF StartPCs, OneContainer, NoRowNoId, Fault, StartIsAnswered, Speaking
<1>14. CreatingIsOwned'
  BY <1>0 DEF CreatingIsOwned
<1>15. BootKnows'
  BY <1>0 DEF BootAlone, Running, OwnContainers, Fault, BootKnows
<1> QED
  BY <1>1, <1>2, <1>3, <1>4, <1>5, <1>6, <1>7, <1>8, <1>9, <1>10, <1>11, <1>12, <1>13,
       <1>14, <1>15

\* stopInstance (and the plan sweep) up to the "stopping" broadcast touches no container.
LEMMA StopBeginKeeps ==
  ASSUME IInv, RowInv, NEW o \in Ops,
         \/ StopRead(o) \/ SweepCheck(o) \/ SweepRead(o)
         \/ StopEnter(o) \/ StopMark(o)
  PROVE  RowInv'
<1> USE ConstantsOK DEF TypeOK, Runners, StopRead, SweepCheck, SweepRead, StopEnter,
       StopMark, Enqueue, Goto, Stay, broadcast, row, daemon, process
<1>0. TypeOK /\ HoldersAreHeads /\ SnapNamed /\ ColdStart
  BY DEF IInv
<1> USE DEF RowInv
<1>1. BootAlone'
  BY <1>0 DEF BootAlone, BootPCs
<1>2. OneContainer'
  BY <1>0 DEF OneContainer, Holding
<1>3. OwnContainers'
  BY <1>0 DEF OwnContainers
<1>4. DeadStayDead'
  BY <1>0 DEF DeadStayDead
<1>5. NoRowNoId'
  BY <1>0 DEF NoRowNoId
<1>6. StopTakesAll'
  BY <1>0 DEF Holding, Running, StopTakesAll
<1>7. LookedTwice'
  BY <1>0 DEF Running, LookedTwice
<1>8. Attributed'
  BY <1>0 DEF Running, Dying, Attributed
<1>9. PushAfterDeath'
  BY <1>0 DEF PushAfterDeath
<1>10. FailedCreate'
  BY <1>0 DEF FailedCreate, CreatePCs
<1>11. OnlyCreate'
  BY SMTT(30), <1>0 DEF OnlyCreate, StartPCs, CreatePCs, OneContainer, Holding, ColdStart
<1>12. StaleIsThere'
  BY <1>0 DEF Holding, StaleIsThere
<1>13. StartIsAnswered'
  BY <1>0 DEF StartPCs, StartIsAnswered, Speaking
<1>14. CreatingIsOwned'
  BY <1>0 DEF CreatingIsOwned
<1>15. BootKnows'
  BY <1>0 DEF Holding, Running, BootKnows
<1> QED
  BY <1>1, <1>2, <1>3, <1>4, <1>5, <1>6, <1>7, <1>8, <1>9, <1>10, <1>11, <1>12, <1>13,
       <1>14, <1>15

\* stopInstance stops the container, pushes its files, removes it and clears the row.
LEMMA StopEndKeeps ==
  ASSUME IInv, RowInv, NEW o \in Ops,
         \/ StopStop(o) \/ StopPush(o) \/ StopRemove(o)
         \/ StopPatch(o) \/ StopOk(o)
  PROVE  RowInv'
<1> USE ConstantsOK DEF TypeOK, Runners, StopStop, StopPush, StopRemove, StopPatch, StopOk,
       StopContainer, StopContainerFails, RemoveBestEffort, RemoveContainer, RemoveContainerFails,
       End, PatchOk, PatchFails, StopExit, Exit, Goto, Stay, broadcast, row, daemon, process
<1>0. TypeOK /\ HoldersAreHeads /\ SnapNamed /\ ColdStart
  BY DEF IInv
<1> USE DEF RowInv
<1>1. BootAlone'
  BY <1>0 DEF BootAlone, BootPCs
<1>2. OneContainer'
  BY <1>0 DEF OneContainer, Holding
<1>3. OwnContainers'
  BY <1>0 DEF OwnContainers, HoldersAreHeads, HasLock, QueuedPCs, StartPCs, StopPCs
<1>4. DeadStayDead'
  BY <1>0 DEF DeadStayDead
<1>5. NoRowNoId'
  BY <1>0 DEF NoRowNoId
<1>6. StopTakesAll'
  BY <1>0 DEF HoldersAreHeads, HasLock, QueuedPCs, StopPCs, SnapNamed, OneContainer,
       Holding, Running, StopTakesAll
<1>7. LookedTwice'
  BY <1>0 DEF Running, LookedTwice
<1>8. Attributed'
  BY <1>0 DEF OneContainer, Holding, Running, Dying, StopTakesAll, Attributed
<1>9. PushAfterDeath'
  BY <1>0 DEF PushAfterDeath
<1>10. FailedCreate'
  BY <1>0 DEF FailedCreate, CreatePCs
<1>11. OnlyCreate'
  BY <1>0 DEF OnlyCreate, StartPCs, CreatePCs
<1>12. StaleIsThere'
  BY <1>0 DEF HoldersAreHeads, HasLock, QueuedPCs, StartPCs, StopPCs, DestroyPCs,
       StaleIsThere
<1>13. StartIsAnswered'
  BY <1>0 DEF StartPCs, Fault, StartIsAnswered, Speaking
<1>14. CreatingIsOwned'
  BY <1>0 DEF CreatingIsOwned
<1>15. BootKnows'
  BY <1>0 DEF BootAlone, BootKnows
<1> QED
  BY <1>1, <1>2, <1>3, <1>4, <1>5, <1>6, <1>7, <1>8, <1>9, <1>10, <1>11, <1>12, <1>13,
       <1>14, <1>15

\* What the two steps that delete files do to everything else.
LEMMA DestroyFiles ==
  ASSUME NEW o \in Ops, DestroyDir(o) \/ DestroyS3(o)
  PROVE  /\ \/ pc[o] = "dDir" /\ pc' = [pc EXCEPT ![o] = "dRemove"]
            \/ pc[o] = "dS3" /\ pc' = [pc EXCEPT ![o] = "dRow"]
         /\ UNCHANGED <<row, daemon, mine, snap, hpc, queue, shown, process>>
  BY DEF DestroyDir, DestroyS3, Goto, Stay

\* destroyInstance deletes files: no part of RowInv speaks of them.
LEMMA DestroyFilesKeep ==
  ASSUME IInv, RowInv, NEW o \in Ops, DestroyDir(o) \/ DestroyS3(o)
  PROVE  RowInv'
<1> USE ConstantsOK, DestroyFiles DEF TypeOK, Runners, row, daemon, process
<1>0. TypeOK /\ HoldersAreHeads /\ SnapNamed /\ ColdStart
  BY DEF IInv
<1> USE DEF RowInv
<1>1. BootAlone'
  BY <1>0 DEF BootAlone, BootPCs
<1>2. OneContainer'
  BY <1>0 DEF OneContainer, Holding
<1>3. OwnContainers'
  BY <1>0 DEF OwnContainers
<1>4. DeadStayDead'
  BY <1>0 DEF DeadStayDead
<1>5. NoRowNoId'
  BY <1>0 DEF NoRowNoId
<1>6. StopTakesAll'
  BY <1>0 DEF Holding, Running, StopTakesAll
<1>7. LookedTwice'
  BY <1>0 DEF Running, LookedTwice
<1>8. Attributed'
  BY <1>0 DEF Running, Dying, Attributed
<1>9. PushAfterDeath'
  BY <1>0 DEF PushAfterDeath
<1>10. FailedCreate'
  BY <1>0 DEF FailedCreate, CreatePCs
<1>11. OnlyCreate'
  BY <1>0 DEF OnlyCreate, StartPCs, CreatePCs
<1>12. StaleIsThere'
  BY <1>0 DEF Holding, StaleIsThere
<1>13. StartIsAnswered'
  BY <1>0 DEF StartPCs, StartIsAnswered, Speaking
<1>14. CreatingIsOwned'
  BY <1>0 DEF CreatingIsOwned
<1>15. BootKnows'
  BY <1>0 DEF Holding, Running, BootKnows
<1> QED
  BY <1>1, <1>2, <1>3, <1>4, <1>5, <1>6, <1>7, <1>8, <1>9, <1>10, <1>11, <1>12, <1>13,
       <1>14, <1>15

\* destroyInstance stops and removes the container, and deletes the row last.
LEMMA DestroyKeeps ==
  ASSUME IInv, RowInv, NEW o \in Ops,
         \/ DestroyRead(o) \/ DestroyEnter(o) \/ DestroyMark(o)
         \/ DestroyStop(o) \/ DestroyRemove(o) \/ DestroyRow(o)
  PROVE  RowInv'
<1> USE ConstantsOK DEF TypeOK, Runners, DestroyRead, DestroyEnter, DestroyMark,
       DestroyStop, DestroyRemove, DestroyRow, StopContainer, StopContainerFails,
       RemoveBestEffort, RemoveContainer, RemoveContainerFails, End, DeleteOk, DeleteFails,
       Enqueue, Exit, Goto, Stay, broadcast, row, daemon, process
<1>0. TypeOK /\ HoldersAreHeads /\ SnapNamed /\ ColdStart
  BY DEF IInv
<1> USE DEF RowInv
<1>1. BootAlone'
  BY <1>0 DEF BootAlone, BootPCs
<1>2. OneContainer'
  BY <1>0 DEF OneContainer, Holding
<1>3. OwnContainers'
  BY SMTT(30), <1>0 DEF OwnContainers, HoldersAreHeads, HasLock, QueuedPCs, StartPCs, DestroyPCs
<1>4. DeadStayDead'
  BY <1>0 DEF DeadStayDead
<1>5. NoRowNoId'
  BY <1>0 DEF NoRowNoId
<1>6. StopTakesAll'
  BY <1>0 DEF HoldersAreHeads, HasLock, QueuedPCs, StopPCs, DestroyPCs, Holding, Running,
       StopTakesAll
<1>7. LookedTwice'
  BY <1>0 DEF BootAlone, Running, LookedTwice
<1>8. Attributed'
  BY <1>0 DEF OneContainer, Holding, Running, Dying, Attributed
<1>9. PushAfterDeath'
  BY <1>0 DEF PushAfterDeath
<1>10. FailedCreate'
  BY <1>0 DEF FailedCreate, CreatePCs
<1>11. OnlyCreate'
  BY <1>0 DEF OnlyCreate, StartPCs, CreatePCs
<1>12. StaleIsThere'
  BY SMTT(30), <1>0 DEF HoldersAreHeads, HasLock, QueuedPCs, StartPCs, DestroyPCs, Holding,
       StaleIsThere
<1>13. StartIsAnswered'
  BY <1>0 DEF StartPCs, StartIsAnswered, Speaking
<1>14. CreatingIsOwned'
  BY <1>0 DEF CreatingIsOwned
<1>15. BootKnows'
  BY <1>0 DEF BootAlone, BootKnows
<1> QED
  BY <1>1, <1>2, <1>3, <1>4, <1>5, <1>6, <1>7, <1>8, <1>9, <1>10, <1>11, <1>12, <1>13,
       <1>14, <1>15

\* handleContainerDieEvent clears the row of the container that died, and pushes its
\* files under the lock.
LEMMA HandlerKeeps ==
  ASSUME IInv, RowInv, NEW c \in Containers, Handler(c)
  PROVE  RowInv'
<1> USE ConstantsOK DEF TypeOK, Runners, Handler, DieEvent, DiePatch, DieNotify, DieCheck,
       DiePersist, Enqueue, broadcast, row, daemon, process
<1>0. TypeOK /\ HoldersAreHeads /\ SnapNamed /\ ColdStart
  BY DEF IInv
<1> USE DEF RowInv
<1>1. BootAlone'
  BY <1>0 DEF BootAlone
<1>2. OneContainer'
  BY <1>0 DEF OneContainer, Holding
<1>3. OwnContainers'
  BY <1>0 DEF OwnContainers
<1>4. DeadStayDead'
  BY <1>0 DEF DeadStayDead
<1>5. NoRowNoId'
  BY <1>0 DEF NoRowNoId
<1>6. StopTakesAll'
  BY <1>0 DEF Holding, Running, StopTakesAll
<1>7. LookedTwice'
  BY <1>0 DEF Running, LookedTwice
<1>8. Attributed'
  BY <1>0 DEF Running, DeadStayDead, NoRowNoId, Dying, Attributed
<1>9. PushAfterDeath'
  BY <1>0 DEF PushAfterDeath
<1>10. FailedCreate'
  BY <1>0 DEF FailedCreate, NoRowNoId
<1>11. OnlyCreate'
  BY <1>0 DEF OnlyCreate
<1>12. StaleIsThere'
  BY <1>0 DEF Holding, StaleIsThere
<1>13. StartIsAnswered'
  BY <1>0 DEF StartIsAnswered
<1>14. CreatingIsOwned'
  BY <1>0 DEF CreatingIsOwned
<1>15. BootKnows'
  BY <1>0 DEF BootAlone, BootKnows
<1> QED
  BY <1>1, <1>2, <1>3, <1>4, <1>5, <1>6, <1>7, <1>8, <1>9, <1>10, <1>11, <1>12, <1>13,
       <1>14, <1>15

\* A container dies, or is removed from outside once it is dead: Docker alone changes,
\* and its events are on their way.
LEMMA ContainerKeeps ==
  ASSUME IInv, RowInv, NEW c \in Containers, Die(c) \/ Vanish(c)
  PROVE  RowInv'
<1> USE ConstantsOK DEF TypeOK, Runners, Die, Vanish, End, isInstanceLocked, row, process
<1>0. TypeOK /\ HoldersAreHeads /\ SnapNamed /\ ColdStart
  BY DEF IInv
<1> USE DEF RowInv
<1>1. BootAlone'
  BY <1>0 DEF BootAlone
<1>2. OneContainer'
  BY <1>0 DEF OneContainer, Holding
<1>3. OwnContainers'
  BY <1>0 DEF OwnContainers, BootAlone
<1>4. DeadStayDead'
  BY <1>0 DEF DeadStayDead
<1>5. NoRowNoId'
  BY <1>0 DEF NoRowNoId
<1>6. StopTakesAll'
  BY <1>0 DEF StopPCs, SnapNamed, BootAlone, Running, StopTakesAll
<1>7. LookedTwice'
  BY <1>0 DEF Running, LookedTwice
<1>8. Attributed'
  BY <1>0 DEF OneContainer, Holding, Running, Attributed
<1>9. PushAfterDeath'
  BY <1>0 DEF PushAfterDeath
<1>10. FailedCreate'
  BY <1>0 DEF FailedCreate
<1>11. OnlyCreate'
  BY <1>0 DEF OnlyCreate
<1>12. StaleIsThere'
  BY <1>0 DEF BootAlone, Holding, StaleIsThere
<1>13. StartIsAnswered'
  BY <1>0 DEF StartIsAnswered
<1>14. CreatingIsOwned'
  BY <1>0 DEF CreatingIsOwned
<1>15. BootKnows'
  BY <1>0 DEF Fault, BootKnows
<1> QED
  BY <1>1, <1>2, <1>3, <1>4, <1>5, <1>6, <1>7, <1>8, <1>9, <1>10, <1>11, <1>12, <1>13,
       <1>14, <1>15

\* The manager dies, or comes back: what it was doing is forgotten, the row and Docker
\* are not.
LEMMA CrashKeeps ==
  ASSUME IInv, RowInv, Crash \/ Reboot
  PROVE  RowInv'
<1> USE ConstantsOK DEF TypeOK, Runners, Crash, Reboot, Goto, row, daemon
<1>0. TypeOK /\ HoldersAreHeads /\ SnapNamed /\ ColdStart
  BY DEF IInv
<1> USE DEF RowInv
<1>1. BootAlone'
  BY <1>0 DEF BootAlone, BootPCs
<1>2. OneContainer'
  BY <1>0 DEF OneContainer, Holding
<1>3. OwnContainers'
  BY <1>0 DEF OwnContainers
<1>4. DeadStayDead'
  BY <1>0 DEF DeadStayDead
<1>5. NoRowNoId'
  BY <1>0 DEF NoRowNoId
<1>6. StopTakesAll'
  BY <1>0 DEF Holding, Running, StopTakesAll
<1>7. LookedTwice'
  BY <1>0 DEF Running, LookedTwice
<1>8. Attributed'
  BY <1>0 DEF BootAlone, Running, Dying, Attributed
<1>9. PushAfterDeath'
  BY <1>0 DEF PushAfterDeath
<1>10. FailedCreate'
  BY <1>0 DEF FailedCreate, OwnContainers, CreatePCs
<1>11. OnlyCreate'
  BY <1>0 DEF OnlyCreate, StartPCs, CreatePCs, Fault
<1>12. StaleIsThere'
  BY <1>0 DEF Holding, StaleIsThere
<1>13. StartIsAnswered'
  BY <1>0 DEF StartPCs, BootAlone, StartIsAnswered, Speaking
<1>14. CreatingIsOwned'
  BY <1>0 DEF CreatingIsOwned
<1>15. BootKnows'
  BY <1>0 DEF BootKnows
<1> QED
  BY <1>1, <1>2, <1>3, <1>4, <1>5, <1>6, <1>7, <1>8, <1>9, <1>10, <1>11, <1>12, <1>13,
       <1>14, <1>15

\* reconcileContainers acts on the row and the container it has read.
LEMMA ReconcileKeeps ==
  ASSUME IInv, RowInv, Reconcile
  PROVE  RowInv'
<1> USE ConstantsOK DEF TypeOK, Runners, Reconcile, ReconcileRead, ReconcileInspect,
       ReconcilePatch, Booted, PatchOk, PatchFails, Enqueue, Goto, Stay, broadcast, row, daemon,
       process
<1>0. TypeOK /\ HoldersAreHeads /\ SnapNamed /\ ColdStart
  BY DEF IInv
<1> USE DEF RowInv
<1>1. BootAlone'
  BY <1>0 DEF BootAlone, BootPCs, StartPCs
<1>2. OneContainer'
  BY <1>0 DEF OneContainer, Holding
<1>3. OwnContainers'
  BY <1>0 DEF OwnContainers
<1>4. DeadStayDead'
  BY <1>0 DEF DeadStayDead
<1>5. NoRowNoId'
  BY <1>0 DEF NoRowNoId
<1>6. StopTakesAll'
  BY <1>0 DEF BootAlone, StopTakesAll
<1>7. LookedTwice'
  BY <1>0 DEF Running, LookedTwice
<1>8. Attributed'
  BY <1>0 DEF Running, Dying, Attributed
<1>9. PushAfterDeath'
  BY <1>0 DEF PushAfterDeath
<1>10. FailedCreate'
  BY <1>0 DEF FailedCreate
<1>11. OnlyCreate'
  BY <1>0 DEF OnlyCreate
<1>12. StaleIsThere'
  BY <1>0 DEF Holding, StaleIsThere
<1>13. StartIsAnswered'
  BY <1>0 DEF StartPCs, StartIsAnswered, Speaking
<1>14. CreatingIsOwned'
  BY <1>0 DEF CreatingIsOwned
<1>15. BootKnows'
  BY <1>0 DEF NoRowNoId, BootKnows
<1> QED
  BY <1>1, <1>2, <1>3, <1>4, <1>5, <1>6, <1>7, <1>8, <1>9, <1>10, <1>11, <1>12, <1>13,
       <1>14, <1>15

\* A step that changes nothing keeps the invariant.
LEMMA NothingKeeps ==
  ASSUME IInv, RowInv, UNCHANGED vars
  PROVE  RowInv'
<1> USE ConstantsOK DEF TypeOK, Runners, vars, row, daemon, process
<1>0. TypeOK /\ HoldersAreHeads /\ SnapNamed /\ ColdStart
  BY DEF IInv
<1> USE DEF RowInv
<1>1. BootAlone'
  BY <1>0 DEF BootAlone
<1>2. OneContainer'
  BY <1>0 DEF OneContainer, Holding
<1>3. OwnContainers'
  BY <1>0 DEF OwnContainers
<1>4. DeadStayDead'
  BY <1>0 DEF DeadStayDead
<1>5. NoRowNoId'
  BY <1>0 DEF NoRowNoId
<1>6. StopTakesAll'
  BY <1>0 DEF Holding, Running, StopTakesAll
<1>7. LookedTwice'
  BY <1>0 DEF Running, LookedTwice
<1>8. Attributed'
  BY <1>0 DEF Running, Dying, Attributed
<1>9. PushAfterDeath'
  BY <1>0 DEF PushAfterDeath
<1>10. FailedCreate'
  BY <1>0 DEF FailedCreate
<1>11. OnlyCreate'
  BY <1>0 DEF OnlyCreate
<1>12. StaleIsThere'
  BY <1>0 DEF Holding, StaleIsThere
<1>13. StartIsAnswered'
  BY <1>0 DEF StartIsAnswered
<1>14. CreatingIsOwned'
  BY <1>0 DEF CreatingIsOwned
<1>15. BootKnows'
  BY <1>0 DEF Holding, Running, BootKnows
<1> QED
  BY <1>1, <1>2, <1>3, <1>4, <1>5, <1>6, <1>7, <1>8, <1>9, <1>10, <1>11, <1>12, <1>13,
       <1>14, <1>15

-------------------------------------------------------------------------------
(* The queue of the lock has who waits or works, and nobody else. *)

\* Whoever joins a queue it is not in is in it once.
LEMMA QueueJoined ==
  ASSUME NEW S, NEW q \in Seq(S), NEW x \in S, Once(q), ~Listed(q, x)
  PROVE  /\ Once(Append(q, x))
         /\ \A y \in S : Listed(Append(q, x), y) <=> Listed(q, y) \/ y = x
<1> DEFINE r == Append(q, x)
<1>1. /\ DOMAIN q = 1..Len(q) /\ DOMAIN r = 1..(Len(q) + 1) /\ Len(q) \in Nat
      /\ r[Len(q) + 1] = x /\ \A i \in 1..Len(q) : r[i] = q[i]
  OBVIOUS
<1>2. \A i \in 1..(Len(q) + 1) : i \in 1..Len(q) \/ i = Len(q) + 1
  BY <1>1
<1>3. Once(r)
  <2> SUFFICES ASSUME NEW i \in 1..(Len(q) + 1), NEW j \in 1..(Len(q) + 1), r[i] = r[j]
               PROVE  i = j
    BY <1>1 DEF Once
  <2> QED
    BY <1>1, <1>2 DEF Once, Listed
<1>4. \A y \in S : Listed(r, y) <=> Listed(q, y) \/ y = x
  <2> SUFFICES ASSUME NEW y \in S PROVE Listed(r, y) <=> Listed(q, y) \/ y = x
    OBVIOUS
  <2>1. Listed(r, y) => Listed(q, y) \/ y = x
    BY <1>1, <1>2 DEF Listed
  <2>2. Listed(q, y) => Listed(r, y)
    <3> SUFFICES ASSUME NEW i \in 1..Len(q), q[i] = y PROVE Listed(r, y)
      BY <1>1 DEF Listed
    <3>1. i \in 1..(Len(q) + 1) /\ r[i] = y
      BY <1>1
    <3> QED
      BY <1>1, <3>1 DEF Listed
  <2>3. y = x => Listed(r, y)
    <3>1. Len(q) + 1 \in 1..(Len(q) + 1)
      BY <1>1
    <3> QED
      BY <1>1, <3>1 DEF Listed
  <2> QED
    BY <2>1, <2>2, <2>3
<1> QED
  BY <1>3, <1>4

\* When the head leaves, it alone has left.
LEMMA QueueLeft ==
  ASSUME NEW S, NEW q \in Seq(S), q # <<>>, Once(q)
  PROVE  /\ Once(Tail(q))
         /\ \A y \in S : Listed(Tail(q), y) <=> Listed(q, y) /\ y # Head(q)
<1> DEFINE r == Tail(q)
<1>1. /\ DOMAIN q = 1..Len(q) /\ DOMAIN r = 1..(Len(q) - 1) /\ Len(q) \in Nat /\ Len(q) # 0
      /\ Head(q) = q[1] /\ \A i \in 1..(Len(q) - 1) : r[i] = q[i + 1]
  OBVIOUS
<1>2. \A i \in 1..(Len(q) - 1) : i + 1 \in 1..Len(q) /\ i + 1 # 1
  BY <1>1
<1>3. Once(r)
  BY <1>1, <1>2 DEF Once
<1>4. \A y \in S : Listed(r, y) <=> Listed(q, y) /\ y # Head(q)
  <2> SUFFICES ASSUME NEW y \in S PROVE Listed(r, y) <=> Listed(q, y) /\ y # Head(q)
    OBVIOUS
  <2>0. 1 \in 1..Len(q)
    BY <1>1
  <2>1. Listed(r, y) => Listed(q, y) /\ y # Head(q)
    BY <1>1, <1>2, <2>0 DEF Listed, Once
  <2>2. Listed(q, y) /\ y # Head(q) => Listed(r, y)
    <3> SUFFICES ASSUME NEW i \in 1..Len(q), q[i] = y, y # Head(q) PROVE Listed(r, y)
      BY <1>1 DEF Listed
    <3>1. i # 1 /\ i - 1 \in 1..(Len(q) - 1) /\ r[i - 1] = q[(i - 1) + 1]
      BY <1>1
    <3>2. r[i - 1] = y
      BY <3>1
    <3> QED
      BY <1>1, <3>1, <3>2 DEF Listed
  <2> QED
    BY <2>1, <2>2
<1> QED
  BY <1>3, <1>4

\* An operation or a restart moves on: it joins, leaves, or stays on its side of the lock.
Moves(p) ==
  /\ pc' = [pc EXCEPT ![p] = pc'[p]] /\ UNCHANGED hpc
  /\ dieEvents' \subseteq dieEvents \cup Running
  /\ \/ UNCHANGED queue /\ (pc[p] \in QueuedPCs <=> pc'[p] \in QueuedPCs)
     \/ queue' = Append(queue, p) /\ pc[p] \notin QueuedPCs /\ pc'[p] \in QueuedPCs
     \/ queue' = Tail(queue) /\ HasLock(p) /\ pc'[p] \notin QueuedPCs

\* Such a step keeps the queue exact: who joins is in it once, who leaves was its head.
LEMMA MoveQueue ==
  ASSUME TypeOK, DeadStayDead, QueueExact, NEW p \in Runners, Moves(p)
  PROVE  QueueExact'
<1>0. \A c \in dieEvents' : c \in Containers /\ hpc'[c] = "idle"
  BY DEF Moves, QueueExact, DeadStayDead, TypeOK, Running
<1> DEFINE S == Runners \cup Containers
<1>1. queue \in Seq(S) /\ p \in S /\ p \notin Containers
  BY ConstantsOK DEF TypeOK, Runners
<1>2. \A x \in S \ {p} : Underway(x)' <=> Underway(x)
  BY <1>1 DEF Moves, Underway, TypeOK
<1>3. /\ Underway(p) <=> pc[p] \in QueuedPCs
      /\ Underway(p)' <=> pc'[p] \in QueuedPCs
  BY <1>1 DEF Underway
<1>4. CASE UNCHANGED queue /\ (pc[p] \in QueuedPCs <=> pc'[p] \in QueuedPCs)
  BY <1>0, <1>2, <1>3, <1>4 DEF QueueExact
<1>5. CASE queue' = Append(queue, p) /\ pc[p] \notin QueuedPCs /\ pc'[p] \in QueuedPCs
  <2>1. ~Listed(queue, p) /\ Once(queue)
    BY <1>1, <1>3, <1>5 DEF QueueExact
  <2>2. /\ Once(queue')
        /\ \A x \in S : Listed(queue', x) <=> Listed(queue, x) \/ x = p
    BY <1>1, <1>5, <2>1, QueueJoined
  <2> QED
    BY <1>0, <1>1, <1>2, <1>3, <1>5, <2>2 DEF QueueExact
<1>6. CASE queue' = Tail(queue) /\ HasLock(p) /\ pc'[p] \notin QueuedPCs
  <2>1. /\ Once(queue')
        /\ \A x \in S : Listed(queue', x) <=> Listed(queue, x) /\ x # p
    BY <1>1, <1>6, QueueLeft DEF QueueExact, HasLock
  <2> QED
    BY <1>0, <1>1, <1>2, <1>3, <1>6, <2>1 DEF QueueExact
<1> QED
  BY <1>4, <1>5, <1>6 DEF Moves

\* createInstance takes no lock.
LEMMA CreateMoves ==
  ASSUME IInv, NEW o \in Ops, Create(o)
  PROVE  Moves(o)
<1>1. TypeOK
  BY DEF IInv
<1> QED
  BY <1>1 DEF Moves, TypeOK, Runners, QueuedPCs, StartPCs, StopPCs, DestroyPCs, Create,
     InsertInstance, CreateKey, CreateUndo, CreatePull, CreateCreateContainer,
     CreateStartContainer, CreatePatch, CreateOk, CreateErrPatch, CreateErr, CreateContainer,
     CreateContainerFails, StartContainer, StartContainerFails, RemoveBestEffort,
     RemoveContainer, RemoveContainerFails, End, Running, Goto, Stay, daemon

\* A start reads the row outside the lock, then joins.
LEMMA EnterMoves ==
  ASSUME IInv, NEW o \in Ops, StartRead(o) \/ StartEnter(o) \/ RecoverRead(o)
  PROVE  Moves(o)
<1>1. TypeOK
  BY DEF IInv
<1> QED
  BY <1>1 DEF Moves, TypeOK, Runners, QueuedPCs, StartPCs, StopPCs, DestroyPCs, StartRead,
     StartEnter, RecoverRead, Enqueue, Goto, Stay, process, daemon

\* restartInstance leaves the queue on every way out, and is at its head by then.
LEMMA RestartMoves ==
  ASSUME IInv, NEW p \in Runners, Restart(p)
  PROVE  Moves(p)
<1>1. TypeOK /\ HoldersAreHeads /\ SnapNamed
  BY DEF IInv
<1> QED
  BY <1>1 DEF Moves, TypeOK, HoldersAreHeads, SnapNamed, QueuedPCs, StartPCs, StopPCs,
     DestroyPCs, Restart, StartFind, StartKey, StartClear, StartPull, StartCreateContainer,
     StartStartContainer, StartPatch, StartOk, StartAdopt, StartCleanup, StartSurvivor,
     StartErrPatch, StartErr, CreateContainer, CreateContainerFails, StartContainer,
     StartContainerFails, RemoveBestEffort, RemoveContainer, RemoveContainerFails, End,
     Running, Exit, Goto, Stay, daemon

\* So does stopInstance, and the plan sweep with it.
LEMMA StopMoves ==
  ASSUME IInv, NEW o \in Ops, Stop(o)
  PROVE  Moves(o)
<1>1. TypeOK /\ HoldersAreHeads /\ SnapNamed
  BY DEF IInv
<1> USE <1>1 DEF Moves, TypeOK, HoldersAreHeads, Runners, QueuedPCs, StartPCs, StopPCs,
      DestroyPCs, Enqueue, StopExit, Exit, Goto, Stay, daemon
<1>2. CASE \/ StopRead(o) \/ SweepCheck(o) \/ SweepRead(o) \/ StopEnter(o)
           \/ StopMark(o) \/ StopPush(o) \/ StopPatch(o) \/ StopOk(o)
  BY <1>2 DEF StopRead, SweepCheck, SweepRead, StopEnter, StopMark, StopPush, StopPatch, StopOk
<1>3. CASE StopStop(o) \/ StopRemove(o)
  BY <1>3 DEF StopStop, StopRemove, SnapNamed, StopContainer, StopContainerFails,
     RemoveBestEffort, RemoveContainer, RemoveContainerFails, End, Running
<1> QED
  BY <1>2, <1>3 DEF Stop

\* So does destroyInstance, whose every failure is caught.
LEMMA DestroyMoves ==
  ASSUME IInv, NEW o \in Ops, Destroy(o)
  PROVE  Moves(o)
<1>1. TypeOK /\ HoldersAreHeads /\ SnapNamed
  BY DEF IInv
<1> USE <1>1 DEF Moves, TypeOK, HoldersAreHeads, Runners, QueuedPCs, StartPCs, StopPCs,
      DestroyPCs, Enqueue, Exit, Goto, Stay, daemon
<1>2. CASE \/ DestroyRead(o) \/ DestroyEnter(o) \/ DestroyMark(o) \/ DestroyDir(o)
           \/ DestroyS3(o) \/ DestroyRow(o)
  BY <1>2 DEF DestroyRead, DestroyEnter, DestroyMark, DestroyDir, DestroyS3, DestroyRow
<1>3. CASE DestroyStop(o) \/ DestroyRemove(o)
  BY <1>3 DEF DestroyStop, DestroyRemove, SnapNamed, StopContainer, StopContainerFails,
     RemoveBestEffort, RemoveContainer, RemoveContainerFails, End, Running
<1> QED
  BY <1>2, <1>3 DEF Destroy

\* The reconciliation joins at most once, for the restart it makes.
LEMMA BootMoves ==
  ASSUME IInv, RowInv, Reboot \/ Reconcile
  PROVE  Moves(Boot)
<1>1. TypeOK /\ BootAlone
  BY DEF IInv, RowInv
<1> QED
  BY <1>1 DEF Moves, TypeOK, BootAlone, Runners, QueuedPCs, StartPCs, StopPCs, DestroyPCs,
     Reboot, Reconcile, ReconcileRead, ReconcileInspect, ReconcilePatch, Booted, Enqueue,
     Goto, Stay, daemon

\* handleContainerDieEvent joins when the row has let go, and leaves after the push or
\* without it: a container dies once, so its handler cannot be in the queue already.
LEMMA HandlerQueue ==
  ASSUME IInv, RowInv, QueueExact, NEW c \in Containers, Handler(c)
  PROVE  QueueExact'
<1> DEFINE S == Runners \cup Containers
<1>1. TypeOK /\ HoldersAreHeads /\ DeadStayDead
  BY DEF IInv, RowInv
<1>2. queue \in Seq(S) /\ c \in S /\ c \notin Runners
  BY <1>1, ConstantsOK DEF TypeOK, Runners
<1>3. /\ UNCHANGED pc /\ hpc' = [hpc EXCEPT ![c] = hpc'[c]] /\ hpc'[c] # "idle"
      /\ dieEvents' \subseteq dieEvents \ {c}
  BY <1>1 DEF Handler, DieEvent, DiePatch, DieNotify, DieCheck, DiePersist, daemon, TypeOK,
     QueueExact
<1>4. \A d \in dieEvents' : d \in Containers /\ hpc'[d] = "idle"
  BY <1>1, <1>3 DEF QueueExact, TypeOK
<1>5. \A x \in S \ {c} : Underway(x)' <=> Underway(x)
  BY <1>1, <1>3 DEF Underway, TypeOK
<1>6. /\ Underway(c) <=> hpc[c] \in {"check", "persist"}
      /\ Underway(c)' <=> hpc'[c] \in {"check", "persist"}
  BY <1>2 DEF Underway
<1>7. \/ UNCHANGED queue /\ (Underway(c) <=> Underway(c)')
      \/ queue' = Append(queue, c) /\ ~Underway(c) /\ Underway(c)'
      \/ queue' = Tail(queue) /\ HasLock(c) /\ ~Underway(c)'
  BY <1>1, <1>6 DEF Handler, DieEvent, DiePatch, DieNotify, DieCheck, DiePersist, Enqueue,
     HoldersAreHeads, QueueExact, TypeOK
<1>8. CASE UNCHANGED queue /\ (Underway(c) <=> Underway(c)')
  BY <1>4, <1>5, <1>8 DEF QueueExact
<1>9. CASE queue' = Append(queue, c) /\ ~Underway(c) /\ Underway(c)'
  <2>1. ~Listed(queue, c) /\ Once(queue)
    BY <1>2, <1>9 DEF QueueExact
  <2>2. /\ Once(queue')
        /\ \A x \in S : Listed(queue', x) <=> Listed(queue, x) \/ x = c
    BY <1>2, <1>9, <2>1, QueueJoined
  <2> QED
    BY <1>2, <1>4, <1>5, <1>9, <2>2 DEF QueueExact
<1>10. CASE queue' = Tail(queue) /\ HasLock(c) /\ ~Underway(c)'
  <2>1. /\ Once(queue')
        /\ \A x \in S : Listed(queue', x) <=> Listed(queue, x) /\ x # c
    BY <1>2, <1>10, QueueLeft DEF QueueExact, HasLock
  <2> QED
    BY <1>2, <1>4, <1>5, <1>10, <2>1 DEF QueueExact
<1> QED
  BY <1>7, <1>8, <1>9, <1>10

\* A death by itself, and a step that changes nothing, leave the queue alone.
LEMMA ContainerQueue ==
  ASSUME IInv, RowInv, QueueExact,
         (\E c \in Containers : Die(c) \/ Vanish(c)) \/ UNCHANGED vars
  PROVE  QueueExact'
<1>1. /\ UNCHANGED <<queue, pc, hpc>>
      /\ dieEvents' \subseteq dieEvents \cup Running
  BY DEF Die, Vanish, End, process, vars, daemon, Running
<1>2. \A c \in dieEvents' : hpc'[c] = "idle"
  BY <1>1 DEF QueueExact, RowInv, DeadStayDead, IInv, TypeOK, Running
<1> QED
  BY <1>1, <1>2 DEF QueueExact, Underway

\* A crash empties the queue, and everyone who was in it is over.
LEMMA CrashQueue ==
  ASSUME Crash
  PROVE  QueueExact'
  BY DEF Crash, QueueExact, Once, Listed, Underway, QueuedPCs, StartPCs, StopPCs,
     DestroyPCs, Runners

\* At the start nobody waits.
LEMMA InitQueue == Init => QueueExact
  BY DEF Init, QueueExact, Once, Listed, Underway, QueuedPCs, StartPCs, StopPCs,
     DestroyPCs, Runners

\* Every step of the specification keeps the queue exact.
LEMMA QueueStep == IInv /\ RowInv /\ QueueExact /\ [Next]_vars => QueueExact'
<1> SUFFICES ASSUME IInv, RowInv, QueueExact, [Next]_vars PROVE QueueExact'
  OBVIOUS
<1>0. TypeOK /\ DeadStayDead
  BY DEF IInv, RowInv
<1>1. ASSUME NEW p \in Runners, Moves(p) PROVE QueueExact'
  BY <1>0, <1>1, MoveQueue
<1>2. CASE \E o \in Ops :
             \/ Create(o) \/ StartRead(o) \/ StartEnter(o) \/ RecoverRead(o)
             \/ Stop(o) \/ Destroy(o)
  BY <1>1, <1>2, CreateMoves, EnterMoves, StopMoves, DestroyMoves DEF Runners
<1>3. CASE \E p \in Runners : Restart(p)
  BY <1>1, <1>3, RestartMoves
<1>4. CASE \E c \in Containers : Handler(c)
  BY <1>4, HandlerQueue
<1>5. CASE (\E c \in Containers : Die(c) \/ Vanish(c)) \/ UNCHANGED vars
  BY <1>5, ContainerQueue
<1>6. CASE Crash
  BY <1>6, CrashQueue
<1>7. CASE Reboot \/ Reconcile
  BY <1>1, <1>7, BootMoves DEF Runners
<1> QED
  BY <1>2, <1>3, <1>4, <1>5, <1>6, <1>7 DEF Next

-------------------------------------------------------------------------------
(* The invariant, and what follows from it. *)

\* At the start nothing runs but the container that the row names.
LEMMA InitRow == Init => RowInv
<1> SUFFICES ASSUME Init PROVE RowInv
  OBVIOUS
<1>1. /\ \A p \in Runners : pc[p] = "idle" /\ mine[p] = None
      /\ \A c \in Containers : hpc[c] = "idle"
      /\ phase = "up" /\ crashes = 0 /\ dieEvents = {}
  BY DEF Init
<1>2. /\ status \in {"none", "stopped", "running"} /\ shown # "starting"
      /\ status = "none" => cid = None
      /\ Holding \subseteq {cid} /\ Running \subseteq {cid}
      /\ status = "none" \/ shown # "none"
      /\ shown = "none" => \A c \in Containers : docker[c] = "absent"
  BY ConstantsOK DEF Init, Holding, Running
<1>3. BootAlone
  BY <1>1 DEF BootAlone, BootPCs, Runners
<1>4. OneContainer /\ OwnContainers /\ DeadStayDead /\ NoRowNoId
  BY <1>1, <1>2 DEF OneContainer, OwnContainers, DeadStayDead, NoRowNoId, Runners
<1>5. StopTakesAll /\ LookedTwice /\ Attributed /\ PushAfterDeath
  BY <1>1, <1>2 DEF StopTakesAll, LookedTwice, Attributed, PushAfterDeath, Runners
<1>6. FailedCreate /\ StaleIsThere /\ StartIsAnswered /\ CreatingIsOwned /\ BootKnows
  BY <1>1, <1>2 DEF FailedCreate, CreatePCs, StaleIsThere, StartIsAnswered, CreatingIsOwned,
     BootKnows, Runners
<1>7. OnlyCreate
  BY <1>1, <1>2 DEF Init, OnlyCreate, StartPCs, CreatePCs, Runners
<1> QED
  BY <1>3, <1>4, <1>5, <1>6, <1>7 DEF RowInv

\* Every step of the specification keeps the invariant.
LEMMA RowStep == IInv /\ RowInv /\ [Next]_vars => RowInv'
<1> SUFFICES ASSUME IInv, RowInv, [Next]_vars PROVE RowInv'
  OBVIOUS
<1>1. ASSUME NEW o \in Ops, Create(o) PROVE RowInv'
  BY <1>1, CreateKeeps
<1>2. ASSUME NEW o \in Ops, StartRead(o) \/ StartEnter(o) \/ RecoverRead(o) PROVE RowInv'
  BY <1>2, EnterKeeps
<1>3. ASSUME NEW p \in Runners, Restart(p) PROVE RowInv'
  BY <1>3, RestartLookKeeps, RestartDockerKeeps, RestartRowKeeps DEF Restart
<1>4. ASSUME NEW o \in Ops, Stop(o) PROVE RowInv'
  BY <1>4, StopBeginKeeps, StopEndKeeps DEF Stop
<1>5. ASSUME NEW o \in Ops, Destroy(o) PROVE RowInv'
  BY <1>5, DestroyFilesKeep, DestroyKeeps DEF Destroy
<1>6. ASSUME NEW c \in Containers, Handler(c) PROVE RowInv'
  BY <1>6, HandlerKeeps
<1>7. ASSUME NEW c \in Containers, Die(c) \/ Vanish(c) PROVE RowInv'
  BY <1>7, ContainerKeeps
<1>8. CASE Crash \/ Reboot
  BY <1>8, CrashKeeps
<1>9. CASE Reconcile
  BY <1>9, ReconcileKeeps
<1>10. CASE UNCHANGED vars
  BY <1>10, NothingKeeps
<1> QED
  BY <1>1, <1>2, <1>3, <1>4, <1>5, <1>6, <1>7, <1>8, <1>9, <1>10 DEF Next

\* The second inductive invariant, for every value of the constants.
THEOREM RowInvariance == Spec => []RowInv
  BY InitRow, RowStep, Invariance, PTL DEF Spec

\* No operation that is over stays in the chain of locks (whoever came after it would wait
\* for ever), and none is in it twice (it would wait for itself): for any requests and
\* faults, deaths and crashes included.
THEOREM QueueIsExact == Spec => []QueueExact
  BY InitQueue, QueueStep, Invariance, RowInvariance, PTL DEF Spec

\* The invariants of the lifecycle together, as the run states them.
THEOREM LifecycleInvariance == Spec => []LifecycleInv
<1>1. IInv /\ RowInv /\ QueueExact => LifecycleInv
  BY DEF LifecycleInv
<1> QED
  BY <1>1, Invariance, RowInvariance, QueueIsExact, PTL

\* stopInstance says "stopped", and a row says so, only when nothing runs any more: creates
\* left out (they take no lock), and Docker refusing nothing (a stop that Docker refuses is
\* logged, and the stop goes on).
THEOREM StoppedMeansStopped ==
  ASSUME "create" \notin Requests, "docker" \notin Faults
  PROVE  Spec => []StopMeansStopped
<1>1. RowInv => StopMeansStopped
  BY DEF RowInv, StopTakesAll, StopMeansStopped, Fault
<1> QED
  BY <1>1, RowInvariance, PTL

\* restartInstance looks for a survivor before it marks the row as an error: no start does
\* so under a running container, creates left out and Docker refusing nothing (a cleanup
\* that Docker refuses leaves what was started).
THEOREM LiveIsNotError ==
  ASSUME "create" \notin Requests, "docker" \notin Faults
  PROVE  Spec => []NeverMarkLiveError
<1>1. RowInv => NeverMarkLiveError
  BY DEF RowInv, LookedTwice, NeverMarkLiveError, Fault
<1> QED
  BY <1>1, RowInvariance, PTL

\* The last push of the config (of a stop, of the handler of a death) is made of a
\* directory nothing writes to: no container runs, under the same hypotheses.
THEOREM PushOfTheStopped ==
  ASSUME "create" \notin Requests, "docker" \notin Faults
  PROVE  Spec => []FinalPushOnlyWhenStopped
<1>1. IInv /\ RowInv => FinalPushOnlyWhenStopped
  <2> SUFFICES ASSUME IInv, RowInv, status # "none",
                      (\E o \in Ops : pc[o] = "tPush") \/ (\E c \in Containers : hpc[c] = "persist")
               PROVE  Running = {}
    BY DEF FinalPushOnlyWhenStopped
  <2>1. CASE \E o \in Ops : pc[o] = "tPush"
    <3>1. PICK o \in Ops : pc[o] = "tPush"
      BY <2>1
    <3>2. docker[snap[o]] = "exited" /\ snap[o] \in Containers
      BY <3>1 DEF RowInv, StopTakesAll, IInv, SnapNamed, StopPCs, TypeOK, Runners
    <3> QED
      BY <3>2 DEF RowInv, OneContainer, Holding, Running
  <2>2. CASE \E c \in Containers : hpc[c] = "persist"
    <3>1. PICK c \in Containers : hpc[c] = "persist"
      BY <2>2
    <3>2. cid = None
      BY <3>1 DEF RowInv, PushAfterDeath
    <3>3. \A p \in Runners : pc[p] \notin {"sPatch", "sCleanup"}
      BY <3>1, ConstantsOK DEF IInv, HoldersAreHeads, HasLock, QueuedPCs, StartPCs, Runners
    <3> QED
      BY <3>1, <3>2, <3>3, ConstantsOK DEF RowInv, Attributed, Dying, Fault, Running
  <2> QED
    BY <2>1, <2>2
<1> QED
  BY <1>1, Invariance, RowInvariance, PTL

\* Between requests no container runs that the row does not name: creates left out, Docker
\* refusing nothing, and the manager not dying between the start of a container and the
\* PATCH that names it.
THEOREM NoneRunsUnnamed ==
  ASSUME "create" \notin Requests, Faults \cap {"docker", "crash"} = {}
  PROVE  Spec => []NoOrphan
<1>1. RowInv => NoOrphan
  BY DEF RowInv, BootAlone, Attributed, NoOrphan, Quiet, Fault
<1> QED
  BY <1>1, RowInvariance, PTL

\* Clients shown "starting" are shown something else in the end, unless a failure of the
\* rest-api, of Docker or of the disk throws past restartInstance's catch block.
THEOREM ProgressEnds ==
  ASSUME Faults \cap {"rest", "docker", "disk"} = {}
  PROVE  Spec => []NoDanglingProgress
<1>1. RowInv => NoDanglingProgress
  BY DEF RowInv, StartIsAnswered, NoDanglingProgress, Quiet, Speaking, StartPCs
<1> QED
  BY <1>1, RowInvariance, PTL

\* No row stays in "creating" behind the create that inserted it, as long as the PATCHes
\* and the DELETE of the rest-api arrive.
THEOREM CreatingEnds ==
  ASSUME "rest" \notin Faults
  PROVE  Spec => []CreatingIsTransient
<1>1. RowInv => CreatingIsTransient
  BY DEF RowInv, CreatingIsOwned, CreatingIsTransient, Quiet, Fault, Runners
<1> QED
  BY <1>1, RowInvariance, PTL

\* A create that fails marks no running container as an error, for any faults, when nothing
\* else starts containers: creates exclude one another by the fresh id of their row.
THEOREM LoneCreate ==
  ASSUME Requests \cap {"start", "recover"} = {}
  PROVE  Spec => []CreateNeverMarksLiveError
<1>1. RowInv => CreateNeverMarksLiveError
  BY DEF RowInv, OnlyCreate, CreateNeverMarksLiveError, CreatePCs, Running
<1> QED
  BY <1>1, RowInvariance, PTL

\* The row is taken from a container (by the PATCH of a start, a stop, the handler of a
\* death) only when that container runs no more, whatever fails and however often the
\* manager dies -- creates left out.
THEOREM RowNamesWhatRuns ==
  ASSUME "create" \notin Requests
  PROVE  Spec => LetsGoOfTheDead
<1> DEFINE Dead == cid # None /\ cid' # cid /\ status' # "none" => docker[cid] # "running"
<1>1. IInv /\ RowInv /\ [Next]_vars => Dead
  <2> SUFFICES ASSUME IInv, RowInv, Next, cid # None, cid' # cid, status' # "none",
     docker[cid] = "running"
               PROVE  FALSE
    BY DEF vars, row
  <2>0. Running = {cid}
    BY DEF RowInv, OneContainer, Holding, Running, IInv, TypeOK
  <2>1. ASSUME NEW o \in Ops, Create(o)
        PROVE  FALSE
    BY <2>1 DEF IInv, ColdStart, CreatePCs, Runners, Create, InsertInstance, CreateKey,
       CreateUndo, CreatePull, CreateCreateContainer, CreateStartContainer, CreatePatch,
       CreateOk, CreateErrPatch, CreateErr
  <2>2. ASSUME NEW p \in Runners, Restart(p)
        PROVE  FALSE
    <3>1. CASE StartPatch(p)
      <4>1. mine[p] \in Holding /\ cid' = mine[p]
        BY <3>1 DEF StartPatch, PatchOk, PatchFails, row, RowInv, OwnContainers, Holding,
           IInv, TypeOK
      <4> QED
        BY <2>0, <4>1 DEF RowInv, OneContainer, Holding, IInv, TypeOK
    <3>2. CASE StartAdopt(p)
      BY <2>0, <3>2 DEF StartAdopt, PatchOk, PatchFails, row, RowInv, LookedTwice
    <3> QED
      BY <2>2, <3>1, <3>2 DEF Restart, StartFind, StartKey, StartClear, StartPull,
         StartCreateContainer, StartStartContainer, StartOk, StartCleanup, StartSurvivor,
         StartErrPatch, StartErr, PatchOk, PatchFails, row
  <2>3. ASSUME NEW o \in Ops, Stop(o)
        PROVE  FALSE
    BY <2>0, <2>3 DEF Stop, StopRead, SweepCheck, SweepRead, StopEnter, StopMark, StopStop,
       StopPush, StopRemove, StopPatch, StopOk, row, RowInv, StopTakesAll
  <2>4. ASSUME NEW o \in Ops, Destroy(o)
        PROVE  FALSE
    BY <2>4 DEF Destroy, DestroyRead, DestroyEnter, DestroyMark, DestroyStop, DestroyDir,
       DestroyRemove, DestroyS3, DestroyRow, DeleteOk, DeleteFails, row
  <2>5. ASSUME NEW c \in Containers, Die(c) \/ Handler(c) \/ Vanish(c)
        PROVE  FALSE
    BY <2>5 DEF Die, Handler, DieEvent, DiePatch, DieNotify, DieCheck, DiePersist, Vanish,
       row, RowInv, DeadStayDead
  <2>6. CASE \/ \E o \in Ops : StartRead(o) \/ StartEnter(o) \/ RecoverRead(o)
             \/ Crash \/ Reboot \/ Reconcile
    BY <2>6 DEF StartRead, StartEnter, RecoverRead, Crash, Reboot, Reconcile, ReconcileRead,
       ReconcileInspect, ReconcilePatch, PatchOk, PatchFails, row
  <2> QED
    BY <2>1, <2>2, <2>3, <2>4, <2>5, <2>6 DEF Next
<1> QED
  BY <1>1, Invariance, RowInvariance, PTL DEF Spec, LetsGoOfTheDead

\* After a reboot the row says "running" exactly of what runs, if the calls of the
\* reconciliation succeed and nothing dies under it.
THEOREM RebootRepairs ==
  ASSUME Faults \cap {"rest", "docker", "disk", "race"} = {}
  PROVE  Spec => BootRepairs
<1> DEFINE Agree == phase = "boot" /\ phase' = "up" /\ cid' # None /\ pc[Boot] # "sKey" =>
                      (status' = "running" <=> docker'[cid'] = "running")
<1>1. IInv /\ RowInv /\ [Next]_vars => Agree
  <2> SUFFICES ASSUME IInv, RowInv, Next, phase = "boot", phase' = "up", cid' # None,
     pc[Boot] # "sKey"
               PROVE  status' = "running" <=> docker'[cid'] = "running"
    BY DEF vars, process
  <2>0. /\ \A o \in Ops : pc[o] \in {"idle", "done"}
        /\ \A c \in Containers : hpc[c] \in {"idle", "done"}
        /\ BootKnows /\ BootAlone
    BY DEF RowInv, BootAlone
  <2>1. ASSUME NEW o \in Ops,
               \/ Create(o) \/ StartRead(o) \/ StartEnter(o) \/ RecoverRead(o) \/ Stop(o)
               \/ Destroy(o) \/ Restart(o)
        PROVE  FALSE
    BY <2>0, <2>1 DEF Create, InsertInstance, CreateKey, CreateUndo, CreatePull,
       CreateCreateContainer, CreateStartContainer, CreatePatch, CreateOk, CreateErrPatch,
       CreateErr, StartRead, StartEnter, RecoverRead, Stop, StopRead, SweepCheck, SweepRead,
       StopEnter, StopMark, StopStop, StopPush, StopRemove, StopPatch, StopOk, Destroy,
       DestroyRead, DestroyEnter, DestroyMark, DestroyStop, DestroyDir, DestroyRemove,
       DestroyS3, DestroyRow, Restart, StartFind, StartKey, StartClear, StartPull,
       StartCreateContainer, StartStartContainer, StartPatch, StartOk, StartAdopt,
       StartCleanup, StartSurvivor, StartErrPatch, StartErr
  <2>2. ASSUME NEW c \in Containers, Die(c) \/ Handler(c) \/ Vanish(c)
        PROVE  FALSE
    BY <2>2 DEF Die, Handler, DieEvent, DiePatch, DieNotify, DieCheck, DiePersist, Vanish,
       process
  <2>3. CASE Crash \/ Reboot
    BY <2>3 DEF Crash, Reboot
  <2>4. CASE Restart(Boot)
    <3>1. StartOk(Boot)
      <4>1. pc[Boot] \notin {"sErr", "sErrPatch"}
        BY <2>0 DEF BootKnows
      <4>2. CASE StartFind(Boot) \/ StartPull(Boot)
        BY <4>2 DEF StartFind, StartPull, Fault, Stay, process
      <4>3. CASE StartKey(Boot)
        BY <4>3 DEF StartKey
      <4>4. CASE StartClear(Boot)
        <5>1. docker[snap[Boot]] \in {"created", "running", "exited"}
          BY <4>4 DEF StartClear, RowInv, StaleIsThere, Holding, Fault, IInv, SnapNamed, Runners
        <5> QED
          BY <4>4, <5>1 DEF StartClear, RemoveContainerFails, Fault, Stay, process
      <4>5. CASE StartAdopt(Boot)
        BY <2>0, <4>5 DEF StartAdopt, BootKnows, PatchFails, Fault, Stay, process
      <4> QED
        BY <2>4, <4>1, <4>2, <4>3, <4>4, <4>5 DEF Restart, StartCreateContainer,
           StartStartContainer, StartPatch,
           StartCleanup, StartSurvivor, StartErrPatch, StartErr, Stay, process
    <3> QED
      BY <2>0, <3>1 DEF StartOk, BootKnows, row, daemon
  <2>5. CASE Reconcile
    <3>1. CASE ReconcileRead
      BY <3>1 DEF ReconcileRead, Fault, Stay, row, process
    <3>2. CASE ReconcileInspect
      <4>1. cid # None /\ snap[Boot] = cid /\ UNCHANGED <<row, daemon>>
        BY <2>0, <3>2 DEF ReconcileInspect, BootKnows
      <4>2. Booted
        BY <3>2 DEF ReconcileInspect, Stay, process
      <4>3. pc[Boot] = "bInspect" /\ pc'[Boot] = "done"
        BY <3>2, <4>2 DEF ReconcileInspect, Booted, Goto, IInv, TypeOK, Runners
      <4> QED
        BY <3>2, <4>1, <4>3 DEF ReconcileInspect, Fault, Goto, IInv, TypeOK, row, daemon,
           Runners, DockerStates
    <3>3. CASE ReconcilePatch
      BY <2>0, <3>3 DEF ReconcilePatch, BootKnows, PatchOk, PatchFails, Fault, row, daemon
    <3> QED
      BY <2>5, <3>1, <3>2, <3>3 DEF Reconcile
  <2> QED
    BY <2>1, <2>2, <2>3, <2>4, <2>5 DEF Next, Runners
<1> QED
  BY <1>1, Invariance, RowInvariance, PTL DEF Spec, BootRepairs
===============================================================================
