-------------------------- MODULE InstanceLockProofs --------------------------
(***************************************************************************)
(* Proofs about InstanceLock, for every set of calls and of instances.     *)
(*                                                                         *)
(* ServedInOrder is not inductive by itself: that a call may begin follows *)
(* only from what its previous promise stands for (ChainedOnPredecessor),  *)
(* and what a new call chains on from what the Map holds (TailIsLast).     *)
(* IInv is the conjunction of the three and of TypeOK and Positions.       *)
(***************************************************************************)
EXTENDS InstanceLock, TLAPS

\* The initial state: nothing has been called.
LEMMA InitIInv == Init => IInv
<1> SUFFICES ASSUME Init PROVE IInv
  OBVIOUS
<1> USE NoneIsNothing DEF Init, Released, Begun
<1>1. TypeOK
  BY DEF TypeOK, States
<1>2. Positions
  BY DEF Positions
<1>3. ChainedOnPredecessor
  BY DEF ChainedOnPredecessor
<1>4. TailIsLast
  <2> SUFFICES ASSUME NEW i \in Instances, NEW c \in Calls, instance[c] = i
               PROVE  FALSE
    BY DEF TailIsLast
  <2> QED
    BY DEF Init
<1>5. ServedInOrder
  BY DEF ServedInOrder
<1> QED
  BY <1>1, <1>2, <1>3, <1>4, <1>5 DEF IInv

\* A new call chains on the last call of its instance and becomes the last.
LEMMA CallStep ==
  ASSUME IInv, NEW c \in Calls, NEW i \in Instances, withInstanceLock(c, i)
  PROVE  IInv'
<1> USE NoneIsNothing DEF withInstanceLock
<1>1. TypeOK'
  BY DEF IInv, TypeOK, States
<1>2. Positions'
  BY DEF IInv, TypeOK, Positions
<1>3. \A d \in Calls : Released(d)' <=> (Released(d) /\ d # c)
  BY DEF IInv, TypeOK, Released, States
<1>4. \A d \in Calls : Begun(d)' <=> (Begun(d) /\ d # c)
  BY <1>3 DEF IInv, TypeOK, Begun, States
<1>5. ChainedOnPredecessor'
  <2> SUFFICES ASSUME NEW d \in Calls, state'[d] # "idle"
               PROVE  /\ previous'[d] # None =>
                           /\ state'[previous'[d]] # "idle"
                           /\ instance'[previous'[d]] = instance'[d]
                           /\ order'[previous'[d]] < order'[d]
                      /\ \A e \in Calls :
                           state'[e] # "idle" /\ instance'[e] = instance'[d] /\ order'[e] < order'[d] =>
                             \/ Released(e)'
                             \/ previous'[d] # None /\ order'[e] <= order'[previous'[d]]
    BY DEF ChainedOnPredecessor
  <2>1. CASE d = c
    <3> DEFINE l == locks[i]
    <3>1. /\ previous'[c] = l /\ order'[c] = clock /\ instance'[c] = i
          /\ \A e \in Calls : e # c => /\ order'[e] = order[e]
                                       /\ instance'[e] = instance[e]
                                       /\ state'[e] = state[e]
      BY DEF IInv, TypeOK
    <3>2. CASE l = None
      BY <2>1, <3>1, <3>2, <1>3 DEF IInv, TypeOK, TailIsLast, Released
    <3>3. CASE l # None
      <4>1. l \in Calls /\ l # c /\ instance[l] = i /\ state[l] # "idle" /\ order[l] < clock
        BY <3>3 DEF IInv, TypeOK, Positions, TailIsLast
      <4>2. \A e \in Calls : instance[e] = i => order[e] <= order[l]
        BY <3>3 DEF IInv, TailIsLast
      <4>3. clock \in Nat
        BY DEF IInv, TypeOK
      <4> QED
        BY <2>1, <4>3, <3>1, <3>3, <4>1, <4>2
    <3> QED
      BY <3>2, <3>3
  <2>2. CASE d # c
    <3>1. /\ previous'[d] = previous[d] /\ order'[d] = order[d]
          /\ instance'[d] = instance[d] /\ state[d] # "idle" /\ order[d] < clock
          /\ order'[c] = clock
          /\ \A e \in Calls : e # c => /\ order'[e] = order[e]
                                       /\ instance'[e] = instance[e]
                                       /\ state'[e] = state[e]
      BY <2>2 DEF IInv, TypeOK, Positions
    <3>2. previous[d] # None =>
            /\ previous[d] \in Calls /\ previous[d] # c
            /\ state[previous[d]] # "idle"
            /\ instance[previous[d]] = instance[d]
            /\ order[previous[d]] < order[d]
      BY <3>1 DEF IInv, TypeOK, ChainedOnPredecessor
    <3>3. ASSUME NEW e \in Calls,
                 state'[e] # "idle", instance'[e] = instance'[d], order'[e] < order'[d]
          PROVE  /\ e # c
                 /\ Released(e) \/ (previous[d] # None /\ order[e] <= order[previous[d]])
      <4>1. e # c
        BY <3>1, <3>3 DEF IInv, TypeOK
      <4> QED
        BY <4>1, <3>1, <3>3 DEF IInv, ChainedOnPredecessor
    <3> QED
      BY <3>1, <3>2, <3>3, <1>3
  <2> QED
    BY <2>1, <2>2
<1>6. TailIsLast'
  <2>1. /\ locks'[i] = c /\ instance'[c] = i /\ state'[c] = "queued" /\ order'[c] = clock
        /\ \A j \in Instances : j # i => locks'[j] = locks[j]
        /\ \A e \in Calls : e # c => /\ order'[e] = order[e]
                                     /\ instance'[e] = instance[e]
                                     /\ state'[e] = state[e]
    BY DEF IInv, TypeOK
  <2>2. \A e \in Calls : instance[e] # None => e # c /\ order[e] <= clock
    BY DEF IInv, TypeOK, Positions
  <2> SUFFICES ASSUME NEW j \in Instances
               PROVE  /\ locks'[j] = None => \A e \in Calls : instance'[e] = j => Released(e)'
                      /\ locks'[j] # None =>
                           /\ instance'[locks'[j]] = j
                           /\ state'[locks'[j]] # "finished"
                           /\ \A e \in Calls : instance'[e] = j => order'[e] <= order'[locks'[j]]
    BY DEF TailIsLast
  <2>3. CASE j = i
    BY <2>1, <2>2, <2>3 DEF IInv, TypeOK
  <2>4. CASE j # i
    <3>1. CASE locks[j] = None
      BY <2>1, <2>4, <3>1, <1>3 DEF IInv, TailIsLast, Released
    <3>2. CASE locks[j] # None
      <4>1. locks[j] \in Calls /\ instance[locks[j]] = j /\ locks[j] # c
        BY <3>2, <2>2 DEF IInv, TypeOK, TailIsLast
      <4>2. /\ state[locks[j]] # "finished"
            /\ \A e \in Calls : instance[e] = j => order[e] <= order[locks[j]]
        BY <3>2 DEF IInv, TailIsLast
      <4> QED
        BY <2>1, <2>4, <3>2, <4>1, <4>2
    <3> QED
      BY <3>1, <3>2
  <2> QED
    BY <2>3, <2>4
<1>7. ServedInOrder'
  <2> SUFFICES ASSUME NEW d \in Calls, NEW e \in Calls,
                      instance'[d] = instance'[e], state'[d] # "idle",
                      order'[d] < order'[e], Begun(e), e # c
               PROVE  Released(d) /\ d # c
    BY <1>3, <1>4 DEF ServedInOrder
  <2>1. order'[e] = order[e] /\ order[e] < clock /\ instance'[e] = instance[e]
    BY DEF IInv, TypeOK, Positions, Begun, Released
  <2>2. d # c
    BY <2>1 DEF IInv, TypeOK
  <2>3. Released(d)
    BY <2>1, <2>2 DEF IInv, TypeOK, ServedInOrder
  <2> QED
    BY <2>2, <2>3
<1> QED
  BY <1>1, <1>2, <1>5, <1>6, <1>7 DEF IInv

\* A call begins only when everything called before it has released.
LEMMA BeginStep ==
  ASSUME IInv, NEW c \in Calls, Begin(c)
  PROVE  IInv'
<1> USE NoneIsNothing DEF Begin
<1>1. TypeOK'
  BY DEF IInv, TypeOK, States
<1>2. Positions'
  BY DEF IInv, TypeOK, Positions
<1>3. \A d \in Calls : Released(d)' <=> Released(d)
  BY DEF IInv, TypeOK, Released
<1>4. \A d \in Calls : Begun(d)' <=> (Begun(d) \/ d = c)
  BY <1>3 DEF IInv, TypeOK, Begun, States
<1>5. ChainedOnPredecessor'
  BY <1>3 DEF IInv, TypeOK, ChainedOnPredecessor
<1>6. TailIsLast'
  BY <1>3 DEF IInv, TypeOK, TailIsLast
<1>7. ServedInOrder'
  <2> SUFFICES ASSUME NEW d \in Calls, NEW e \in Calls,
                      instance[d] = instance[e], state[d] # "idle",
                      order[d] < order[e], Begun(e)'
               PROVE  Released(d)
    BY <1>3 DEF ServedInOrder, IInv, TypeOK
  <2>1. CASE e # c
    BY <2>1, <1>4 DEF IInv, ServedInOrder
  <2>2. CASE e = c
    <3>1. \/ Released(d)
          \/ previous[c] # None /\ order[d] <= order[previous[c]]
      BY <2>2 DEF IInv, ChainedOnPredecessor
    <3>2. CASE previous[c] # None /\ order[d] <= order[previous[c]]
      <4> DEFINE p == previous[c]
      <4>1. /\ p \in Calls
            /\ Released(p) /\ Begun(p)
            /\ instance[p] = instance[d]
            /\ state[p] # "idle"
        BY <2>2, <3>2 DEF IInv, TypeOK, ChainedOnPredecessor, Begun
      <4>2. CASE d = p
        BY <4>1, <4>2
      <4>3. CASE d # p
        <5>1. order[d] < order[p]
          BY <4>1, <4>3, <3>2 DEF IInv, TypeOK, Positions
        <5> QED
          BY <5>1, <4>1 DEF IInv, ServedInOrder
      <4> QED
        BY <4>2, <4>3
    <3> QED
      BY <3>1, <3>2
  <2> QED
    BY <2>1, <2>2
<1> QED
  BY <1>1, <1>2, <1>5, <1>6, <1>7 DEF IInv

\* fn settling, and the tail settling, change the state of one call only.
LEMMA SettleStep ==
  ASSUME IInv, NEW c \in Calls, Settle(c) \/ ReleaseTail(c)
  PROVE  IInv'
<1> USE NoneIsNothing DEF Settle, ReleaseTail
<1>1. TypeOK'
  BY DEF IInv, TypeOK, States
<1>2. Positions'
  BY DEF IInv, TypeOK, Positions
<1>3. \A d \in Calls : Released(d) => Released(d)'
  BY DEF IInv, TypeOK, Released
<1>4. \A d \in Calls : Begun(d)' <=> Begun(d)
  BY DEF IInv, TypeOK, Begun, Released
<1>5. ChainedOnPredecessor'
  BY <1>3 DEF IInv, TypeOK, ChainedOnPredecessor
<1>6. TailIsLast'
  BY <1>3 DEF IInv, TypeOK, TailIsLast
<1>7. ServedInOrder'
  BY <1>3, <1>4 DEF IInv, TypeOK, ServedInOrder
<1> QED
  BY <1>1, <1>2, <1>5, <1>6, <1>7 DEF IInv

\* The entry is dropped only by the last call, after which all have released.
LEMMA CleanupStep ==
  ASSUME IInv, NEW c \in Calls, Cleanup(c)
  PROVE  IInv'
<1> USE NoneIsNothing DEF Cleanup
<1>0. instance[c] \in Instances
  BY DEF IInv, TypeOK, Positions
<1>1. TypeOK'
  BY <1>0 DEF IInv, TypeOK, States
<1>2. Positions'
  BY DEF IInv, TypeOK, Positions
<1>3. \A d \in Calls : Released(d)' <=> Released(d)
  BY DEF IInv, TypeOK, Released
<1>4. \A d \in Calls : Begun(d)' <=> Begun(d)
  BY <1>3 DEF IInv, TypeOK, Begun
<1>5. ChainedOnPredecessor'
  BY <1>3 DEF IInv, TypeOK, ChainedOnPredecessor
<1>6. TailIsLast'
  <2>1. CASE locks[instance[c]] = c
    <3>1. \A d \in Calls : instance[d] = instance[c] => Released(d)
      <4> SUFFICES ASSUME NEW d \in Calls, instance[d] = instance[c], d # c
                   PROVE  Released(d)
        BY DEF Released
      <4>1. order[d] < order[c]
        BY <2>1, <1>0 DEF IInv, TypeOK, TailIsLast, Positions
      <4>2. Begun(c)
        BY DEF Begun, Released
      <4>3. state[d] # "idle"
        BY <1>0 DEF IInv, Positions
      <4> QED
        BY <4>1, <4>2, <4>3 DEF IInv, ServedInOrder
    <3> QED
      BY <3>1, <2>1, <1>0, <1>3 DEF IInv, TypeOK, TailIsLast
  <2>2. CASE locks[instance[c]] # c
    <3>1. \A i \in Instances : locks[i] # c
      BY <2>2 DEF IInv, TailIsLast
    <3> QED
      BY <2>2, <3>1, <1>3 DEF IInv, TypeOK, TailIsLast
  <2> QED
    BY <2>1, <2>2
<1>7. ServedInOrder'
  BY <1>3, <1>4 DEF IInv, TypeOK, ServedInOrder
<1> QED
  BY <1>1, <1>2, <1>5, <1>6, <1>7 DEF IInv

\* Every step preserves the inductive invariant.
LEMMA StepIInv == IInv /\ [Next]_vars => IInv'
<1> SUFFICES ASSUME IInv, [Next]_vars PROVE IInv'
  OBVIOUS
<1>1. CASE UNCHANGED vars
  BY <1>1 DEF vars, IInv, TypeOK, Positions, ChainedOnPredecessor, TailIsLast,
              ServedInOrder, Released, Begun
<1>2. CASE Next
  BY <1>2, CallStep, BeginStep, SettleStep, CleanupStep DEF Next
<1> QED
  BY <1>1, <1>2

\* The inductive invariant holds in every reachable state.
THEOREM Invariance == Spec => []IInv
<1> QED
  BY InitIInv, StepIInv, PTL DEF Spec

\* No two operations of one instance overlap, and they run in the order of the
\* calls.
THEOREM MutualExclusionInOrder == Spec => []ServedInOrder
<1>1. IInv => ServedInOrder
  BY DEF IInv
<1> QED
  BY <1>1, Invariance, PTL

\* isInstanceLocked never reports an instance free while a call is pending.
THEOREM LockedIsTruthful == Spec => []LockedTellsTheTruth
<1>1. IInv => LockedTellsTheTruth
  BY DEF IInv, TailIsLast, LockedTellsTheTruth, isInstanceLocked
<1> QED
  BY <1>1, Invariance, PTL

\* Every step of the lock is a step of the abstract lock, or changes nothing
\* the abstract lock shows.
LEMMA StepRefines == IInv /\ [Next]_vars => [Abstract!Next]_(Abstract!vars)
<1> SUFFICES ASSUME IInv, [Next]_vars PROVE [Abstract!Next]_(Abstract!vars)
  OBVIOUS
<1> USE DEF Abstract!Next, Abstract!vars, IInv, TypeOK
<1>1. CASE UNCHANGED vars
  BY <1>1 DEF vars
<1>2. ASSUME NEW c \in Calls, NEW i \in Instances, withInstanceLock(c, i)
      PROVE  Abstract!Ask(c, i)
  BY <1>2 DEF withInstanceLock, Abstract!Ask
<1>3. ASSUME NEW c \in Calls, Begin(c)
      PROVE  Abstract!Enter(c)
  <2>1. IInv'
    BY <1>3, BeginStep
  <2>2. \A d \in Calls : instance[d] = instance[c] /\ order[d] < order[c] => Released(d)
    <3> SUFFICES ASSUME NEW d \in Calls, instance[d] = instance[c], order[d] < order[c]
                 PROVE  Released(d)
      OBVIOUS
    <3>1. state[d] # "idle"
      BY <1>3 DEF Begin, Positions
    <3>2. Released(d)'
      BY <2>1, <1>3, <3>1 DEF Begin, ServedInOrder, Begun
    <3> QED
      BY <3>2, <1>3 DEF Begin, Released
  <2> QED
    BY <1>3, <2>2 DEF Begin, Abstract!Enter, Released
<1>4. ASSUME NEW c \in Calls, Settle(c)
      PROVE  UNCHANGED Abstract!vars
  BY <1>4 DEF Settle
<1>5. ASSUME NEW c \in Calls, ReleaseTail(c)
      PROVE  Abstract!Leave(c)
  BY <1>5 DEF ReleaseTail, Abstract!Leave
<1>6. ASSUME NEW c \in Calls, Cleanup(c)
      PROVE  UNCHANGED Abstract!vars
  BY <1>6 DEF Cleanup
<1> QED
  BY <1>1, <1>2, <1>3, <1>4, <1>5, <1>6 DEF Next

\* The promise-chained Map is an implementation of the FIFO lock.
THEOREM Refinement == Spec => Abstract!Spec
<1>1. Init => Abstract!Init
  BY DEF Init, Abstract!Init
<1> QED
  BY <1>1, StepRefines, Invariance, PTL DEF Spec, Abstract!Spec
===============================================================================
