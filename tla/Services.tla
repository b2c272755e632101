------------------------------- MODULE Services -------------------------------
(***************************************************************************)
(* What serves the switcher, the browsers and the return of gpu-xserver.   *)
(* These share no state but the request slots (the caches of passwords and *)
(* rows that they read appear in each as reads that answer or fail, and    *)
(* the status of an instance as a lookup that goes either way), so a       *)
(* behaviour has traffic of one kind: TLC explores the sum of the three,   *)
(* not the product.                                                        *)
(***************************************************************************)
EXTENDS NodeKey, ObsCommand, ViewerSessions, GpuRecovery

VARIABLE traffic  \* "switcher", "browsers" or "recovery"

vars == <<pc, keyVars, obsVars, viewerVars, gpuVars, traffic>>

Init ==
  /\ traffic \in {"switcher", "browsers", "recovery"}
  /\ pc = [r \in Requests |-> "idle"]
  /\ KeyInit /\ ObsInit /\ ViewerInit /\ GpuInit

\* The request is answered, and its slot serves another one.
Free(r) ==
  /\ Over(r) /\ Goto(r, "idle")
  /\ token' = [token EXCEPT ![r] = 0]
  /\ view' = [view EXCEPT ![r] = None]
  /\ kind' = [kind EXCEPT ![r] = "api"]
  /\ asOwner' = asOwner \ {r}
  /\ UNCHANGED <<key, nodeRow, commandKeyHash, cooldown, loaders, obsVars>>
  /\ UNCHANGED <<owned, tickets, sessions, relay, gpuVars, traffic>>

Next ==
  \/ /\ traffic = "switcher"
     /\ \/ KeyNext /\ UNCHANGED obsVars
        \/ ObsNext /\ UNCHANGED keyVars
     /\ UNCHANGED <<viewerVars, gpuVars, traffic>>
  \/ /\ traffic = "browsers"
     /\ ViewerNext
     /\ UNCHANGED <<keyVars, obsVars, gpuVars, traffic>>
  \/ /\ traffic = "recovery"
     /\ GpuNext
     /\ UNCHANGED <<pc, keyVars, obsVars, viewerVars, traffic>>
  \/ \E r \in Requests : Free(r)

\* The parts of Next that fairness is about, as steps of the whole.
Switcher(A) == traffic = "switcher" /\ A /\ UNCHANGED <<viewerVars, gpuVars, traffic>>

Recovery(A) ==
  traffic = "recovery" /\ A /\ UNCHANGED <<pc, keyVars, obsVars, viewerVars, traffic>>

\* Somebody goes on presenting the key the node has now.
PresentsKey == \E r \in Requests : verifyCommandKey(r) /\ token'[r] = key

\* A read of the row that the key waits for is answered, if only now and then.
AnswersKey == KeyAwaited /\ AnswerNode

(***************************************************************************)
(* Awaits end: a connect by its own timeout, a disconnect by the closing   *)
(* of the socket.  Of a call it is only assumed that OBS answers it or     *)
(* never will (CallHangs), and of a caller that gets no answer that it     *)
(* hangs up.  Due continuations run, the cooldown passes.  rest-api need   *)
(* not answer every read of the row, but does not fail for ever those the  *)
(* key waits for; keys and requests need not come, but a switcher that     *)
(* comes again and again brings the key it was given.  Docker restarts     *)
(* gpu-xserver, and a pass goes on: its lookups and restarts end.          *)
(***************************************************************************)
Fairness ==
  /\ \A r \in Requests :
       WF_vars(Switcher(Command(r) /\ UNCHANGED keyVars)) /\ WF_vars(Free(r))
  /\ WF_vars(Switcher((AnswerNode \/ RejectNode) /\ UNCHANGED obsVars))
  /\ WF_vars(Switcher(StoreNode /\ UNCHANGED obsVars))
  /\ WF_vars(Switcher(EndCooldown /\ UNCHANGED obsVars))
  /\ SF_vars(Switcher(AnswersKey /\ UNCHANGED obsVars))
  /\ SF_vars(Switcher(PresentsKey /\ UNCHANGED obsVars))
  /\ WF_vars(Recovery(GpuStarts)) /\ \A n \in Passes : WF_vars(Recovery(Recover(n)))

Spec == Init /\ [][Next]_vars

FairSpec == Spec /\ Fairness

-------------------------------------------------------------------------------
TypeOK ==
  /\ pc \in [Requests -> Steps] /\ traffic \in {"switcher", "browsers", "recovery"}
  /\ KeyTypeOK /\ ObsTypeOK /\ ViewerTypeOK /\ GpuTypeOK

\* The inductive invariant.
IInv == TypeOK /\ RepliesInOrder /\ OneInLine /\ SpentOnce /\ OnlyOwners

\* What every reachable state satisfies: with it, that open sockets are counted.
ServicesInv == IInv /\ AfterSession /\ CountExact

\* A rotated key is taken up by the mismatches it causes, though a mismatch may join
\* a fetch that was answered before the rotation and start the cooldown with it.
RotationArrives == traffic = "switcher" => []<>(commandKeyHash = key)
===============================================================================
