----------------------------- MODULE ServicesProofs -----------------------------
(***************************************************************************)
(* Proofs about Services, for every set of requests, tokens and instances  *)
(* and every bound.                                                        *)
(*                                                                         *)
(* The three kinds of traffic share only pc, so the invariant of each part *)
(* is kept by its own steps for its own reasons, and by everybody else's   *)
(* because they leave alone the steps it speaks of: the frame lemmas.      *)
(*                                                                         *)
(* None of the action properties is inductive by itself: that a hash never *)
(* goes back needs the reply on its way (RepliesInOrder), that batches     *)
(* stay apart the line (OneInLine), that a session stays dead the ticket   *)
(* of every first use (SpentOnce), that a revoked viewer gets no socket    *)
(* what the checks before it have let through (OnlyOwners), that a session *)
(* outlives its sockets that they are counted right (CountExact).          *)
(***************************************************************************)
EXTENDS Services, SequenceTheorems, FiniteSetTheorems, TLAPS

Line == {"connecting", "calling", "disconnecting"}

Viewing == {"starting", "joined", "recheck", "authorize", "upgrade", "relay"}

\* The initial states.
LEMMA InitIInv == Init => IInv
<1> SUFFICES ASSUME Init PROVE IInv
  OBVIOUS
<1>1. pc = [r \in Requests |-> "idle"] /\ pc \in [Requests -> Steps]
  BY DEF Init, Steps
<1>2. KeyTypeOK /\ RepliesInOrder
  <2>1. 0 \in 0..MaxKey /\ key \in Nat
    BY MaxKeyIsNat DEF Init, KeyInit
  <2>2. KeyTypeOK
    BY <2>1 DEF Init, KeyInit, KeyTypeOK
  <2>3. RepliesInOrder
    BY <2>1 DEF Init, KeyInit, RepliesInOrder
  <2> QED
    BY <2>2, <2>3
<1>3. ObsTypeOK /\ OneInLine
  BY <1>1, ObsCommandAssumption DEF Init, ObsInit, ObsTypeOK, OneInLine
<1>4. ViewerTypeOK
  BY DEF Init, ViewerInit, RelayInit, ViewerTypeOK, RelayTypeOK, Kinds
<1>5. SpentOnce /\ OnlyOwners
  BY <1>1 DEF Init, ViewerInit, SpentOnce, OnlyOwners, Starting
<1>6. GpuTypeOK
  <2>1. up \in BOOLEAN /\ correlated \in BOOLEAN
    BY Zenon DEF Init, GpuInit
  <2>5. deaths \in 0..MaxOutages
    BY GpuAssumption DEF Init, GpuInit
  <2>2. /\ life \in [Instances -> {"running", "dying", "error"}]
        /\ answered \subseteq Instances /\ pending \subseteq Instances
    BY DEF Init, GpuInit
  <2>3. pass \in [Passes -> {"none", "grace", "next", "lookup", "restart", "over", "thrown"}]
    BY DEF Init, GpuInit
  <2>4. left \in [Passes -> SUBSET Instances] /\ turn \in [Passes -> Instances \cup {Nobody}]
    BY DEF Init, GpuInit
  <2> QED
    BY <2>1, <2>2, <2>3, <2>4, <2>5 DEF GpuTypeOK
<1> QED
  BY <1>1, <1>2, <1>3, <1>4, <1>5, <1>6 DEF Init, IInv, TypeOK

-------------------------------------------------------------------------------
(* Frames: what the steps of one part leave of the others' invariants. *)

LEMMA KeyFrame ==
  ASSUME KeyTypeOK, RepliesInOrder, UNCHANGED keyVars
  PROVE  KeyTypeOK' /\ RepliesInOrder'
BY DEF KeyTypeOK, RepliesInOrder, keyVars, nodeRow, loaders

LEMMA GpuFrame ==
  ASSUME GpuTypeOK, UNCHANGED gpuVars
  PROVE  GpuTypeOK'
BY DEF GpuTypeOK, gpuVars, gpu, passes

LEMMA ObsFrame ==
  ASSUME ObsTypeOK, OneInLine, UNCHANGED obsVars,
         \A r \in Requests : pc'[r] = pc[r] \/ (pc[r] \notin Line /\ pc'[r] \notin Line)
  PROVE  ObsTypeOK' /\ OneInLine'
BY DEF ObsTypeOK, OneInLine, obsVars, Line

LEMMA ViewerFrame ==
  ASSUME ViewerTypeOK, SpentOnce, OnlyOwners, UNCHANGED viewerVars,
         \A r \in Requests : pc'[r] = pc[r] \/ pc'[r] \notin Viewing
  PROVE  ViewerTypeOK' /\ SpentOnce' /\ OnlyOwners'
<1>1. ViewerTypeOK'
  BY DEF ViewerTypeOK, RelayTypeOK, viewerVars, tickets, sessions, asked, relay
<1>2. \A r \in Requests : pc'[r] \in Viewing => pc[r] = pc'[r]
  OBVIOUS
<1>3. \A t \in Tokens : Starting(t)' => Starting(t)
  BY <1>2 DEF Starting, viewerVars, asked, Viewing
<1>4. SpentOnce'
  BY <1>2, <1>3 DEF SpentOnce, viewerVars, tickets, sessions, asked, Viewing
<1>5. OnlyOwners'
  BY <1>2 DEF OnlyOwners, viewerVars, asked, Viewing
<1> QED
  BY <1>1, <1>4, <1>5

-------------------------------------------------------------------------------
(* The key. *)

\* Only requests that have not got further than the key move, and not far.
LEMMA KeyMoves ==
  ASSUME pc \in [Requests -> Steps], KeyNext
  PROVE  /\ pc' \in [Requests -> Steps]
         /\ \A r \in Requests :
              \/ pc'[r] = pc[r]
              \/ pc[r] \in {"idle", "verifying"} /\ pc'[r] \in {"verifying", "lookup", "refused"}
<1>1. CASE UNCHANGED pc
  BY <1>1
<1>2. CASE \E r \in Requests : verifyCommandKey(r)
  BY <1>2 DEF verifyCommandKey, Goto, Steps
<1>3. ASSUME NEW h, Settle(h)
      PROVE  /\ pc' \in [Requests -> Steps]
             /\ \A r \in Requests :
                  \/ pc'[r] = pc[r]
                  \/ pc[r] \in {"idle", "verifying"} /\ pc'[r] \in {"verifying", "lookup", "refused"}
  <2>1. \A r \in Requests :
          pc'[r] = pc[r] \/ (pc[r] = "verifying" /\ pc'[r] \in {"lookup", "refused"})
    BY <1>3 DEF Settle, Loaders, Verdict
  <2>2. pc' \in [Requests -> Steps]
    BY <1>3 DEF Settle, Loaders, Verdict, Steps
  <2> QED
    BY <2>1, <2>2
<1>4. CASE StoreNode \/ RejectNode
  BY <1>3, <1>4 DEF StoreNode, RejectNode
<1> QED
  BY <1>1, <1>2, <1>4
     DEF KeyNext, RotateKey, retryCommandKeyLoadIfMissing, ReadNode, AnswerNode, EndCooldown

\* A reply is not older than the hash, because the hash came from an earlier one.
LEMMA KeyStep ==
  ASSUME KeyTypeOK, RepliesInOrder, KeyNext
  PROVE  KeyTypeOK' /\ RepliesInOrder' /\ commandKeyHash' >= commandKeyHash
<1> USE MaxKeyIsNat DEF KeyTypeOK, RepliesInOrder, nodeRow, loaders
<1>1. CASE RotateKey
  BY <1>1 DEF RotateKey
<1>2. CASE retryCommandKeyLoadIfMissing
  BY <1>2 DEF retryCommandKeyLoadIfMissing, fetchNode
<1>3. CASE ReadNode
  BY <1>3 DEF ReadNode, fetchNode
<1>4. ASSUME NEW r \in Requests, verifyCommandKey(r)
      PROVE  KeyTypeOK' /\ RepliesInOrder' /\ commandKeyHash' >= commandKeyHash
  <2>1. token' \in [Requests -> 0..MaxKey]
    BY <1>4 DEF verifyCommandKey
  <2>2. UNCHANGED <<key, cached, answer, commandKeyHash, cooldown, loading, reading>>
    BY <1>4 DEF verifyCommandKey, fetchNode
  <2>3. inFlight' = inFlight \/ (inFlight = "none" /\ inFlight' = "sent")
    BY <1>4 DEF verifyCommandKey, fetchNode
  <2> QED
    BY <2>1, <2>2, <2>3
<1>5. CASE AnswerNode
  <2>1. KeyTypeOK'
    BY <1>5 DEF AnswerNode
  <2>2. RepliesInOrder' /\ commandKeyHash' >= commandKeyHash
    BY <1>5 DEF AnswerNode
  <2> QED
    BY <2>1, <2>2
<1>6. CASE StoreNode
  <2>1. /\ inFlight = "answered" /\ inFlight' = "none" /\ cached' = answer
        /\ loading' = FALSE /\ reading' = FALSE /\ UNCHANGED <<key, answer, token>>
    BY <1>6 DEF StoreNode, Settle
  <2>2. commandKeyHash' = answer \/ commandKeyHash' = commandKeyHash
    BY <1>6 DEF StoreNode
  <2>3. cooldown' \in BOOLEAN
    BY <1>6, Zenon DEF StoreNode
  <2>4. loading' \in BOOLEAN /\ reading' \in BOOLEAN
    BY <2>1, Zenon
  <2> QED
    BY <2>1, <2>2, <2>3, <2>4
<1>7. CASE RejectNode
  <2>1. inFlight' = "none" /\ UNCHANGED <<key, answer, token, cached, commandKeyHash>>
    BY <1>7 DEF RejectNode, Settle
  <2>2. cooldown' \in BOOLEAN /\ loading' \in BOOLEAN /\ reading' \in BOOLEAN
    BY <1>7, Zenon DEF RejectNode, Settle
  <2> QED
    BY <2>1, <2>2
<1>8. CASE EndCooldown
  <2>1. UNCHANGED <<key, nodeRow, commandKeyHash, loaders, token>>
    BY <1>8 DEF EndCooldown
  <2>2. cooldown' \in BOOLEAN
    BY <1>8, Zenon DEF EndCooldown
  <2> QED
    BY <2>1, <2>2
<1> QED
  BY <1>1, <1>2, <1>3, <1>4, <1>5, <1>6, <1>7, <1>8 DEF KeyNext

-------------------------------------------------------------------------------
(* Commands to OBS. *)

\* Only requests with an accepted token move, and never into a viewer's steps.
LEMMA CommandMoves ==
  ASSUME pc \in [Requests -> Steps], ObsNext
  PROVE  /\ pc' \in [Requests -> Steps]
         /\ \A r \in Requests :
              \/ pc'[r] = pc[r]
              \/ /\ pc[r] \in Line \cup {"lookup", "password", "queued", "hung"}
                 /\ pc'[r] \in Line \cup {"password", "queued", "hung", "refused", "done"}
<1>1. CASE UNCHANGED pc
  BY <1>1
<1>2. ASSUME NEW r \in Requests, Command(r), ~Call(r)
      PROVE  /\ pc[r] \in Line \cup {"lookup", "password", "queued", "hung"}
             /\ \E s \in Line \cup {"password", "queued", "hung", "refused", "done"} : Goto(r, s)
  BY <1>2 DEF Command, LookUpInstance, ReadPassword, Connect, Connected, ConnectFails,
              ConnectTimesOut, Leave, CallHangs, EndBatch, Disconnect, GiveUp, Line
<1>3. ASSUME NEW r \in Requests, pc[r] \in Line \cup {"lookup", "password", "queued", "hung"},
             NEW s \in Line \cup {"password", "queued", "hung", "refused", "done"}, Goto(r, s)
      PROVE  /\ pc' \in [Requests -> Steps]
             /\ \A q \in Requests :
                  \/ pc'[q] = pc[q]
                  \/ /\ pc[q] \in Line \cup {"lookup", "password", "queued", "hung"}
                     /\ pc'[q] \in Line \cup {"password", "queued", "hung", "refused", "done"}
  BY <1>3 DEF Goto, Steps, Line
<1> QED
  BY <1>1, <1>2, <1>3 DEF ObsNext, Call, LateConnect, OrphansClose

\* Who has the instance is alone past the wait: nobody else gets there before it
\* leaves the line, and it leaves the line with its connection and its answers.
LEMMA CommandStep ==
  ASSUME pc \in [Requests -> Steps], ObsTypeOK, OneInLine, ObsNext
  PROVE  ObsTypeOK' /\ OneInLine'
<1> USE ObsCommandAssumption DEF ObsTypeOK, OneInLine, Goto
<1>1. ASSUME NEW r \in Requests, LookUpInstance(r)
      PROVE  ObsTypeOK' /\ OneInLine'
  BY <1>1 DEF LookUpInstance, obsVars
<1>2. ASSUME NEW r \in Requests, ReadPassword(r)
      PROVE  ObsTypeOK' /\ OneInLine'
  <2>1. CASE line' = line
    BY <1>2, <2>1 DEF ReadPassword
  <2>2. CASE line' = Append(line, r)
    <3>1. line' \in Seq(Requests \cup {None}) /\ line' # <<>> /\ (line # <<>> => Head(line') = Head(line))
      BY <2>2
    <3> QED
      BY <1>2, <2>2, <3>1 DEF ReadPassword
  <2> QED
    BY <1>2, <2>1, <2>2 DEF ReadPassword
<1>3. ASSUME NEW r \in Requests, Connect(r) \/ Connected(r) \/ EndBatch(r) \/ GiveUp(r)
      PROVE  ObsTypeOK' /\ OneInLine'
  BY <1>3 DEF Connect, Connected, EndBatch, GiveUp, obsVars
<1>4. ASSUME NEW r \in Requests, NEW s \in {"refused", "hung", "done"},
             pc[r] \in Line, Goto(r, s),
             line' = Tail(line) \/ line' = <<None>>,
             late' \in Nat, orphans' \in Nat, late' + orphans' <= MaxOrphans,
             \/ calls' = calls /\ pc[r] = "connecting"
             \/ calls' = [calls EXCEPT ![r] = 0]
      PROVE  ObsTypeOK' /\ OneInLine'
  <2>1. line # <<>> /\ Head(line) = r
    BY <1>4 DEF Line
  <2>2. line' \in Seq(Requests \cup {None})
    <3>1. CASE line' = Tail(line)
      BY <2>1, <3>1
    <3>2. CASE line' = <<None>>
      BY <3>2
    <3> QED
      BY <1>4, <3>1, <3>2
  <2>3. \A q \in Requests : pc[q] \in Line => q = r
    BY <2>1 DEF Line
  <2>4. \A q \in Requests : pc'[q] \notin Line
    BY <1>4, <2>3 DEF Line
  <2>5. \A q \in Requests : calls'[q] = 0
    BY <1>4, <2>3 DEF Line
  <2>6. calls' \in [Requests -> 0..MaxCommands]
    <3>1. calls \in [Requests -> 0..MaxCommands] /\ 0 \in 0..MaxCommands
      OBVIOUS
    <3> HIDE DEF ObsTypeOK, OneInLine
    <3> QED
      BY <1>4, <3>1
  <2>7. ObsTypeOK'
    BY <1>4, <2>2, <2>6
  <2>8. OneInLine'
    BY <2>4, <2>5 DEF Line
  <2> QED
    BY <2>7, <2>8
<1>5. ASSUME NEW r \in Requests, ConnectFails(r)
      PROVE  ObsTypeOK' /\ OneInLine'
  BY <1>4, <1>5 DEF ConnectFails, Leave, Line
<1>6. ASSUME NEW r \in Requests, ConnectTimesOut(r)
      PROVE  ObsTypeOK' /\ OneInLine'
  <2>1. late' \in Nat /\ orphans' \in Nat /\ late' + orphans' <= MaxOrphans
    BY <1>6 DEF ConnectTimesOut
  <2> QED
    BY <1>4, <1>6, <2>1 DEF ConnectTimesOut, Leave, Line
<1>7. ASSUME NEW r \in Requests, Disconnect(r)
      PROVE  ObsTypeOK' /\ OneInLine'
  BY <1>4, <1>7 DEF Disconnect, Line
<1>8. ASSUME NEW r \in Requests, Call(r)
      PROVE  ObsTypeOK' /\ OneInLine'
  BY <1>8 DEF Call
<1>9. CASE OrphansClose
  BY <1>9 DEF OrphansClose
<1>10. CASE LateConnect
  <2>1. late' \in Nat /\ orphans' \in Nat /\ late' + orphans' <= MaxOrphans
    <3>1. late \in Nat /\ late > 0 /\ late' = late - 1 /\ orphans \in Nat /\ late + orphans <= MaxOrphans
      BY <1>10 DEF LateConnect
    <3>2. orphans' = orphans \/ orphans' = orphans + 1
      BY <1>10 DEF LateConnect
    <3> HIDE DEF ObsTypeOK, OneInLine
    <3> QED
      BY <3>1, <3>2
  <2> QED
    BY <1>10, <2>1 DEF LateConnect
<1>11. ASSUME NEW r \in Requests, CallHangs(r)
       PROVE  ObsTypeOK' /\ OneInLine'
  BY <1>4, <1>11 DEF CallHangs, Line
<1> QED
  BY <1>1, <1>2, <1>3, <1>5, <1>6, <1>7, <1>8, <1>9, <1>10, <1>11 DEF ObsNext, Command

-------------------------------------------------------------------------------
(* Tickets, sessions and proxied sockets. *)

\* What a viewer's step leaves of the line and of the key's requests.
LEMMA ViewerMoves ==
  ASSUME pc \in [Requests -> Steps], ViewerNext
  PROVE  /\ pc' \in [Requests -> Steps]
         /\ \A r \in Requests : pc'[r] = pc[r] \/ (pc[r] \notin Line /\ pc'[r] \notin Line)
<1> USE DEF Line, Goto, Steps
<1>1. CASE UNCHANGED pc
  BY <1>1
<1>2. ASSUME NEW r \in Requests, UseSession(r)
      PROVE  pc[r] = "idle" /\ \E s \in {"recheck", "authorize"} : Goto(r, s)
  BY <1>2 DEF UseSession, Present
<1>3. ASSUME NEW r \in Requests, FirstUse(r)
      PROVE  pc[r] = "idle" /\ \E s \in {"joined", "starting", "refused"} : Goto(r, s)
  BY <1>3 DEF FirstUse, Present
<1>4. ASSUME NEW r \in Requests, proxyRoute(r)
      PROVE  pc[r] = "idle" /\ \E s \in {"ticketed", "refused"} : Goto(r, s)
  BY <1>4 DEF proxyRoute, Present
<1>5. ASSUME NEW r \in Requests,
             RecheckOwner(r) \/ Authorize(r) \/ OnOpen(r) \/ OnClose(r) \/ ProxyOpens(r) \/ ProxyCloses(r)
      PROVE  /\ pc[r] \in {"recheck", "authorize", "upgrade", "relay", "ticketed"}
             /\ \E s \in {"authorize", "refused", "upgrade", "done", "relay"} : Goto(r, s)
  BY <1>5 DEF RecheckOwner, Authorize, OnOpen, OnClose, ProxyOpens, ProxyCloses
<1>6. ASSUME NEW r \in Requests, StartSession(r) \/ StartFails(r)
      PROVE  /\ pc' \in [Requests -> Steps]
             /\ \A q \in Requests : pc'[q] = pc[q] \/ (pc[q] \notin Line /\ pc'[q] \notin Line)
  BY <1>6 DEF StartSession, StartFails, Joiners
<1>7. ASSUME NEW r \in Requests, pc[r] \notin Line, NEW s \in Steps \ Line, Goto(r, s)
      PROVE  /\ pc' \in [Requests -> Steps]
             /\ \A q \in Requests : pc'[q] = pc[q] \/ (pc[q] \notin Line /\ pc'[q] \notin Line)
  BY <1>7
<1>8. CASE \E r \in Requests :
             UseSession(r) \/ FirstUse(r) \/ proxyRoute(r) \/ RecheckOwner(r) \/ Authorize(r)
             \/ OnOpen(r) \/ OnClose(r) \/ ProxyOpens(r) \/ ProxyCloses(r)
  <2> PICK r \in Requests :
             UseSession(r) \/ FirstUse(r) \/ proxyRoute(r) \/ RecheckOwner(r) \/ Authorize(r)
             \/ OnOpen(r) \/ OnClose(r) \/ ProxyOpens(r) \/ ProxyCloses(r)
    BY <1>8
  <2>1. pc[r] \notin Line /\ \E s \in Steps \ Line : Goto(r, s)
    BY <1>2, <1>3, <1>4, <1>5
  <2> QED
    BY <2>1, <1>7
<1> QED
  BY <1>1, <1>6, <1>8
     DEF ViewerNext, issueTicket, ExpireTicket, GraceEnds, CapIsReached, SweepTickets,
         SweepSessions, Revoke, RelayNext, OnMessage, UpstreamOpens, UpstreamCloses,
         UpstreamTimesOut

\* The relay keeps its types; what it does to frames is FramesWhole's.
LEMMA RelayKeepsTypes ==
  ASSUME RelayTypeOK
  PROVE  /\ RelayNext => RelayTypeOK'
         /\ \A r \in Requests : Dial(r) \/ HangUp(r) => RelayTypeOK'
<1> USE RelayAssumption DEF RelayTypeOK
<1>1. ASSUME NEW r \in Requests, OnMessage(r)
      PROVE  RelayTypeOK'
  <2> DEFINE frame == Len(sent[r]) + Len(queued[r]) + 1
  <2>1. frame \in 1..MaxFrames
    BY <1>1 DEF OnMessage
  <2>2. Append(sent[r], frame) \in Seq(1..MaxFrames) /\ Append(queued[r], frame) \in Seq(1..MaxFrames)
    BY <2>1
  <2> QED
    BY <1>1, <2>2 DEF OnMessage
<1>2. ASSUME NEW r \in Requests, UpstreamOpens(r)
      PROVE  RelayTypeOK'
  <2>1. sent[r] \o queued[r] \in Seq(1..MaxFrames) /\ <<>> \in Seq(1..MaxFrames)
    OBVIOUS
  <2> QED
    BY <1>2, <2>1 DEF UpstreamOpens
<1>3. ASSUME NEW r \in Requests, UpstreamCloses(r) \/ UpstreamTimesOut(r) \/ Dial(r)
      PROVE  RelayTypeOK'
  BY <1>3 DEF UpstreamCloses, UpstreamTimesOut, Dial
<1>4. ASSUME NEW r \in Requests, HangUp(r)
      PROVE  RelayTypeOK'
  <2>1. <<>> \in Seq(1..MaxFrames)
    OBVIOUS
  <2> QED
    BY <1>4, <2>1 DEF HangUp
<1> QED
  BY <1>1, <1>2, <1>3, <1>4 DEF RelayNext

LEMMA ViewerKeepsTypes ==
  ASSUME ViewerTypeOK, ViewerNext
  PROVE  ViewerTypeOK'
<1> USE DEF ViewerTypeOK, tickets, sessions, asked, relay
<1>r. RelayTypeOK /\ (UNCHANGED relay => RelayTypeOK')
  BY DEF RelayTypeOK
<1>1. ASSUME NEW t \in Tokens, issueTicket(t) \/ ExpireTicket(t) \/ GraceEnds(t) \/ CapIsReached(t)
      PROVE  ViewerTypeOK'
  BY <1>1, <1>r DEF issueTicket, ExpireTicket, GraceEnds, CapIsReached
<1>2. CASE SweepTickets \/ SweepSessions
  BY <1>2, <1>r DEF SweepTickets, SweepSessions
<1>3. CASE Revoke
  <2>1. owned' \in BOOLEAN
    BY <1>3, Zenon DEF Revoke
  <2> QED
    BY <1>3, <1>r, <2>1 DEF Revoke
<1>4. ASSUME NEW r \in Requests, UseSession(r)
      PROVE  ViewerTypeOK'
  BY <1>4, <1>r DEF UseSession, Present, Owners, Kinds
<1>5. ASSUME NEW r \in Requests, FirstUse(r)
      PROVE  ViewerTypeOK'
  BY <1>5, <1>r DEF FirstUse, Present, Owners, Kinds, consumeTicket
<1>6. ASSUME NEW r \in Requests, RecheckOwner(r)
      PROVE  ViewerTypeOK'
  BY <1>6, <1>r DEF RecheckOwner
<1>7. ASSUME NEW r \in Requests, StartSession(r)
      PROVE  ViewerTypeOK'
  BY <1>7, <1>r DEF StartSession
<1>8. ASSUME NEW r \in Requests, StartFails(r) \/ Authorize(r)
      PROVE  ViewerTypeOK'
  BY <1>8, <1>r DEF StartFails, Authorize, viewerVars
<1>9. ASSUME NEW r \in Requests, OnOpen(r)
      PROVE  ViewerTypeOK'
  <2>1. open' = [t \in Tokens |-> IF t = view[r] THEN open[t] + 1 ELSE open[t]]
    BY <1>9 DEF OnOpen
  <2>2. open' \in [Tokens -> Nat]
    BY <2>1
  <2> QED
    BY <1>9, <1>r, <2>2, RelayKeepsTypes DEF OnOpen
<1>10. ASSUME NEW r \in Requests, OnClose(r)
       PROVE  ViewerTypeOK'
  <2>0. open' = [t \in Tokens |-> IF t # view[r] THEN open[t]
                                 ELSE IF open[t] > 0 THEN open[t] - 1 ELSE 0]
    BY <1>10 DEF OnClose
  <2>1. open' \in [Tokens -> Nat]
    BY <2>0
  <2>2. lapsed' \subseteq Tokens
    BY <1>10 DEF OnClose
  <2> QED
    BY <1>10, <1>r, <2>1, <2>2, RelayKeepsTypes DEF OnClose
<1>11. ASSUME NEW r \in Requests, proxyRoute(r)
       PROVE  ViewerTypeOK'
  BY <1>11, <1>r DEF proxyRoute, Present, Owners, Kinds, consumeTicket
<1>12. ASSUME NEW r \in Requests, ProxyOpens(r) \/ ProxyCloses(r)
       PROVE  ViewerTypeOK'
  BY <1>12, <1>r, RelayKeepsTypes DEF ProxyOpens, ProxyCloses
<1>13. CASE RelayNext /\ UNCHANGED <<owned, tickets, sessions, asked>>
  BY <1>13, <1>r, RelayKeepsTypes
<1> QED
  BY <1>1, <1>2, <1>3, <1>4, <1>5, <1>6, <1>7, <1>8, <1>9, <1>10, <1>11, <1>12, <1>13 DEF ViewerNext

\* Steps that no request takes, or that leave it among the steps SpentOnce and
\* OnlyOwners ask nothing of.
LEMMA TicketsAndClocks ==
  ASSUME ViewerTypeOK, SpentOnce, OnlyOwners,
         \/ \E t \in Tokens : issueTicket(t) \/ ExpireTicket(t) \/ GraceEnds(t) \/ CapIsReached(t)
         \/ SweepTickets \/ SweepSessions \/ Revoke
         \/ RelayNext /\ UNCHANGED <<owned, tickets, sessions, asked>>
  PROVE  /\ SpentOnce' /\ OnlyOwners'
         /\ \A t \in Tokens : session[t] = "dropped" => session'[t] = "dropped"
<1> USE DEF tickets, sessions, asked
<1>1. UNCHANGED <<pc, view, kind, asOwner>>
  BY DEF issueTicket, ExpireTicket, GraceEnds, CapIsReached, SweepTickets, SweepSessions, Revoke,
         RelayNext, OnMessage, UpstreamOpens, UpstreamCloses, UpstreamTimesOut
<1>2. \A t \in Tokens : ticket[t] = "gone" => ticket'[t] = "gone"
  BY DEF issueTicket, ExpireTicket, GraceEnds, CapIsReached, SweepTickets, SweepSessions, Revoke,
         ViewerTypeOK
<1>3. \A t \in Tokens : /\ session'[t] # "none" <=> session[t] # "none"
                        /\ session[t] = "dropped" => session'[t] = "dropped"
  BY DEF issueTicket, ExpireTicket, GraceEnds, CapIsReached, SweepTickets, SweepSessions, Revoke,
         ViewerTypeOK
<1>4. \A t \in Tokens : Starting(t)' = Starting(t)
  BY <1>1 DEF Starting
<1>5. SpentOnce'
  BY <1>1, <1>2, <1>3, <1>4 DEF SpentOnce
<1>6. OnlyOwners'
  BY <1>1 DEF OnlyOwners
<1> QED
  BY <1>3, <1>5, <1>6

\* A step of r that starts no first use keeps SpentOnce, wherever it takes r.
LEMMA StaysSpent ==
  ASSUME ViewerTypeOK, SpentOnce, NEW r \in Requests,
         \A q \in Requests : pc'[q] = "starting" => pc[q] = "starting" /\ view'[q] = view[q],
         \A q \in Requests :
           pc'[q] = "recheck" => \/ pc[q] = "recheck" /\ view'[q] = view[q]
                                 \/ view'[q] \in Tokens /\ session'[view'[q]] # "none",
         \A t \in Tokens : ticket[t] = "gone" => ticket'[t] = "gone",
         \A t \in Tokens : session'[t] # "none" <=> session[t] # "none"
  PROVE  SpentOnce'
<1>1. \A t \in Tokens : Starting(t)' => Starting(t)
  BY DEF Starting
<1> QED
  BY <1>1 DEF SpentOnce

\* A socket of the page, or a call, comes with a session or with a first use.
LEMMA PresentStep ==
  ASSUME pc \in [Requests -> Steps], ViewerTypeOK, SpentOnce, OnlyOwners,
         NEW r \in Requests, UseSession(r) \/ FirstUse(r) \/ proxyRoute(r)
  PROVE  /\ SpentOnce' /\ OnlyOwners'
         /\ \A t \in Tokens : session[t] = "dropped" => session'[t] = "dropped"
<1> USE DEF ViewerTypeOK, sessions
<1>1. /\ pc[r] = "idle" /\ asOwner \subseteq asOwner'
      /\ \A q \in Requests \ {r} : pc'[q] = pc[q] /\ view'[q] = view[q] /\ kind'[q] = kind[q]
  BY DEF UseSession, FirstUse, proxyRoute, Present, Goto, Owners
<1>2. CASE UseSession(r)
  <2> PICK t \in Tokens, k \in {"api", "selkies"} :
        /\ Present(r, t, k) /\ Held(t) /\ Goto(r, IF k = "selkies" THEN "recheck" ELSE "authorize")
        /\ UNCHANGED <<owned, tickets, sessions, relay>>
    BY <1>2 DEF UseSession
  <2>1. view'[r] = t /\ kind'[r] = k /\ pc'[r] = IF k = "selkies" THEN "recheck" ELSE "authorize"
    BY DEF Present, Goto
  <2>2. session[t] # "none" /\ UNCHANGED <<ticket, session>>
    BY DEF Held, tickets
  <2>3. SpentOnce'
    BY <1>1, <2>1, <2>2, StaysSpent
  <2>4. OnlyOwners'
    BY <1>1, <2>1 DEF OnlyOwners
  <2> QED
    BY <2>2, <2>3, <2>4
<1>3. CASE proxyRoute(r)
  <2>1. /\ pc'[r] \in {"ticketed", "refused"} /\ UNCHANGED session
        /\ \A t \in Tokens : ticket[t] = "gone" => ticket'[t] = "gone"
    BY <1>3 DEF proxyRoute, Goto, consumeTicket
  <2>2. SpentOnce'
    BY <1>1, <2>1, StaysSpent
  <2>3. OnlyOwners'
    BY <1>1, <2>1 DEF OnlyOwners
  <2> QED
    BY <2>1, <2>2, <2>3
<1>4. CASE FirstUse(r)
  <2> PICK t \in Tokens, k \in {"api", "selkies"} :
        /\ Present(r, t, k) /\ ~Held(t)
        /\ session' = [session EXCEPT ![t] = IF @ = "held" THEN "dropped" ELSE @]
        /\ \/ /\ Starting(t) /\ Goto(r, "joined")
              /\ asOwner' = asOwner \cup {r} /\ UNCHANGED ticket
           \/ /\ ~Starting(t) /\ consumeTicket(t)
              /\ asOwner' = Owners(r)
              /\ Goto(r, IF Counts(t, "selkies") THEN "starting" ELSE "refused")
    BY <1>4 DEF FirstUse
  <2>1. view'[r] = t
    BY DEF Present
  <2>2. \A u \in Tokens : /\ session'[u] # "none" <=> session[u] # "none"
                          /\ session[u] = "dropped" => session'[u] = "dropped"
    OBVIOUS
  <2>3. \A u \in Tokens : ticket[u] = "gone" => ticket'[u] = "gone"
    BY DEF consumeTicket
  <2>4. OnlyOwners'
    <3>1. pc'[r] \in {"joined", "starting", "refused"} /\ (pc'[r] = "joined" => r \in asOwner')
      BY DEF Goto
    <3> QED
      BY <1>1, <3>1 DEF OnlyOwners
  <2>5. CASE pc'[r] # "starting"
    <3>1. pc'[r] # "recheck"
      BY DEF Goto
    <3>2. SpentOnce'
      BY <1>1, <2>2, <2>3, <2>5, <3>1, StaysSpent
    <3> QED
      BY <2>2, <2>4, <3>2
  <2>6. CASE pc'[r] = "starting"
    <3>1. ~Starting(t) /\ Counts(t, "selkies") /\ consumeTicket(t)
      BY <2>6 DEF Goto
    <3>2. ticket'[t] = "gone" /\ session[t] = "none"
      BY <3>1 DEF Counts, consumeTicket, SpentOnce
    <3>3. \A u \in Tokens : Starting(u)' => u = t \/ Starting(u)
      BY <1>1, <2>1 DEF Starting
    <3>4. \A q \in Requests \ {r} : pc[q] = "starting" => view[q] # t
      BY <3>1 DEF Starting
    <3>5. \A u \in Tokens : session'[u] # "none" => ticket'[u] = "gone" /\ ~Starting(u)'
      BY <2>2, <2>3, <3>2, <3>3 DEF SpentOnce
    <3>6. \A q \in Requests : pc'[q] = "starting" => view'[q] \in Tokens /\ ticket'[view'[q]] = "gone"
      BY <1>1, <2>1, <2>3, <3>2 DEF SpentOnce
    <3>7. \A q \in Requests : pc'[q] = "recheck" => view'[q] \in Tokens /\ session'[view'[q]] # "none"
      BY <1>1, <2>2, <2>6 DEF SpentOnce
    <3>8. \A p, q \in Requests :
            pc'[p] = "starting" /\ pc'[q] = "starting" /\ view'[p] = view'[q] => p = q
      BY <1>1, <2>1, <3>4 DEF SpentOnce
    <3>9. SpentOnce'
      BY <3>5, <3>6, <3>7, <3>8 DEF SpentOnce
    <3> QED
      BY <2>2, <2>4, <3>9
  <2> QED
    BY <2>5, <2>6
<1> QED
  BY <1>2, <1>3, <1>4

\* The first use of a token ends: its ticket is spent, nobody else started it, and
\* whoever joined it comes from a request of the owner.
LEMMA StartStep ==
  ASSUME pc \in [Requests -> Steps], ViewerTypeOK, SpentOnce, OnlyOwners,
         NEW r \in Requests, StartSession(r) \/ StartFails(r)
  PROVE  /\ SpentOnce' /\ OnlyOwners'
         /\ \A t \in Tokens : session[t] = "dropped" => session'[t] = "dropped"
<1> USE DEF ViewerTypeOK
<1>1. pc[r] = "starting" /\ view[r] \in Tokens /\ ticket[view[r]] = "gone" /\ session[view[r]] = "none"
  BY DEF StartSession, StartFails, SpentOnce, Starting
<1>2. UNCHANGED <<ticket, view, kind, asOwner>>
  BY DEF StartSession, StartFails, tickets, asked, viewerVars
<1>3. /\ \A t \in Tokens \ {view[r]} : session'[t] = session[t]
      /\ session'[view[r]] \in {"none", "held"}
  BY <1>1 DEF StartSession, StartFails, sessions, viewerVars
<1>4. \A q \in Requests : pc'[q] = pc[q] \/ (q \in Joiners(r) /\ pc'[q] \in {"authorize", "refused"})
  BY DEF StartSession, StartFails
<1>5. \A q \in Requests : pc'[q] = "starting" => pc[q] = "starting" /\ view[q] # view[r]
  <2> SUFFICES ASSUME NEW q \in Requests, pc'[q] = "starting"
               PROVE  pc[q] = "starting" /\ view[q] # view[r]
    OBVIOUS
  <2>1. pc'[r] \in {"authorize", "refused"}
    BY DEF StartSession, StartFails, Joiners
  <2>2. pc[q] = "starting" /\ q # r
    BY <1>4, <2>1
  <2> QED
    BY <1>1, <2>2 DEF SpentOnce
<1>6. SpentOnce'
  <2>1. \A t \in Tokens : session'[t] # "none" => ticket[t] = "gone" /\ ~Starting(t)'
    BY <1>1, <1>2, <1>3, <1>5 DEF SpentOnce, Starting
  <2>2. \A q \in Requests : pc'[q] = "starting" => view[q] \in Tokens /\ ticket[view[q]] = "gone"
    BY <1>5 DEF SpentOnce
  <2>3. \A q \in Requests : pc'[q] = "recheck" => view[q] \in Tokens /\ session'[view[q]] # "none"
    <3> SUFFICES ASSUME NEW q \in Requests, pc'[q] = "recheck"
                 PROVE  view[q] \in Tokens /\ session'[view[q]] # "none"
      OBVIOUS
    <3>1. view[q] \in Tokens /\ session[view[q]] # "none"
      BY <1>4 DEF SpentOnce
    <3> QED
      BY <1>1, <1>3, <3>1
  <2>4. \A p, q \in Requests :
          pc'[p] = "starting" /\ pc'[q] = "starting" /\ view[p] = view[q] => p = q
    BY <1>5 DEF SpentOnce
  <2> QED
    BY <1>2, <2>1, <2>2, <2>3, <2>4 DEF SpentOnce
<1>7. OnlyOwners'
  <2>1. \A q \in Requests : pc'[q] = "authorize" /\ pc[q] # "authorize" => q \in asOwner
    BY <1>4 DEF StartSession, StartFails, Joiners, OnlyOwners
  <2> QED
    BY <1>2, <1>4, <2>1 DEF OnlyOwners
<1> QED
  BY <1>1, <1>3, <1>6, <1>7

\* The other steps of a request only let on whom the owner's check has let through.
LEMMA PassStep ==
  ASSUME pc \in [Requests -> Steps], ViewerTypeOK, SpentOnce, OnlyOwners, NEW r \in Requests,
         RecheckOwner(r) \/ Authorize(r) \/ OnOpen(r) \/ OnClose(r) \/ ProxyOpens(r) \/ ProxyCloses(r)
  PROVE  /\ SpentOnce' /\ OnlyOwners'
         /\ \A t \in Tokens : session[t] = "dropped" => session'[t] = "dropped"
<1> USE DEF ViewerTypeOK
<1>1. UNCHANGED <<ticket, view, kind, asOwner>>
  BY DEF RecheckOwner, Authorize, OnOpen, OnClose, ProxyOpens, ProxyCloses, tickets, asked, viewerVars
<1>2. /\ \A q \in Requests \ {r} : pc'[q] = pc[q]
      /\ pc'[r] \notin {"starting", "recheck", "joined"}
      /\ pc'[r] = "authorize" => pc[r] = "recheck" /\ r \in asOwner
      /\ pc'[r] = "upgrade" => pc[r] = "authorize" /\ kind[r] = "selkies"
      /\ pc'[r] = "relay" => pc[r] = "upgrade" \/ r \in asOwner
  BY DEF RecheckOwner, Authorize, OnOpen, OnClose, ProxyOpens, ProxyCloses, Goto
<1>3. \A t \in Tokens : /\ session'[t] # "none" <=> session[t] # "none"
                        /\ session[t] = "dropped" => session'[t] = "dropped"
  <2>1. CASE RecheckOwner(r)
    <3>1. view[r] \in Tokens /\ session[view[r]] # "none"
      BY <2>1 DEF RecheckOwner, SpentOnce
    <3> QED
      BY <2>1, <3>1 DEF RecheckOwner
  <2>2. CASE UNCHANGED session
    BY <2>2
  <2> QED
    BY <2>1, <2>2 DEF Authorize, OnOpen, OnClose, ProxyOpens, ProxyCloses, sessions, viewerVars
<1>4. SpentOnce'
  BY <1>1, <1>2, <1>3, StaysSpent
<1>5. OnlyOwners'
  BY <1>1, <1>2 DEF OnlyOwners
<1> QED
  BY <1>3, <1>4, <1>5

LEMMA ViewerStep ==
  ASSUME pc \in [Requests -> Steps], ViewerTypeOK, SpentOnce, OnlyOwners, ViewerNext
  PROVE  /\ ViewerTypeOK' /\ SpentOnce' /\ OnlyOwners'
         /\ \A t \in Tokens : session[t] = "dropped" => session'[t] = "dropped"
<1>1. ViewerTypeOK'
  BY ViewerKeepsTypes
<1> QED
  BY <1>1, TicketsAndClocks, PresentStep, StartStep, PassStep DEF ViewerNext

-------------------------------------------------------------------------------
(* gpu-xserver. *)

LEMMA GpuStep ==
  ASSUME GpuTypeOK, GpuNext
  PROVE  GpuTypeOK'
<1> USE GpuAssumption DEF GpuTypeOK, gpu, passes, At
<1>1. CASE GpuDies \/ GpuStarts \/ WindowEnds
  <2>1. up' \in BOOLEAN /\ correlated' \in BOOLEAN
    BY <1>1, Zenon DEF GpuDies, GpuStarts, WindowEnds
  <2>2. deaths' \in 0..MaxOutages
    BY <1>1 DEF GpuDies, GpuStarts, WindowEnds
  <2>3. pass' \in [Passes -> {"none", "grace", "next", "lookup", "restart", "over", "thrown"}]
    BY <1>1 DEF GpuDies, GpuStarts, WindowEnds
  <2> QED
    BY <1>1, <2>1, <2>2, <2>3 DEF GpuDies, GpuStarts, WindowEnds
<1>2. ASSUME NEW i \in Instances,
             Crashes(i) \/ MarkError(i) \/ queueIfGpuCorrelated(i) \/ StartedOtherwise(i)
      PROVE  GpuTypeOK'
  BY <1>2 DEF Crashes, MarkError, queueIfGpuCorrelated, StartedOtherwise
<1>3. ASSUME NEW n \in Passes, TimerFires(n) \/ NextInstance(n)
      PROVE  GpuTypeOK'
  BY <1>3 DEF TimerFires, NextInstance
<1>4. ASSUME NEW n \in Passes, LookUp(n)
      PROVE  GpuTypeOK'
  BY <1>4 DEF LookUp
<1>5. ASSUME NEW n \in Passes, RestartInstance(n)
      PROVE  GpuTypeOK'
  <2> PICK l \in {"running", life[turn[n]]} : life' = [life EXCEPT ![turn[n]] = l]
    BY <1>5 DEF RestartInstance
  <2>1. \A i \in Instances : life'[i] \in {"running", life[i]}
    OBVIOUS
  <2>2. life' \in [Instances -> {"running", "dying", "error"}]
    BY <2>1
  <2> QED
    BY <1>5, <2>2 DEF RestartInstance
<1> QED
  BY <1>1, <1>2, <1>3, <1>4, <1>5 DEF GpuNext, Recover

-------------------------------------------------------------------------------
(* The whole. *)

LEMMA FreeStep ==
  ASSUME IInv, NEW r \in Requests, Free(r)
  PROVE  IInv'
<1> USE DEF IInv, TypeOK
<1>1. pc' \in [Requests -> Steps] /\ pc'[r] = "idle" /\ \A q \in Requests \ {r} : pc'[q] = pc[q]
  BY DEF Free, Goto, Steps
<1>2. pc[r] \notin Line
  BY DEF Free, Over, Line
<1>3. KeyTypeOK' /\ RepliesInOrder'
  BY MaxKeyIsNat DEF Free, KeyTypeOK, RepliesInOrder, nodeRow, loaders
<1>4. ObsTypeOK' /\ OneInLine'
  BY <1>1, <1>2, ObsFrame DEF Free, Line
<1>5. ViewerTypeOK'
  BY DEF Free, ViewerTypeOK, RelayTypeOK, Kinds, tickets, sessions, relay
<1>6. SpentOnce'
  BY <1>1, StaysSpent DEF Free, tickets, sessions
<1>7. OnlyOwners'
  BY <1>1 DEF Free, OnlyOwners, ViewerTypeOK
<1>8. GpuTypeOK' /\ traffic' \in {"switcher", "browsers", "recovery"}
  BY GpuFrame DEF Free
<1> QED
  BY <1>1, <1>3, <1>4, <1>5, <1>6, <1>7, <1>8

LEMMA NextStep ==
  ASSUME IInv, [Next]_vars
  PROVE  IInv'
<1> USE DEF IInv, TypeOK
<1>1. CASE UNCHANGED vars
  <2>1. KeyTypeOK' /\ RepliesInOrder' /\ GpuTypeOK'
    BY <1>1, KeyFrame, GpuFrame DEF vars
  <2>2. ObsTypeOK' /\ OneInLine'
    BY <1>1, ObsFrame DEF vars
  <2>3. ViewerTypeOK' /\ SpentOnce' /\ OnlyOwners'
    BY <1>1, ViewerFrame DEF vars
  <2> QED
    BY <1>1, <2>1, <2>2, <2>3 DEF vars
<1>2. CASE KeyNext /\ UNCHANGED <<obsVars, viewerVars, gpuVars, traffic>>
  <2>1. pc' \in [Requests -> Steps] /\ KeyTypeOK' /\ RepliesInOrder' /\ GpuTypeOK'
    BY <1>2, KeyMoves, KeyStep, GpuFrame
  <2>2. \A r \in Requests :
          /\ pc'[r] = pc[r] \/ (pc[r] \notin Line /\ pc'[r] \notin Line)
          /\ pc'[r] = pc[r] \/ pc'[r] \notin Viewing
    BY <1>2, KeyMoves DEF Line, Viewing
  <2>3. ObsTypeOK' /\ OneInLine'
    BY <1>2, <2>2, ObsFrame
  <2>4. ViewerTypeOK' /\ SpentOnce' /\ OnlyOwners'
    BY <1>2, <2>2, ViewerFrame
  <2> QED
    BY <1>2, <2>1, <2>3, <2>4
<1>3. CASE ObsNext /\ UNCHANGED <<keyVars, viewerVars, gpuVars, traffic>>
  <2>1. pc' \in [Requests -> Steps] /\ ObsTypeOK' /\ OneInLine' /\ GpuTypeOK'
    BY <1>3, CommandMoves, CommandStep, GpuFrame
  <2>2. \A r \in Requests : pc'[r] = pc[r] \/ pc'[r] \notin Viewing
    BY <1>3, CommandMoves DEF Line, Viewing
  <2>3. KeyTypeOK' /\ RepliesInOrder'
    BY <1>3, KeyFrame
  <2>4. ViewerTypeOK' /\ SpentOnce' /\ OnlyOwners'
    BY <1>3, <2>2, ViewerFrame
  <2> QED
    BY <1>3, <2>1, <2>3, <2>4
<1>4. CASE ViewerNext /\ UNCHANGED <<keyVars, obsVars, gpuVars, traffic>>
  <2>1. pc' \in [Requests -> Steps] /\ ViewerTypeOK' /\ SpentOnce' /\ OnlyOwners' /\ GpuTypeOK'
    BY <1>4, ViewerMoves, ViewerStep, GpuFrame
  <2>2. ObsTypeOK' /\ OneInLine'
    BY <1>4, ViewerMoves, ObsFrame
  <2>3. KeyTypeOK' /\ RepliesInOrder'
    BY <1>4, KeyFrame
  <2> QED
    BY <1>4, <2>1, <2>2, <2>3
<1>5. CASE GpuNext /\ UNCHANGED <<pc, keyVars, obsVars, viewerVars, traffic>>
  <2>1. KeyTypeOK' /\ RepliesInOrder' /\ GpuTypeOK'
    BY <1>5, KeyFrame, GpuStep
  <2>2. ObsTypeOK' /\ OneInLine'
    BY <1>5, ObsFrame
  <2>3. ViewerTypeOK' /\ SpentOnce' /\ OnlyOwners'
    BY <1>5, ViewerFrame
  <2> QED
    BY <1>5, <2>1, <2>2, <2>3
<1>6. CASE \E r \in Requests : Free(r)
  BY <1>6, FreeStep
<1> QED
  BY <1>1, <1>2, <1>3, <1>4, <1>5, <1>6 DEF Next

\* The invariant of the four parts: no reply on its way is older than the hash, who
\* is past the wait is at the head of the line, a ticket is spent once and before its
\* session, and only requests of the owner are on the way to a socket.
THEOREM Invariance == Spec => []IInv
<1>1. Init => IInv
  BY InitIInv
<1>2. IInv /\ [Next]_vars => IInv'
  BY NextStep
<1> QED
  BY <1>1, <1>2, PTL DEF Spec

\* command-key.ts: a hash once replaced never comes back.
THEOREM KeysInOrder == Spec => KeyNeverGoesBack
<1>1. IInv /\ [Next]_vars => [commandKeyHash' >= commandKeyHash]_keyVars
  <2> SUFFICES ASSUME IInv, Next, ~UNCHANGED keyVars
               PROVE  commandKeyHash' >= commandKeyHash
    BY DEF vars
  <2>1. CASE KeyNext
    BY <2>1, KeyStep DEF IInv, TypeOK
  <2>2. CASE \E r \in Requests : Free(r)
    BY <2>2 DEF Free, IInv, TypeOK, KeyTypeOK
  <2> QED
    BY <2>1, <2>2 DEF Next
<1> QED
  BY <1>1, Invariance, PTL DEF Spec, KeyNeverGoesBack

\* obs-command.ts: no command of one batch reaches OBS between two of another.
THEOREM BatchesStayWhole == Spec => BatchesDontInterleave
<1> DEFINE Whole == \A r \in Requests : calls'[r] > calls[r] => \A q \in Requests \ {r} : calls[q] = 0
<1>1. IInv /\ [Next]_vars => [Whole]_obsVars
  <2> SUFFICES ASSUME IInv, Next, ~UNCHANGED obsVars, NEW r \in Requests, calls'[r] > calls[r],
                      NEW q \in Requests \ {r}
               PROVE  calls[q] = 0
    BY DEF vars
  <2>0. calls \in [Requests -> 0..MaxCommands] /\ OneInLine
    BY DEF IInv, TypeOK, ObsTypeOK
  <2>1. ObsNext
    BY DEF Next, Free
  <2>2. \E p \in Requests : Call(p) \/ CallHangs(p) \/ Disconnect(p)
    <3>1. calls' # calls
      <4>1. calls[r] \in Nat
        BY <2>0, ObsCommandAssumption
      <4> QED
        BY <4>1
    <3> QED
      BY <2>1, <3>1
         DEF ObsNext, Command, LookUpInstance, ReadPassword, Connect, Connected, ConnectFails,
             ConnectTimesOut, EndBatch, GiveUp, LateConnect, OrphansClose, obsVars
  <2>3. ASSUME NEW p \in Requests, CallHangs(p) \/ Disconnect(p) PROVE FALSE
    <3>1. calls'[r] = IF r = p THEN 0 ELSE calls[r]
      BY <2>0, <2>3 DEF CallHangs, Disconnect
    <3>2. calls[r] \in Nat
      BY <2>0, ObsCommandAssumption
    <3> QED
      BY <3>1, <3>2
  <2>4. PICK p \in Requests : Call(p)
    BY <2>2, <2>3
  <2>5. p = r
    BY <2>0, <2>4 DEF Call
  <2>6. ASSUME calls[q] # 0 PROVE FALSE
    <3>1. calls[q] > 0 /\ pc[r] = "calling"
      BY <2>0, <2>4, <2>5, <2>6, ObsCommandAssumption DEF Call
    <3> QED
      BY <2>0, <3>1 DEF OneInLine
  <2> QED
    BY <2>6
<1> QED
  BY <1>1, Invariance, PTL DEF Spec, BatchesDontInterleave

\* selkies-viewer-sessions.ts and ws-tickets.ts: a session that was dropped never
\* comes back, because its ticket is gone.
THEOREM DeadSessions == Spec => DeadForGood
<1> DEFINE Dead == \A t \in Tokens : session[t] = "dropped" => session'[t] = "dropped"
<1>1. IInv /\ [Next]_vars => [Dead]_viewerVars
  <2> SUFFICES ASSUME IInv, Next, ~UNCHANGED viewerVars
               PROVE  Dead
    BY DEF vars
  <2>1. CASE ViewerNext
    BY <2>1, ViewerStep DEF IInv, TypeOK
  <2>2. CASE \E r \in Requests : Free(r)
    BY <2>2 DEF Free, sessions
  <2> QED
    BY <2>1, <2>2 DEF Next
<1> QED
  BY <1>1, Invariance, PTL DEF Spec, DeadForGood

\* selkies-proxy.ts and ws-proxy.ts: a request that came after the access was revoked
\* has no socket.
THEOREM RevokedStayOut == Spec => []RevokedGetsNoSocket
<1>1. IInv => RevokedGetsNoSocket
  BY DEF IInv, OnlyOwners, RevokedGetsNoSocket
<1> QED
  BY <1>1, Invariance, PTL

-------------------------------------------------------------------------------
(* openSockets, and the sockets it stands for. *)

\* A step that is no viewer's leaves sessions and counts alone, and nobody with a view moves.
LEMMA OthersViews ==
  ASSUME IInv, [Next]_vars, ~ViewerNext
  PROVE  /\ UNCHANGED <<session, lapsed, capped, open>>
         /\ \A r \in Requests : pc'[r] \in Viewing \cup {"ticketed"} =>
              pc'[r] = pc[r] /\ kind'[r] = kind[r] /\ view'[r] = view[r]
         /\ \A r \in Requests : pc[r] \in Viewing =>
              pc'[r] = pc[r] /\ kind'[r] = kind[r] /\ view'[r] = view[r]
<1>1. CASE UNCHANGED vars
  BY <1>1 DEF vars, viewerVars, sessions, asked
<1>2. CASE KeyNext /\ UNCHANGED viewerVars
  BY <1>2, KeyMoves DEF IInv, TypeOK, Viewing, viewerVars, sessions, asked
<1>3. CASE ObsNext /\ UNCHANGED viewerVars
  BY <1>3, CommandMoves DEF IInv, TypeOK, Line, Viewing, viewerVars, sessions, asked
<1>4. CASE GpuNext /\ UNCHANGED <<pc, viewerVars>>
  BY <1>4 DEF viewerVars, sessions, asked
<1>5. ASSUME NEW r \in Requests, Free(r)
      PROVE  /\ UNCHANGED <<session, lapsed, capped, open>>
             /\ pc[r] \notin Viewing /\ pc'[r] = "idle"
             /\ \A q \in Requests \ {r} :
                  pc'[q] = pc[q] /\ kind'[q] = kind[q] /\ view'[q] = view[q]
  BY <1>5 DEF IInv, TypeOK, ViewerTypeOK, Free, Over, Goto, Viewing, sessions
<1> QED
  BY <1>1, <1>2, <1>3, <1>4, <1>5 DEF Next, Viewing

\* A session begins once, and there is none again only for who never had one.
LEMMA SessionStays ==
  ASSUME IInv, [Next]_vars, NEW t \in Tokens, session[t] # "none"
  PROVE  session'[t] # "none"
<1>1. CASE ~ViewerNext
  BY <1>1, OthersViews
<1>2. CASE ViewerNext
  BY <1>2 DEF IInv, TypeOK, ViewerTypeOK, ViewerNext, issueTicket, ExpireTicket, GraceEnds,
     CapIsReached,
     SweepTickets, SweepSessions, Revoke, UseSession, FirstUse, RecheckOwner, StartSession,
     StartFails,
     Authorize, OnOpen, OnClose, proxyRoute, ProxyOpens, ProxyCloses, sessions, viewerVars
<1> QED
  BY <1>1, <1>2

\* What is let towards a socket has its session, and keeps it there.
LEMMA AfterSessionStep ==
  ASSUME IInv, AfterSession, [Next]_vars
  PROVE  AfterSession'
<1> USE DEF AfterSession
<1>0. pc \in [Requests -> Steps] /\ ViewerTypeOK
  BY DEF IInv, TypeOK
<1>1. CASE ~ViewerNext
  BY <1>1, OthersViews DEF Viewing
<1>2. ASSUME NEW r \in Requests,
             UseSession(r) \/ FirstUse(r) \/ RecheckOwner(r) \/ Authorize(r) \/ OnOpen(r)
             \/ OnClose(r) \/ proxyRoute(r) \/ ProxyOpens(r) \/ ProxyCloses(r)
      PROVE  AfterSession'
  BY <1>0, <1>2, SessionStays DEF ViewerTypeOK, UseSession, FirstUse, RecheckOwner,
     Authorize, OnOpen,
     OnClose, proxyRoute, ProxyOpens, ProxyCloses, Present, Goto, asked, sessions,
     viewerVars, IInv, SpentOnce, Held, Kinds
<1>3. ASSUME NEW r \in Requests, StartSession(r) \/ StartFails(r)
      PROVE  AfterSession'
  BY <1>0, <1>3, SessionStays DEF ViewerTypeOK, StartSession, StartFails, Joiners, asked,
     sessions, viewerVars, IInv, SpentOnce
<1>4. CASE UNCHANGED <<pc, asked>>
  BY <1>4, SessionStays DEF asked
<1> QED
  BY <1>1, <1>2, <1>3, <1>4 DEF ViewerNext, issueTicket, ExpireTicket, GraceEnds, CapIsReached,
     SweepTickets, SweepSessions, Revoke, RelayNext, OnMessage, UpstreamOpens,
     UpstreamCloses, UpstreamTimesOut

\* Every step that changes the sockets of a token, and only such a step, changes its
\* count: OnOpen adds one that was not there, OnClose takes one that was, a session
\* begins where there are none.
LEMMA CountStep ==
  ASSUME IInv, AfterSession, CountExact, [Next]_vars
  PROVE  CountExact'
<1>0. pc \in [Requests -> Steps] /\ ViewerTypeOK
  BY DEF IInv, TypeOK
<1>1. SUFFICES ASSUME NEW t \in Tokens
               PROVE  (IsFiniteSet(Sockets(t)) /\ open[t] = Cardinality(Sockets(t)))'
  BY DEF CountExact
<1>2. IsFiniteSet(Sockets(t)) /\ open[t] = Cardinality(Sockets(t)) /\ open[t] \in Nat
  BY <1>0 DEF CountExact, ViewerTypeOK
<1>3. CASE Sockets(t)' = Sockets(t) /\ open'[t] = open[t]
  BY <1>2, <1>3
<1>4. ASSUME NEW r \in Requests, OnOpen(r)
      PROVE  (IsFiniteSet(Sockets(t)) /\ open[t] = Cardinality(Sockets(t)))'
  <2>1. CASE view[r] = t
    <3>1. r \notin Sockets(t) /\ Sockets(t)' = Sockets(t) \cup {r} /\ open'[t] = open[t] + 1
      BY <1>0, <1>4, <2>1 DEF OnOpen, Goto, Sockets, AfterSession, asked, ViewerTypeOK
    <3> QED
      BY <1>2, <3>1, FS_AddElement
  <2>2. CASE view[r] # t
    BY <1>0, <1>3, <1>4, <2>2 DEF OnOpen, Goto, Sockets, asked, ViewerTypeOK
  <2> QED
    BY <2>1, <2>2
<1>5. ASSUME NEW r \in Requests, OnClose(r)
      PROVE  (IsFiniteSet(Sockets(t)) /\ open[t] = Cardinality(Sockets(t)))'
  <2>1. CASE view[r] = t
    <3>1. r \in Sockets(t) /\ Sockets(t)' = Sockets(t) \ {r}
      BY <1>0, <1>5, <2>1 DEF OnClose, Goto, Sockets, asked, ViewerTypeOK
    <3>2. IsFiniteSet(Sockets(t)') /\ Cardinality(Sockets(t)') = Cardinality(Sockets(t)) - 1
      BY <1>2, <3>1, FS_RemoveElement
    <3>3. open[t] # 0
      BY <1>2, <3>1, FS_EmptySet
    <3>4. open'[t] = open[t] - 1
      BY <1>0, <1>2, <1>5, <2>1, <3>3 DEF OnClose, ViewerTypeOK
    <3> QED
      BY <1>2, <3>2, <3>4
  <2>2. CASE view[r] # t
    BY <1>0, <1>3, <1>5, <2>2 DEF OnClose, Goto, Sockets, asked, ViewerTypeOK
  <2> QED
    BY <2>1, <2>2
<1>6. ASSUME NEW r \in Requests, StartSession(r)
      PROVE  (IsFiniteSet(Sockets(t)) /\ open[t] = Cardinality(Sockets(t)))'
  <2>1. Sockets(t)' = Sockets(t)
    BY <1>0, <1>6 DEF StartSession, Joiners, Sockets, asked
  <2>2. CASE view[r] = t
    <3>1. session[t] = "none"
      BY <1>6, <2>2 DEF StartSession, IInv, SpentOnce, Starting
    <3>2. Sockets(t) = {}
      BY <3>1 DEF Sockets, AfterSession
    <3>3. open'[t] = 0 
      BY <1>0, <1>6, <2>2 DEF StartSession, ViewerTypeOK
    <3> QED
      BY <2>1, <3>2, <3>3, FS_EmptySet
  <2>3. CASE view[r] # t
    BY <1>0, <1>3, <1>6, <2>1, <2>3 DEF StartSession, ViewerTypeOK
  <2> QED
    BY <2>2, <2>3
<1>7. CASE ~ViewerNext
  <2>1. Sockets(t)' = Sockets(t)
    BY <1>7, OthersViews DEF Sockets, Viewing
  <2> QED
    BY <1>3, <1>7, <2>1, OthersViews
<1>8. ASSUME NEW r \in Requests,
             UseSession(r) \/ FirstUse(r) \/ RecheckOwner(r) \/ StartFails(r) \/ Authorize(r)
             \/ proxyRoute(r) \/ ProxyOpens(r) \/ ProxyCloses(r)
      PROVE  Sockets(t)' = Sockets(t) /\ open'[t] = open[t]
  BY <1>0, <1>8 DEF ViewerTypeOK, UseSession, FirstUse, RecheckOwner, StartFails, Joiners,
     Authorize, proxyRoute,
     ProxyOpens, ProxyCloses, Present, Goto, Sockets, AfterSession, asked, sessions, viewerVars
<1>9. CASE UNCHANGED <<pc, asked, open>>
  BY <1>3, <1>9 DEF Sockets, asked
<1> QED
  BY <1>3, <1>4, <1>5, <1>6, <1>7, <1>8, <1>9 DEF ViewerNext, issueTicket, ExpireTicket,
     GraceEnds, CapIsReached,
     SweepTickets, SweepSessions, Revoke, RelayNext, OnMessage, UpstreamOpens,
     UpstreamCloses, UpstreamTimesOut, sessions

\* socketOpened and socketClosed: openSockets is the number of sockets the viewer has
\* open, in whatever order they open and close, and after the session was dropped too.
THEOREM SocketsCounted == Spec => []ServicesInv
<1>1. Init => AfterSession /\ CountExact
  <2> SUFFICES ASSUME Init PROVE AfterSession /\ CountExact
    OBVIOUS
  <2>1. AfterSession /\ \A t \in Tokens : Sockets(t) = {} /\ open[t] = 0
    BY DEF Init, ViewerInit, AfterSession, Sockets
  <2> QED
    BY <2>1, FS_EmptySet DEF CountExact
<1>2. IInv /\ AfterSession /\ CountExact /\ [Next]_vars => (AfterSession /\ CountExact)'
  BY AfterSessionStep, CountStep
<1>3. IInv /\ AfterSession /\ CountExact => ServicesInv
  BY DEF ServicesInv
<1> QED
  BY <1>1, <1>2, <1>3, Invariance, PTL DEF Spec

\* sweep, get and end of the viewer sessions: one is dropped under an open socket only at its cap
\* or for a viewer found to be no longer the owner.
THEOREM SocketsHold == Spec => DroppedOnlyIdle
<1> DEFINE Idle(t) == \/ t \in capped \/ ~owned
                      \/ \A r \in Requests : ~(pc[r] = "relay" /\ kind[r] = "selkies" /\ view[r] = t)
           Kept == \A t \in Tokens : session[t] = "held" /\ session'[t] = "dropped" => Idle(t)
<1>1. ServicesInv /\ [Next]_vars => [Kept]_viewerVars
  <2> SUFFICES ASSUME IInv, CountExact, [Next]_vars, NEW t \in Tokens, session[t] = "held",
  session'[t] = "dropped"
               PROVE  Idle(t)
    BY DEF ServicesInv
  <2>1. ViewerNext
    BY OthersViews
  <2>2. ViewerTypeOK
    BY DEF IInv, TypeOK
  <2>3. ~isLive(t) \/ ~owned
    BY <2>1, <2>2 DEF ViewerTypeOK, ViewerNext, issueTicket, ExpireTicket, GraceEnds,
       CapIsReached, SweepTickets,
       SweepSessions, Revoke, UseSession, FirstUse, RecheckOwner, StartSession, StartFails,
       Authorize, OnOpen, OnClose,
       proxyRoute, ProxyOpens, ProxyCloses, sessions, viewerVars, Held
  <2>4. CASE ~isLive(t)
    <3>1. t \in capped \/ open[t] = 0
      BY <2>2, <2>4 DEF isLive, ViewerTypeOK
    <3>2. CASE open[t] = 0
      <4>1. Sockets(t) = {}
        BY <3>2, FS_EmptySet DEF CountExact
      <4> QED
        BY <4>1 DEF Sockets
    <3> QED
      BY <3>1, <3>2
  <2> QED
    BY <2>3, <2>4
<1> QED
  BY <1>1, SocketsCounted, PTL DEF Spec, DroppedOnlyIdle


-------------------------------------------------------------------------------
(* Frames. *)

\* FramesWhole's first half for one request: s was passed on, q waits.
Counted(s, q) == s \o q = [i \in 1..(Len(s) + Len(q)) |-> i]

\* It can be said of the frames one by one.
LEMMA CountedPointwise ==
  ASSUME NEW S, NEW s \in Seq(S), NEW q \in Seq(S)
  PROVE  Counted(s, q) <=> /\ \A i \in 1..Len(s) : s[i] = i
                           /\ \A i \in 1..Len(q) : q[i] = Len(s) + i
<1> DEFINE n == Len(s) + Len(q)
<1>1. /\ s \o q \in Seq(S) /\ Len(s \o q) = n
      /\ \A i \in 1..n : (s \o q)[i] = IF i <= Len(s) THEN s[i] ELSE q[i - Len(s)]
  BY ConcatProperties
<1>2. Len(s) \in Nat /\ Len(q) \in Nat
  OBVIOUS
<1>3. s \o q = [i \in 1..n |-> (s \o q)[i]]
  <2>1. s \o q \in [1..n -> S]
    BY <1>1, LenProperties
  <2> QED
    BY <2>1
<1>4. ASSUME Counted(s, q)
      PROVE  (\A i \in 1..Len(s) : s[i] = i) /\ \A i \in 1..Len(q) : q[i] = Len(s) + i
  <2>1. \A i \in 1..n : (s \o q)[i] = i
    BY <1>4 DEF Counted
  <2>2. \A i \in 1..Len(s) : s[i] = i
    BY <1>1, <1>2, <2>1
  <2>3. ASSUME NEW i \in 1..Len(q)
        PROVE  q[i] = Len(s) + i
    <3>1. Len(s) + i \in 1..n /\ ~(Len(s) + i <= Len(s)) /\ (Len(s) + i) - Len(s) = i
      BY <1>2
    <3> QED
      BY <1>1, <2>1, <3>1
  <2> QED
    BY <2>2, <2>3
<1>5. ASSUME \A i \in 1..Len(s) : s[i] = i, \A i \in 1..Len(q) : q[i] = Len(s) + i
      PROVE  Counted(s, q)
  <2>1. ASSUME NEW i \in 1..n
        PROVE  (s \o q)[i] = i
    <3>1. CASE i <= Len(s)
      BY <1>1, <1>2, <1>5, <3>1
    <3>2. CASE ~(i <= Len(s))
      <4>1. i - Len(s) \in 1..Len(q) /\ Len(s) + (i - Len(s)) = i
        BY <1>2, <3>2
      <4> QED
        BY <1>1, <1>5, <3>2, <4>1
    <3> QED
      BY <3>1, <3>2
  <2> QED
    BY <1>3, <2>1 DEF Counted
<1> QED
  BY <1>4, <1>5

\* The flush.
LEMMA CountedFlush ==
  ASSUME NEW S, NEW s \in Seq(S), NEW q \in Seq(S), Counted(s, q)
  PROVE  Counted(s \o q, <<>>)
<1>1. s \o q \in Seq(S) /\ Len(s \o q) = Len(s) + Len(q) /\ Len(<<>>) = 0
  BY ConcatProperties
<1>2. (s \o q) \o <<>> = s \o q
  BY <1>1, ConcatEmptySeq
<1> QED
  BY <1>1, <1>2 DEF Counted

\* A frame that goes behind the others.
LEMMA CountedSteps ==
  ASSUME NEW S, NEW s \in Seq(S), NEW q \in Seq(S), NEW f \in S, f = Len(s) + Len(q) + 1,
         Counted(s, q)
  PROVE  /\ Counted(s, Append(q, f))
         /\ q = <<>> => Counted(Append(s, f), q)
<1>1. /\ Len(s) \in Nat /\ Len(q) \in Nat
      /\ \A i \in 1..Len(s) : s[i] = i
      /\ \A i \in 1..Len(q) : q[i] = Len(s) + i
  BY CountedPointwise
<1>2. Counted(s, Append(q, f))
  <2>1. /\ Append(q, f) \in Seq(S) /\ Len(Append(q, f)) = Len(q) + 1
        /\ \A i \in 1..Len(q) : Append(q, f)[i] = q[i]
        /\ Append(q, f)[Len(q) + 1] = f
    BY AppendProperties
  <2>2. ASSUME NEW i \in 1..(Len(q) + 1)
        PROVE  Append(q, f)[i] = Len(s) + i
    <3>1. CASE i \in 1..Len(q)
      BY <1>1, <2>1, <3>1
    <3>2. CASE i = Len(q) + 1
      BY <1>1, <2>1, <3>2
    <3> QED
      BY <1>1, <3>1, <3>2
  <2> QED
    BY <1>1, <2>1, <2>2, CountedPointwise
<1>3. ASSUME q = <<>>
      PROVE  Counted(Append(s, f), q)
  <2>1. /\ Append(s, f) \in Seq(S) /\ Len(Append(s, f)) = Len(s) + 1
        /\ \A i \in 1..Len(s) : Append(s, f)[i] = s[i]
        /\ Append(s, f)[Len(s) + 1] = f
    BY AppendProperties
  <2>2. Len(q) = 0 /\ f = Len(s) + 1
    BY <1>1, <1>3
  <2>3. \A i \in 1..Len(Append(s, f)) : Append(s, f)[i] = i
    BY <1>1, <2>1, <2>2
  <2>4. \A i \in 1..Len(q) : q[i] = Len(Append(s, f)) + i
    BY <2>2
  <2> QED
    BY <2>1, <2>3, <2>4, CountedPointwise
<1> QED
  BY <1>2, <1>3

LEMMA FramesStep ==
  ASSUME IInv, FramesWhole, [Next]_vars
  PROVE  FramesWhole'
<1> DEFINE Whole(r) == Counted(sent[r], queued[r]) /\ (upstream[r] = "open" => queued[r] = <<>>)
<1>1. FramesWhole <=> \A r \in Requests : Whole(r)
  BY DEF FramesWhole, Counted
<1>2. FramesWhole' <=> \A r \in Requests : Whole(r)'
  BY DEF FramesWhole, Counted
<1>3. SUFFICES ASSUME NEW q \in Requests
               PROVE  Whole(q)'
  BY <1>2
<1>4. Whole(q) /\ RelayTypeOK
  BY <1>1 DEF IInv, TypeOK, ViewerTypeOK
<1>5. CASE sent'[q] = sent[q] /\ queued'[q] = queued[q] /\ (upstream'[q] = "open" => upstream[q] = "open")
  BY <1>4, <1>5
<1>6. CASE OnMessage(q)
  <2> DEFINE frame == Len(sent[q]) + Len(queued[q]) + 1
  <2>1. frame \in 1..MaxFrames /\ sent[q] \in Seq(1..MaxFrames) /\ queued[q] \in Seq(1..MaxFrames)
    BY <1>4, <1>6, RelayAssumption DEF OnMessage, RelayTypeOK
  <2>2. frame = Len(sent[q]) + Len(queued[q]) + 1
    OBVIOUS
  <2>3. /\ Counted(sent[q], Append(queued[q], frame))
        /\ queued[q] = <<>> => Counted(Append(sent[q], frame), queued[q])
    BY <1>4, <2>1, <2>2, CountedSteps
  <2>4. CASE upstream[q] = "open"
    <3>1. sent'[q] = Append(sent[q], frame) /\ UNCHANGED <<queued, upstream>>
      BY <1>4, <1>6, <2>4 DEF OnMessage, RelayTypeOK
    <3> QED
      BY <1>4, <2>3, <2>4, <3>1
  <2>5. CASE upstream[q] # "open"
    <3>1. queued'[q] = Append(queued[q], frame) /\ UNCHANGED <<sent, upstream>>
      BY <1>4, <1>6, <2>5 DEF OnMessage, RelayTypeOK
    <3> QED
      BY <2>3, <2>5, <3>1
  <2> QED
    BY <2>4, <2>5
<1>7. CASE UpstreamOpens(q)
  <2>1. sent'[q] = sent[q] \o queued[q] /\ queued'[q] = <<>>
    BY <1>4, <1>7 DEF UpstreamOpens, RelayTypeOK
  <2>2. sent[q] \in Seq(1..MaxFrames) /\ queued[q] \in Seq(1..MaxFrames)
    BY <1>4 DEF RelayTypeOK
  <2>3. Counted(sent[q] \o queued[q], <<>>)
    BY <1>4, <2>2, CountedFlush
  <2> QED
    BY <2>1, <2>3
<1>8. CASE HangUp(q)
  <2>1. sent'[q] = <<>> /\ queued'[q] = <<>>
    BY <1>4, <1>8 DEF HangUp, RelayTypeOK
  <2>2. Counted(<<>>, <<>>)
    BY DEF Counted
  <2> QED
    BY <2>1, <2>2
<1>9. CASE \/ UNCHANGED relay
           \/ \E r \in Requests : UpstreamCloses(r) \/ UpstreamTimesOut(r) \/ Dial(r)
           \/ \E r \in Requests \ {q} : OnMessage(r) \/ UpstreamOpens(r) \/ HangUp(r)
  BY <1>4, <1>5, <1>9
     DEF RelayTypeOK, relay, UpstreamCloses, UpstreamTimesOut, Dial, OnMessage, UpstreamOpens, HangUp
<1>10. \/ UNCHANGED relay
       \/ \E r \in Requests : UpstreamCloses(r) \/ UpstreamTimesOut(r) \/ Dial(r)
       \/ \E r \in Requests : OnMessage(r) \/ UpstreamOpens(r) \/ HangUp(r)
  BY DEF Next, vars, viewerVars, ViewerNext, RelayNext, Free,
         issueTicket, ExpireTicket, GraceEnds, CapIsReached, SweepTickets, SweepSessions, Revoke,
         UseSession, FirstUse, RecheckOwner, StartSession, StartFails, Authorize, OnOpen, OnClose,
         proxyRoute, ProxyOpens, ProxyCloses
<1> QED
  BY <1>6, <1>7, <1>8, <1>9, <1>10

\* ws-proxy.ts and selkies-proxy.ts: the frames that reached the container and those
\* that wait for it are together what the browser sent, in order.
THEOREM FramesStayWhole == Spec => []FramesWhole
<1>1. Init => FramesWhole
  <2> SUFFICES ASSUME Init, NEW r \in Requests
               PROVE  Counted(sent[r], queued[r]) /\ queued[r] = <<>>
    BY DEF FramesWhole, Counted
  <2>1. sent[r] = <<>> /\ queued[r] = <<>>
    BY DEF Init, ViewerInit, RelayInit
  <2>2. Counted(<<>>, <<>>)
    BY DEF Counted
  <2> QED
    BY <2>1, <2>2
<1>2. IInv /\ FramesWhole /\ [Next]_vars => FramesWhole'
  BY FramesStep
<1> QED
  BY <1>1, <1>2, Invariance, PTL DEF Spec
===============================================================================
