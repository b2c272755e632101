-------------------------- MODULE SceneListenerProofs --------------------------
(***************************************************************************)
(* Proofs about SceneListener, for any number of attempts and scenes, any  *)
(* faults and any bounds on what is under way.                             *)
(*                                                                         *)
(* The argument: the socket of the session, its retry timer and an attempt *)
(* that waits for the password exclude each other, and one of the three is *)
(* always there (OneSocket, OneAttempt, NeverStuck); so an await that ends *)
(* late finds either its session closing or nobody in its way.  The scene  *)
(* seen last is forgotten with the connection it was seen on, and messages *)
(* of one socket come in order (LastIsNewest).                             *)
(***************************************************************************)
EXTENDS SceneListener, SequenceTheorems, TLAPS

\* A message posted on a socket comes after what is under way on it.
LEMMA Posted ==
  ASSUME TypeOK, NEW as, NEW m \in Message, Post(as, m)
  PROVE  /\ inbox' \in [Attempts -> Seq(Message)]
         /\ \A a \in Attempts :
              IF a \in as THEN inbox'[a] # <<>> /\ inbox'[a][Len(inbox'[a])] = m
                          ELSE inbox'[a] = inbox[a]
<1>1. \A q \in Seq(Message) :
        /\ Append(q, m) \in Seq(Message)
        /\ Append(q, m) # <<>> /\ Append(q, m)[Len(Append(q, m))] = m
  OBVIOUS
<1> QED
  BY <1>1 DEF TypeOK, Post

\* A message is delivered in order.
LEMMA Delivered ==
  ASSUME NEW S, NEW q \in Seq(S), q # <<>>
  PROVE  /\ Head(q) \in S /\ Tail(q) \in Seq(S)
         /\ Tail(q) = <<>> => Head(q) = q[Len(q)]
         /\ Tail(q) # <<>> => Tail(q)[Len(Tail(q))] = q[Len(q)]
<1>1. Len(q) \in Nat \ {0}
  OBVIOUS
<1>2. Head(q) \in S /\ Tail(q) \in Seq(S) /\ Len(Tail(q)) = Len(q) - 1
  BY <1>1
<1>3. CASE Len(q) = 1
  <2>1. Tail(q) = <<>>
    <3>1. Tail(q) # <<>> => Len(Tail(q)) \in Nat \ {0}
      BY <1>2, EmptySeq, Zenon
    <3>2. Len(Tail(q)) = 0
      BY <1>2, <1>3
    <3> QED
      BY <3>1, <3>2
  <2>2. Head(q) = q[Len(q)]
    BY <1>1, <1>3
  <2> QED
    BY <1>2, <2>1, <2>2
<1>4. CASE Len(q) # 1
  <2>1. Len(Tail(q)) \in 1..Len(Tail(q))
    BY <1>1, <1>2, <1>4
  <2>2. Tail(q)[Len(Tail(q))] = q[Len(Tail(q)) + 1]
    BY <2>1
  <2>3. Len(Tail(q)) + 1 = Len(q) /\ Tail(q) # <<>>
    BY <1>1, <1>2, <1>4
  <2> QED
    BY <1>2, <2>2, <2>3
<1> QED
  BY <1>3, <1>4

\* Every step keeps the types.
LEMMA Typed ==
  ASSUME IInv, [Next]_vars
  PROVE  TypeOK'
<1> USE ConstantsOK DEF vars, node, calls, session, sockets, Fault, TypeOK, AttemptStates
<1>0. TypeOK
  BY DEF IInv
<1>1. CASE StartContainer
  <2>1. Flags'
    BY <1>0, <1>1 DEF Flags, StartContainer
  <2>2. events' \in Seq({"start", "die"})
    <3>1. Append(events, "start") \in Seq({"start", "die"})
      BY <1>0
    <3> QED
      BY <1>0, <3>1, <1>1 DEF StartContainer, Send
  <2> QED
    BY <1>0, <1>1, <2>1, <2>2 DEF StartContainer
<1>2. CASE StopContainer
  <2>1. Flags'
    BY <1>0, <1>2 DEF Flags, StopContainer
  <2>2. events' \in Seq({"start", "die"})
    <3>1. Append(events, "die") \in Seq({"start", "die"})
      BY <1>0
    <3> QED
      BY <1>0, <3>1, <1>2 DEF StopContainer, Send
  <2> QED
    BY <1>0, <1>2, <2>1, <2>2 DEF StopContainer
<1>3. CASE WriteRow
  BY <1>0, <1>3 DEF WriteRow, Flags
<1>4. CASE SwitchScene
  <2>1. PICK x \in Scenes \ {scene} :
          /\ scene' = x
          /\ Post({b \in Attempts : sock[b] = "open"}, [kind |-> "event", scene |-> x])
    BY <1>4 DEF SwitchScene
  <2>2. inbox' \in [Attempts -> Seq(Message)]
    <3>1. [kind |-> "event", scene |-> x] \in Message
      BY DEF Message
    <3> QED
      BY <1>0, <2>1, <3>1, Posted
  <2> QED
    BY <1>0, <1>4, <2>1, <2>2 DEF SwitchScene, Flags
<1>5. ASSUME NEW a \in Attempts, Land(a) PROVE TypeOK'
  BY <1>0, <1>5 DEF Land, Flags
<1>6. ASSUME NEW a \in Attempts, AnswerSeed(a) PROVE TypeOK'
  <2>1. inbox' \in [Attempts -> Seq(Message)]
    BY <1>0, <1>6, Posted DEF AnswerSeed, Message
  <2> QED
    BY <1>0, <1>6, <2>1 DEF AnswerSeed, Flags
<1>7. ASSUME NEW a \in Attempts, SocketCloses(a) PROVE TypeOK'
  <2>1. Flags'
    BY <1>0, <1>7 DEF Flags, SocketCloses, scheduleRetry
  <2>2. inbox' \in [Attempts -> Seq(Message)]
    BY <1>0, <1>7 DEF SocketCloses
  <2> QED
    BY <1>0, <1>7, <2>1, <2>2 DEF SocketCloses, scheduleRetry
<1>8. ASSUME NEW a \in Attempts, GotPassword(a) PROVE TypeOK'
  BY ZenonT(40), <1>0, <1>8 DEF GotPassword, Flags, End
<1>9. ASSUME NEW a \in Attempts, NoPassword(a) PROVE TypeOK'
  <2>1. Flags'
    BY <1>0, <1>9 DEF Flags, NoPassword, detachInstance, disconnect, End
  <2> QED
    BY <1>0, <1>9, <2>1 DEF NoPassword, detachInstance, disconnect, End
<1>10. ASSUME NEW a \in Attempts, FailSecrets(a) PROVE TypeOK'
  <2>1. Flags'
    BY <1>0, <1>10 DEF Flags, FailSecrets, scheduleRetry, End
  <2> QED
    BY <1>0, <1>10, <2>1 DEF FailSecrets, scheduleRetry, End
<1>11. ASSUME NEW a \in Attempts, ConnectTimeout(a) PROVE TypeOK'
  <2>1. Flags'
    BY <1>0, <1>11 DEF Flags, ConnectTimeout, scheduleRetry, End, disconnect
  <2> QED
    BY <1>0, <1>11, <2>1 DEF ConnectTimeout, scheduleRetry, End, disconnect
<1>12. ASSUME NEW a \in Attempts, ConnectRejected(a) PROVE TypeOK'
  <2>1. Flags'
    BY <1>0, <1>12 DEF Flags, ConnectRejected, scheduleRetry, End
  <2> QED
    BY <1>0, <1>12, <2>1 DEF ConnectRejected, scheduleRetry, End
<1>13. ASSUME NEW a \in Attempts, Connected(a) PROVE TypeOK'
  <2>1. Flags'
    BY <1>0, <1>13 DEF Flags, Connected, disconnect, End
  <2> QED
    BY ZenonT(40), <1>0, <1>13, <2>1 DEF Connected, disconnect, End
<1>14. ASSUME NEW a \in Attempts, SeedFails(a) PROVE TypeOK'
  BY <1>0, <1>14 DEF SeedFails, Flags, End
<1>15. ASSUME NEW a \in Attempts, Deliver(a) PROVE TypeOK'
  <2>1. Head(inbox[a]) \in Message /\ Tail(inbox[a]) \in Seq(Message)
    BY <1>0, <1>15, Delivered DEF Deliver
  <2>2. inbox' \in [Attempts -> Seq(Message)]
    BY <1>0, <1>15, <2>1 DEF Deliver
  <2>3. last' \in Scenes \cup {None} /\ shown' \in Scenes \cup {None}
    BY <1>0, <1>15, <2>1 DEF Deliver, emitScene, Message
  <2> QED
    BY <1>0, <1>15, <2>2, <2>3 DEF Deliver, End, Flags
<1>16. CASE FireTimer
  BY <1>0, <1>16 DEF FireTimer, Flags, connect, Free
<1>17. CASE HandleDie
  <2>1. Flags'
    BY <1>0, <1>17 DEF Flags, HandleDie, detachInstance, disconnect
  <2>2. events' \in Seq({"start", "die"})
    BY <1>0, <1>17, Delivered DEF HandleDie
  <2> QED
    BY <1>0, <1>17, <2>1, <2>2 DEF HandleDie, detachInstance, disconnect
<1>18. CASE HandleStart
  <2>1. events' \in Seq({"start", "die"})
    BY <1>0, <1>18, Delivered DEF HandleStart
  <2> QED
    BY <1>0, <1>18, <2>1 DEF HandleStart, Flags
<1>19. CASE FinishLookup
  <2>0. lookups' \in 0..MaxEvents
    BY <1>0, <1>19 DEF FinishLookup
  <2>1. Flags'
    BY <1>0, <1>19 DEF Flags, FinishLookup, attachInstance
  <2>2. CASE UNCHANGED <<session, sockets>>
    BY <1>0, <1>19, <2>0, <2>1, <2>2 DEF FinishLookup
  <2>3. CASE connect /\ UNCHANGED <<obs, timer, last, sock, listening, inbox>>
    BY <1>0, <1>19, <2>0, <2>1, <2>3 DEF FinishLookup, connect
  <2> QED
    BY <1>19, <2>2, <2>3 DEF FinishLookup, attachInstance
<1>20. CASE syncInstances
  BY <1>0, <1>20 DEF syncInstances, Flags
<1>21. CASE SyncRead
  BY <1>0, <1>21 DEF SyncRead, Flags
<1>22. CASE SyncFails
  BY <1>0, <1>22 DEF SyncFails, Flags
<1>23. CASE SyncDetach
  <2>1. Flags'
    BY <1>0, <1>23 DEF Flags, SyncDetach, detachInstance, disconnect
  <2> QED
    BY <1>0, <1>23, <2>1 DEF SyncDetach, detachInstance, disconnect
<1>24. CASE SyncAttach
  <2>1. Flags'
    BY <1>0, <1>24 DEF Flags, SyncAttach, attachInstance, connect, Free
  <2> QED
    BY <1>0, <1>24, <2>1 DEF SyncAttach, attachInstance, connect, Free
<1>25. CASE Shutdown
  <2>1. Flags'
    BY <1>0, <1>25 DEF Flags, Shutdown, detachInstance, disconnect
  <2> QED
    BY <1>0, <1>25, <2>1 DEF Shutdown, detachInstance, disconnect
<1>26. CASE UNCHANGED vars
  BY <1>0, <1>26 DEF Flags
<1> QED
  BY <1>1, <1>2, <1>3, <1>4, <1>5, <1>6, <1>7, <1>8, <1>9, <1>10, <1>11, <1>12, <1>13, <1>14, <1>15, <1>16, <1>17, <1>18, <1>19, <1>20, <1>21, <1>22, <1>23, <1>24, <1>25, <1>26 DEF Next

\* Every step leaves the session at most one socket.
LEMMA OneSocketKept ==
  ASSUME IInv, [Next]_vars
  PROVE  OneSocket'
<1> USE ConstantsOK DEF vars, node, calls, session, sockets, Fault, TypeOK, OneSocket, OneAttempt
<1>0. TypeOK /\ OneSocket /\ OneAttempt
  BY DEF IInv
<1>1. CASE UNCHANGED <<up, scene, session, sockets, shown>>
  BY <1>0, <1>1
<1>2. CASE StartContainer
  BY <1>0, <1>2 DEF StartContainer, Send
<1>3. CASE StopContainer
  BY <1>0, <1>3 DEF StopContainer, Send
<1>4. CASE SwitchScene
  BY <1>0, <1>4 DEF SwitchScene, Post
<1>5. ASSUME NEW a \in Attempts, Land(a) PROVE OneSocket'
  BY <1>0, <1>5 DEF Land
<1>6. ASSUME NEW a \in Attempts, AnswerSeed(a) PROVE OneSocket'
  BY <1>0, <1>6 DEF AnswerSeed, Post, Message
<1>7. ASSUME NEW a \in Attempts, SocketCloses(a) PROVE OneSocket'
  BY <1>0, <1>7 DEF SocketCloses, scheduleRetry
<1>8. ASSUME NEW a \in Attempts, GotPassword(a) PROVE OneSocket'
  BY <1>0, <1>8 DEF GotPassword, End
<1>9. ASSUME NEW a \in Attempts, NoPassword(a) PROVE OneSocket'
  BY <1>0, <1>9 DEF NoPassword, detachInstance, disconnect, End
<1>10. ASSUME NEW a \in Attempts, FailSecrets(a) PROVE OneSocket'
  BY <1>0, <1>10 DEF FailSecrets, scheduleRetry, End
<1>11. ASSUME NEW a \in Attempts, ConnectTimeout(a) PROVE OneSocket'
  BY <1>0, <1>11 DEF ConnectTimeout, scheduleRetry, End, disconnect
<1>12. ASSUME NEW a \in Attempts, ConnectRejected(a) PROVE OneSocket'
  BY <1>0, <1>12 DEF ConnectRejected, scheduleRetry, End
<1>13. ASSUME NEW a \in Attempts, Connected(a) PROVE OneSocket'
  BY <1>0, <1>13 DEF Connected, disconnect, End
<1>14. ASSUME NEW a \in Attempts, SeedFails(a) PROVE OneSocket'
  BY <1>0, <1>14 DEF SeedFails, End
<1>15. ASSUME NEW a \in Attempts, Deliver(a) PROVE OneSocket'
  BY <1>0, <1>15 DEF Deliver, emitScene, End
<1>16. CASE FireTimer
  BY <1>0, <1>16 DEF FireTimer, connect, Free
<1>17. CASE HandleDie
  BY <1>0, <1>17 DEF HandleDie, detachInstance, disconnect
<1>18. CASE FinishLookup
  BY <1>0, <1>18 DEF FinishLookup, attachInstance, connect, Free
<1>19. CASE SyncDetach
  BY <1>0, <1>19 DEF SyncDetach, detachInstance, disconnect
<1>20. CASE SyncAttach
  BY <1>0, <1>20 DEF SyncAttach, attachInstance, connect, Free
<1>21. CASE Shutdown
  BY <1>0, <1>21 DEF Shutdown, detachInstance, disconnect
<1> QED
  BY <1>1, <1>2, <1>3, <1>4, <1>5, <1>6, <1>7, <1>8, <1>9, <1>10, <1>11, <1>12, <1>13, <1>14, <1>15, <1>16, <1>17, <1>18, <1>19, <1>20, <1>21
     DEF Next, WriteRow, HandleStart, syncInstances, SyncRead, SyncFails

\* Every step leaves the session at most one attempt on its way.
LEMMA OneAttemptKept ==
  ASSUME IInv, [Next]_vars
  PROVE  OneAttempt'
<1> USE ConstantsOK DEF vars, node, calls, session, sockets, Fault, TypeOK, OneSocket, OneAttempt
<1>0. TypeOK /\ OneSocket /\ OneAttempt
  BY DEF IInv
<1>1. CASE UNCHANGED <<up, scene, session, sockets, shown>>
  BY <1>0, <1>1
<1>2. CASE StartContainer
  BY <1>0, <1>2 DEF StartContainer, Send
<1>3. CASE StopContainer
  BY <1>0, <1>3 DEF StopContainer, Send
<1>4. CASE SwitchScene
  BY <1>0, <1>4 DEF SwitchScene, Post
<1>5. ASSUME NEW a \in Attempts, Land(a) PROVE OneAttempt'
  BY <1>0, <1>5 DEF Land
<1>6. ASSUME NEW a \in Attempts, AnswerSeed(a) PROVE OneAttempt'
  BY <1>0, <1>6 DEF AnswerSeed, Post, Message
<1>7. ASSUME NEW a \in Attempts, SocketCloses(a) PROVE OneAttempt'
  BY <1>0, <1>7 DEF SocketCloses, scheduleRetry
<1>8. ASSUME NEW a \in Attempts, GotPassword(a) PROVE OneAttempt'
  <2>1. CASE a \in closing
    BY <1>0, <1>8, <2>1 DEF GotPassword, End
  <2>2. CASE a \notin closing
    <3>1. /\ obs' = a /\ att' = [att EXCEPT ![a] = "connecting"]
          /\ UNCHANGED closing /\ \A b \in Attempts : b # a => sock'[b] = sock[b]
      BY <1>0, <1>8, <2>2 DEF GotPassword
    <3>2. \A b \in Attempts \ closing : b # a => att[b] \notin {"secrets", "connecting"}
      BY <1>0, <1>8, <2>2 DEF GotPassword
    <3> QED
      BY <1>0, <3>1, <3>2
  <2> QED
    BY <2>1, <2>2
<1>9. ASSUME NEW a \in Attempts, NoPassword(a) PROVE OneAttempt'
  BY <1>0, <1>9 DEF NoPassword, detachInstance, disconnect, End
<1>10. ASSUME NEW a \in Attempts, FailSecrets(a) PROVE OneAttempt'
  BY <1>0, <1>10 DEF FailSecrets, scheduleRetry, End
<1>11. ASSUME NEW a \in Attempts, ConnectTimeout(a) PROVE OneAttempt'
  BY <1>0, <1>11 DEF ConnectTimeout, scheduleRetry, End, disconnect
<1>12. ASSUME NEW a \in Attempts, ConnectRejected(a) PROVE OneAttempt'
  BY <1>0, <1>12 DEF ConnectRejected, scheduleRetry, End
<1>13. ASSUME NEW a \in Attempts, Connected(a) PROVE OneAttempt'
  <2>1. /\ UNCHANGED <<session, closing>> /\ att[a] = "landed"
        /\ att' = [att EXCEPT ![a] = "over"] \/ att' = [att EXCEPT ![a] = "asking"]
        /\ \A b \in Attempts : sock[b] = "closed" => sock'[b] = "closed"
    BY <1>0, <1>13 DEF Connected, disconnect, End
  <2> QED
    BY <1>0, <2>1
<1>14. ASSUME NEW a \in Attempts, SeedFails(a) PROVE OneAttempt'
  BY <1>0, <1>14 DEF SeedFails, End
<1>15. ASSUME NEW a \in Attempts, Deliver(a) PROVE OneAttempt'
  BY <1>0, <1>15 DEF Deliver, emitScene, End
<1>16. CASE FireTimer
  BY <1>0, <1>16 DEF FireTimer, connect, Free
<1>17. CASE HandleDie
  BY <1>0, <1>17 DEF HandleDie, detachInstance, disconnect
<1>18. CASE FinishLookup
  BY <1>0, <1>18 DEF FinishLookup, attachInstance, connect, Free
<1>19. CASE SyncDetach
  BY <1>0, <1>19 DEF SyncDetach, detachInstance, disconnect
<1>20. CASE SyncAttach
  BY <1>0, <1>20 DEF SyncAttach, attachInstance, connect, Free
<1>21. CASE Shutdown
  BY <1>0, <1>21 DEF Shutdown, detachInstance, disconnect
<1> QED
  BY <1>1, <1>2, <1>3, <1>4, <1>5, <1>6, <1>7, <1>8, <1>9, <1>10, <1>11, <1>12, <1>13, <1>14, <1>15, <1>16, <1>17, <1>18, <1>19, <1>20, <1>21
     DEF Next, WriteRow, HandleStart, syncInstances, SyncRead, SyncFails

\* No step leaves a socket behind.
LEMMA NoSocketLeftKept ==
  ASSUME IInv, [Next]_vars
  PROVE  NoSocketLeft'
<1> USE ConstantsOK DEF vars, node, calls, session, sockets, Fault, TypeOK, OneSocket, OneAttempt, NoSocketLeft
<1>0. TypeOK /\ OneSocket /\ OneAttempt /\ NoSocketLeft
  BY DEF IInv
<1>1. CASE UNCHANGED <<up, scene, session, sockets, shown>>
  BY <1>0, <1>1
<1>2. CASE StartContainer
  BY <1>0, <1>2 DEF StartContainer, Send
<1>3. CASE StopContainer
  BY <1>0, <1>3 DEF StopContainer, Send
<1>4. CASE SwitchScene
  BY <1>0, <1>4 DEF SwitchScene, Post
<1>5. ASSUME NEW a \in Attempts, Land(a) PROVE NoSocketLeft'
  BY <1>0, <1>5 DEF Land
<1>6. ASSUME NEW a \in Attempts, AnswerSeed(a) PROVE NoSocketLeft'
  BY <1>0, <1>6 DEF AnswerSeed, Post, Message
<1>7. ASSUME NEW a \in Attempts, SocketCloses(a) PROVE NoSocketLeft'
  BY <1>0, <1>7 DEF SocketCloses, scheduleRetry
<1>8. ASSUME NEW a \in Attempts, GotPassword(a) PROVE NoSocketLeft'
  BY <1>0, <1>8 DEF GotPassword, End
<1>9. ASSUME NEW a \in Attempts, NoPassword(a) PROVE NoSocketLeft'
  BY <1>0, <1>9 DEF NoPassword, detachInstance, disconnect, End
<1>10. ASSUME NEW a \in Attempts, FailSecrets(a) PROVE NoSocketLeft'
  BY <1>0, <1>10 DEF FailSecrets, scheduleRetry, End
<1>11. ASSUME NEW a \in Attempts, ConnectTimeout(a) PROVE NoSocketLeft'
  BY <1>0, <1>11 DEF ConnectTimeout, scheduleRetry, End, disconnect
<1>12. ASSUME NEW a \in Attempts, ConnectRejected(a) PROVE NoSocketLeft'
  BY <1>0, <1>12 DEF ConnectRejected, scheduleRetry, End
<1>13. ASSUME NEW a \in Attempts, Connected(a) PROVE NoSocketLeft'
  BY <1>0, <1>13 DEF Connected, disconnect, End
<1>14. ASSUME NEW a \in Attempts, SeedFails(a) PROVE NoSocketLeft'
  BY <1>0, <1>14 DEF SeedFails, End
<1>15. ASSUME NEW a \in Attempts, Deliver(a) PROVE NoSocketLeft'
  BY <1>0, <1>15 DEF Deliver, emitScene, End
<1>16. CASE FireTimer
  BY <1>0, <1>16 DEF FireTimer, connect, Free
<1>17. CASE HandleDie
  BY <1>0, <1>17 DEF HandleDie, detachInstance, disconnect
<1>18. CASE FinishLookup
  BY <1>0, <1>18 DEF FinishLookup, attachInstance, connect, Free
<1>19. CASE SyncDetach
  BY <1>0, <1>19 DEF SyncDetach, detachInstance, disconnect
<1>20. CASE SyncAttach
  BY <1>0, <1>20 DEF SyncAttach, attachInstance, connect, Free
<1>21. CASE Shutdown
  BY <1>0, <1>21 DEF Shutdown, detachInstance, disconnect
<1> QED
  BY <1>1, <1>2, <1>3, <1>4, <1>5, <1>6, <1>7, <1>8, <1>9, <1>10, <1>11, <1>12, <1>13, <1>14, <1>15, <1>16, <1>17, <1>18, <1>19, <1>20, <1>21
     DEF Next, WriteRow, HandleStart, syncInstances, SyncRead, SyncFails

\* No step leaves the session with nothing to wait for.
LEMMA NeverStuckKept ==
  ASSUME IInv, [Next]_vars
  PROVE  NeverStuck'
<1> USE ConstantsOK DEF vars, node, calls, session, sockets, Fault, TypeOK, OneSocket, OneAttempt, NoSocketLeft, NeverStuck
<1>0. TypeOK /\ OneSocket /\ OneAttempt /\ NoSocketLeft /\ NeverStuck
  BY DEF IInv
<1>1. CASE UNCHANGED <<up, scene, session, sockets, shown>>
  BY <1>0, <1>1
<1>2. CASE StartContainer
  BY <1>0, <1>2 DEF StartContainer, Send
<1>3. CASE StopContainer
  BY <1>0, <1>3 DEF StopContainer, Send
<1>4. CASE SwitchScene
  BY <1>0, <1>4 DEF SwitchScene, Post
<1>5. ASSUME NEW a \in Attempts, Land(a) PROVE NeverStuck'
  BY <1>0, <1>5 DEF Land
<1>6. ASSUME NEW a \in Attempts, AnswerSeed(a) PROVE NeverStuck'
  BY <1>0, <1>6 DEF AnswerSeed, Post, Message
<1>7. ASSUME NEW a \in Attempts, SocketCloses(a) PROVE NeverStuck'
  BY <1>0, <1>7 DEF SocketCloses, scheduleRetry
<1>8. ASSUME NEW a \in Attempts, GotPassword(a) PROVE NeverStuck'
  BY <1>0, <1>8 DEF GotPassword, End
<1>9. ASSUME NEW a \in Attempts, NoPassword(a) PROVE NeverStuck'
  BY <1>0, <1>9 DEF NoPassword, detachInstance, disconnect, End
<1>10. ASSUME NEW a \in Attempts, FailSecrets(a) PROVE NeverStuck'
  <2>1. CASE a \in closing
    <3>1. UNCHANGED <<attached, timer, obs, closing>>
      BY <1>10, <2>1 DEF FailSecrets, scheduleRetry
    <3>2. \A b \in Attempts \ closing : att'[b] = att[b]
      BY <1>0, <1>10, <2>1 DEF FailSecrets, End
    <3> QED
      BY <1>0, <3>1, <3>2
  <2>2. CASE a \notin closing
    BY <1>0, <1>10, <2>2 DEF FailSecrets, scheduleRetry
  <2> QED
    BY <2>1, <2>2
<1>11. ASSUME NEW a \in Attempts, ConnectTimeout(a) PROVE NeverStuck'
  <2>1. \A b \in Attempts : att[b] = "secrets" => att'[b] = "secrets"
    BY <1>0, <1>11 DEF ConnectTimeout, End
  <2>2. UNCHANGED <<attached, timer, obs, closing>> \/ timer'
    BY <1>11 DEF ConnectTimeout, scheduleRetry
  <2>3. UNCHANGED closing
    BY <1>11 DEF ConnectTimeout
  <2> QED
    BY <1>0, <2>1, <2>2, <2>3
<1>12. ASSUME NEW a \in Attempts, ConnectRejected(a) PROVE NeverStuck'
  BY <1>0, <1>12 DEF ConnectRejected, scheduleRetry, End
<1>13. ASSUME NEW a \in Attempts, Connected(a) PROVE NeverStuck'
  BY <1>0, <1>13 DEF Connected, disconnect, End
<1>14. ASSUME NEW a \in Attempts, SeedFails(a) PROVE NeverStuck'
  BY <1>0, <1>14 DEF SeedFails, End
<1>15. ASSUME NEW a \in Attempts, Deliver(a) PROVE NeverStuck'
  <2>1. obs = a
    BY <1>0, <1>15 DEF Deliver
  <2> QED
    BY <1>0, <1>15, <2>1 DEF Deliver
<1>16. CASE FireTimer
  BY <1>0, <1>16 DEF FireTimer, connect, Free
<1>17. CASE HandleDie
  BY <1>0, <1>17 DEF HandleDie, detachInstance, disconnect
<1>18. CASE FinishLookup
  <2>1. CASE UNCHANGED <<session, sockets>>
    BY <1>0, <2>1
  <2>2. CASE connect
    BY <1>0, <2>2 DEF connect
  <2> QED
    BY <1>18, <2>1, <2>2 DEF FinishLookup, attachInstance
<1>19. CASE SyncDetach
  BY <1>0, <1>19 DEF SyncDetach, detachInstance, disconnect
<1>20. CASE SyncAttach
  <2>1. CASE UNCHANGED <<session, sockets>>
    BY <1>0, <2>1
  <2>2. CASE connect
    BY <1>0, <2>2 DEF connect
  <2> QED
    BY <1>20, <2>1, <2>2 DEF SyncAttach, attachInstance
<1>21. CASE Shutdown
  BY <1>0, <1>21 DEF Shutdown, detachInstance, disconnect
<1> QED
  BY <1>1, <1>2, <1>3, <1>4, <1>5, <1>6, <1>7, <1>8, <1>9, <1>10, <1>11, <1>12, <1>13, <1>14, <1>15, <1>16, <1>17, <1>18, <1>19, <1>20, <1>21
     DEF Next, WriteRow, HandleStart, syncInstances, SyncRead, SyncFails

\* Every step keeps the order of what is announced.
LEMMA LastIsNewestKept ==
  ASSUME IInv, [Next]_vars
  PROVE  LastIsNewest'
<1> USE ConstantsOK DEF vars, node, calls, session, sockets, Fault, TypeOK, OneSocket, OneAttempt, NoSocketLeft, LastIsNewest
<1>0. TypeOK /\ OneSocket /\ OneAttempt /\ NoSocketLeft /\ LastIsNewest
  BY DEF IInv
<1>1. CASE UNCHANGED <<up, scene, session, sockets, shown>>
  BY <1>0, <1>1
<1>2. CASE StartContainer
  BY <1>0, <1>2 DEF StartContainer, Send
<1>3. CASE StopContainer
  BY <1>0, <1>3 DEF StopContainer, Send
<1>4. CASE SwitchScene
  <2>1. PICK x \in Scenes \ {scene} :
          /\ scene' = x
          /\ Post({b \in Attempts : sock[b] = "open"}, [kind |-> "event", scene |-> x])
    BY <1>4 DEF SwitchScene
  <2>2. [kind |-> "event", scene |-> x] \in Message
    BY DEF Message
  <2>3. \A b \in Attempts :
          IF sock[b] = "open" THEN inbox'[b] # <<>> /\ inbox'[b][Len(inbox'[b])].scene = x
                              ELSE inbox'[b] = inbox[b]
    BY <1>0, <2>1, <2>2, Posted
  <2> QED
    BY <1>0, <1>4, <2>1, <2>3 DEF SwitchScene
<1>5. ASSUME NEW a \in Attempts, Land(a) PROVE LastIsNewest'
  BY <1>0, <1>5 DEF Land
<1>6. ASSUME NEW a \in Attempts, AnswerSeed(a) PROVE LastIsNewest'
  <2>1. [kind |-> "seed", scene |-> scene] \in Message
    BY <1>0 DEF Message
  <2>2. \A b \in Attempts :
          IF b = a THEN inbox'[b] # <<>> /\ inbox'[b][Len(inbox'[b])].scene = scene
                   ELSE inbox'[b] = inbox[b]
    BY <1>0, <1>6, <2>1, Posted DEF AnswerSeed
  <2> QED
    BY <1>0, <1>6, <2>2 DEF AnswerSeed
<1>7. ASSUME NEW a \in Attempts, SocketCloses(a) PROVE LastIsNewest'
  BY <1>0, <1>7 DEF SocketCloses, scheduleRetry
<1>8. ASSUME NEW a \in Attempts, GotPassword(a) PROVE LastIsNewest'
  <2>1. CASE a \in closing
    BY <1>0, <1>8, <2>1 DEF GotPassword, End
  <2>2. CASE a \notin closing
    <3>1. obs = None /\ sock[a] = "closed" /\ last = None /\ inbox[a] = <<>>
      BY <1>0, <1>8, <2>2 DEF GotPassword
    <3>2. UNCHANGED <<up, last, inbox>> /\ sock' = [sock EXCEPT ![a] = IF up THEN "opening" ELSE "dying"]
      BY <1>8, <2>2 DEF GotPassword
    <3> QED
      BY <1>0, <3>1, <3>2
  <2> QED
    BY <2>1, <2>2
<1>9. ASSUME NEW a \in Attempts, NoPassword(a) PROVE LastIsNewest'
  BY <1>0, <1>9 DEF NoPassword, detachInstance, disconnect, End
<1>10. ASSUME NEW a \in Attempts, FailSecrets(a) PROVE LastIsNewest'
  BY <1>0, <1>10 DEF FailSecrets, scheduleRetry, End
<1>11. ASSUME NEW a \in Attempts, ConnectTimeout(a) PROVE LastIsNewest'
  BY <1>0, <1>11 DEF ConnectTimeout, scheduleRetry, End, disconnect
<1>12. ASSUME NEW a \in Attempts, ConnectRejected(a) PROVE LastIsNewest'
  BY <1>0, <1>12 DEF ConnectRejected, scheduleRetry, End
<1>13. ASSUME NEW a \in Attempts, Connected(a) PROVE LastIsNewest'
  BY <1>0, <1>13 DEF Connected, disconnect, End
<1>14. ASSUME NEW a \in Attempts, SeedFails(a) PROVE LastIsNewest'
  BY <1>0, <1>14 DEF SeedFails, End
<1>15. ASSUME NEW a \in Attempts, Deliver(a) PROVE LastIsNewest'
  <2>1. obs = a /\ a \notin closing /\ inbox[a] \in Seq(Message) /\ inbox[a] # <<>>
    BY <1>0, <1>15 DEF Deliver
  <2>2. /\ inbox' = [inbox EXCEPT ![a] = Tail(inbox[a])]
        /\ UNCHANGED <<up, scene, obs, sock>> /\ sock[a] = "open"
    BY <1>15 DEF Deliver
  <2>3. last' = Head(inbox[a]).scene /\ (last = last' => shown' = shown) /\ (last # last' => shown' = last')
    BY <1>0, <1>15, <2>1 DEF Deliver, emitScene
  <2>4. /\ Tail(inbox[a]) = <<>> => Head(inbox[a]) = inbox[a][Len(inbox[a])]
        /\ Tail(inbox[a]) # <<>> => Tail(inbox[a])[Len(Tail(inbox[a]))] = inbox[a][Len(inbox[a])]
    BY <2>1, Delivered
  <2>5. Head(inbox[a]).scene # None
    <3>1. Head(inbox[a]) \in Message
      BY <2>1, Delivered
    <3>2. Head(inbox[a]).scene \in Scenes
      BY <3>1 DEF Message
    <3> QED
      BY <3>2, ConstantsOK
  <2>6. /\ inbox'[a] = Tail(inbox[a])
        /\ \A b \in Attempts : b # a => inbox'[b] = inbox[b]
    BY <1>0, <2>2
  <2>7. inbox[a][Len(inbox[a])].scene = scene
    BY <1>0, <2>1, <2>2
  <2> QED
    BY <1>0, <2>1, <2>2, <2>3, <2>4, <2>5, <2>6, <2>7
<1>16. CASE FireTimer
  BY <1>0, <1>16 DEF FireTimer, connect, Free
<1>17. CASE HandleDie
  BY <1>0, <1>17 DEF HandleDie, detachInstance, disconnect
<1>18. CASE FinishLookup
  BY <1>0, <1>18 DEF FinishLookup, attachInstance, connect, Free
<1>19. CASE SyncDetach
  BY <1>0, <1>19 DEF SyncDetach, detachInstance, disconnect
<1>20. CASE SyncAttach
  BY <1>0, <1>20 DEF SyncAttach, attachInstance, connect, Free
<1>21. CASE Shutdown
  BY <1>0, <1>21 DEF Shutdown, detachInstance, disconnect
<1> QED
  BY <1>1, <1>2, <1>3, <1>4, <1>5, <1>6, <1>7, <1>8, <1>9, <1>10, <1>11, <1>12, <1>13, <1>14, <1>15, <1>16, <1>17, <1>18, <1>19, <1>20, <1>21
     DEF Next, WriteRow, HandleStart, syncInstances, SyncRead, SyncFails

-------------------------------------------------------------------------------
\* The invariant holds of every reachable state.
THEOREM Invariance == Spec => []IInv
<1>1. Init => IInv
  <2> SUFFICES ASSUME Init PROVE IInv
    OBVIOUS
  <2>0. Flags
    BY DEF Init, Flags
  <2>1. TypeOK
    BY <2>0, ConstantsOK DEF Init, TypeOK, AttemptStates
  <2>2. OneSocket /\ OneAttempt
    BY DEF Init, OneSocket, OneAttempt
  <2>3. NoSocketLeft /\ NeverStuck
    BY DEF Init, NoSocketLeft, NeverStuck
  <2>4. LastIsNewest
    BY DEF Init, LastIsNewest
  <2> QED
    BY <2>1, <2>2, <2>3, <2>4 DEF IInv
<1>2. IInv /\ [Next]_vars => IInv'
  BY Typed, OneSocketKept, OneAttemptKept, NoSocketLeftKept, NeverStuckKept, LastIsNewestKept
     DEF IInv
<1> QED
  BY <1>1, <1>2, PTL DEF Spec

\* One session never has two sockets with listeners, and none after its detach.
THEOREM OneWatchingSocket == Spec => []ListenersOfSession
<1>1. IInv => ListenersOfSession
  BY DEF IInv, OneSocket, ListenersOfSession
<1> QED
  BY <1>1, Invariance, PTL

\* No attempt leaves a socket behind, and no session waits for nothing.
THEOREM NothingLeftBehind == Spec => [](NoSocketLeft /\ NeverStuck)
<1>1. IInv => NoSocketLeft /\ NeverStuck
  BY DEF IInv
<1> QED
  BY <1>1, Invariance, PTL

\* What was broadcast last is the scene on air, for any scenes and any messages.
THEOREM ShownIsOnAir == Spec => []AnnouncedIsTrue
<1>1. IInv => AnnouncedIsTrue
  BY ConstantsOK DEF IInv, TypeOK, OneSocket, LastIsNewest, AnnouncedIsTrue
<1> QED
  BY <1>1, Invariance, PTL
===============================================================================
