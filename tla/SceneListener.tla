---------------------------- MODULE SceneListener -----------------------------
(***************************************************************************)
(* The connection to the OBS of one running instance that tells the        *)
(* platform which scene is on air (services/obs/obs-event-listener.ts),    *)
(* with the Docker events that attach and detach it                        *)
(* (services/docker/event-listener.ts) and the drain of shutdown.ts.       *)
(*                                                                         *)
(* Instances share nothing here but the loop of syncInstances, whose       *)
(* pauses for the others only delay this one: there is one instance.       *)
(* A call of connect is a member of Attempts, and stands for the           *)
(* OBSWebSocket it creates too; it is used again once both have ended.     *)
(* The Session in the map is attached, obs, timer and last.  A session     *)
(* that was detached has no socket and no timer left, only attempts that   *)
(* find its closing flag set: they are the members of closing.             *)
(***************************************************************************)
EXTENDS Naturals, Sequences

CONSTANTS
  Attempts, Scenes, None,
  Faults,     \* subset of {"events", "list", "secrets", "connect", "seed", "drain"}
  MaxEvents,  \* bound on Docker events under way, and on lookups
  MaxInbox    \* bound on messages under way on a socket

\*  events   the stream loses an event
\*  list     the list of instances cannot be read
\*  secrets  the password cannot be read, or there is none
\*  connect  a connect is refused or hangs, a connection drops
\*  seed     OBS refuses to tell its scene
\*  drain    the manager is told to shut down

ASSUME ConstantsOK ==
  /\ Faults \subseteq {"events", "list", "secrets", "connect", "seed", "drain"}
  /\ MaxEvents \in Nat /\ MaxInbox \in Nat
  /\ None \notin Attempts \cup Scenes

VARIABLES
  up,        \* whether the container runs
  row,       \* whether the row says running
  scene,     \* the program scene of OBS
  events,    \* Docker events of the container that are under way
  lookups,   \* handlers of start events that wait for the row
  sync,      \* syncInstances: "idle", "reading", or what the list says
  draining,  \* whether shutdown has begun
  attached,  \* whether there is a session in the map
  obs,       \* session.obs: the attempt whose socket it is, or None
  timer,     \* whether session.retryTimer is armed
  last,      \* session.lastSceneUuid
  att,       \* [Attempts -> AttemptStates]
  closing,   \* attempts of sessions that have been detached
  sock,      \* [Attempts -> {"closed", "opening", "open", "dying"}]
  listening, \* attempts whose socket has listeners
  inbox,     \* [Attempts -> messages of OBS under way on the socket]
  shown      \* the scene broadcast last

node == <<up, row, scene, events>>
calls == <<lookups, sync, draining>>
session == <<attached, obs, timer, last>>
sockets == <<att, closing, sock, listening, inbox>>
vars == <<node, calls, session, sockets, shown>>

\* What connect waits for: the password, the connect, its continuation, the request
\* for the scene to reach OBS, the answer to arrive.
AttemptStates == {"over", "secrets", "connecting", "landed", "asking", "seeding"}

Message == [kind : {"event", "seed"}, scene : Scenes]

Flags ==
  /\ up \in BOOLEAN /\ row \in BOOLEAN /\ draining \in BOOLEAN
  /\ attached \in BOOLEAN /\ timer \in BOOLEAN

TypeOK ==
  /\ Flags
  /\ scene \in Scenes
  /\ events \in Seq({"start", "die"})
  /\ lookups \in 0..MaxEvents
  /\ sync \in {"idle", "reading", "running", "stopped"}
  /\ obs \in Attempts \cup {None}
  /\ last \in Scenes \cup {None}
  /\ att \in [Attempts -> AttemptStates]
  /\ closing \subseteq Attempts
  /\ sock \in [Attempts -> {"closed", "opening", "open", "dying"}]
  /\ listening \subseteq Attempts
  /\ inbox \in [Attempts -> Seq(Message)]
  /\ shown \in Scenes \cup {None}

Init ==
  /\ up = FALSE /\ row = FALSE /\ scene \in Scenes
  /\ events = <<>> /\ lookups = 0 /\ sync = "idle" /\ draining = FALSE
  /\ attached = FALSE /\ obs = None /\ timer = FALSE /\ last = None
  /\ att = [a \in Attempts |-> "over"]
  /\ closing = Attempts
  /\ sock = [a \in Attempts |-> "closed"]
  /\ listening = {}
  /\ inbox = [a \in Attempts |-> <<>>]
  /\ shown = None

Fault(f) == f \in Faults

-------------------------------------------------------------------------------
(* The container, its row, and OBS. *)

\* A lost event is one of the faults.
Send(e) ==
  \/ Len(events) < MaxEvents /\ events' = Append(events, e)
  \/ Fault("events") /\ UNCHANGED events

StartContainer ==
  /\ ~up /\ up' = TRUE
  /\ scene' \in Scenes
  /\ Send("start")
  /\ UNCHANGED <<row, calls, session, sockets, shown>>

\* Every connection to it is lost.
StopContainer ==
  /\ up /\ up' = FALSE
  /\ Send("die")
  /\ sock' = [a \in Attempts |-> IF sock[a] = "closed" THEN "closed" ELSE "dying"]
  /\ UNCHANGED <<row, scene, calls, session, att, closing, listening, inbox, shown>>

\* Lifecycle operations and handlers write the row.
WriteRow ==
  /\ row' = ~row
  /\ UNCHANGED <<up, scene, events, calls, session, sockets, shown>>

Post(as, m) ==
  /\ \A a \in as : Len(inbox[a]) < MaxInbox
  /\ inbox' = [a \in Attempts |-> IF a \in as THEN Append(inbox[a], m) ELSE inbox[a]]

SwitchScene ==
  /\ up
  /\ \E x \in Scenes \ {scene} :
       /\ scene' = x
       /\ Post({a \in Attempts : sock[a] = "open"}, [kind |-> "event", scene |-> x])
  /\ UNCHANGED <<up, row, events, calls, session, att, closing, sock, listening, shown>>

\* OBS and the manager agree on a session of the protocol.
Land(a) ==
  /\ up /\ att[a] = "connecting" /\ sock[a] = "opening"
  /\ att' = [att EXCEPT ![a] = "landed"]
  /\ sock' = [sock EXCEPT ![a] = "open"]
  /\ UNCHANGED <<node, calls, session, closing, listening, inbox, shown>>

AnswerSeed(a) ==
  /\ att[a] = "asking" /\ sock[a] = "open"
  /\ att' = [att EXCEPT ![a] = "seeding"]
  /\ Post({a}, [kind |-> "seed", scene |-> scene])
  /\ UNCHANGED <<node, calls, session, closing, sock, listening, shown>>

-------------------------------------------------------------------------------
(* Attach, detach, retry. *)

Free(a) == att[a] = "over" /\ sock[a] = "closed"

\* connect up to the request for the password.
connect ==
  \E a \in Attempts :
    /\ Free(a)
    /\ att' = [att EXCEPT ![a] = "secrets"]
    /\ closing' = closing \ {a}

attachInstance ==
  \/ attached /\ UNCHANGED <<session, sockets>>
  \/ /\ ~attached /\ attached' = TRUE
     /\ connect
     /\ UNCHANGED <<obs, timer, last, sock, listening, inbox>>

\* obs.disconnect: nothing arrives any more.
disconnect(a) ==
  sock' = IF a \in Attempts /\ sock[a] # "closed" THEN [sock EXCEPT ![a] = "dying"] ELSE sock

detachInstance ==
  \/ ~attached /\ UNCHANGED <<session, closing, sock, listening>>
  \/ /\ attached /\ attached' = FALSE
     /\ closing' = Attempts
     /\ timer' = FALSE
     /\ obs' = None /\ last' = None
     /\ listening' = listening \ {obs}
     /\ disconnect(obs)

\* Mutant of scheduleRetry: the scene seen last survives the connection.
ScheduleRetryKeepsScene(a) ==
  \/ /\ a \in closing \/ timer
     /\ UNCHANGED <<session, listening>>
  \/ /\ a \notin closing /\ ~timer
     /\ listening' = listening \ {obs}
     /\ obs' = None /\ timer' = TRUE
     /\ UNCHANGED <<attached, last>>

\* scheduleRetry on behalf of an attempt.
scheduleRetry(a) ==
  \/ /\ a \in closing \/ timer
     /\ UNCHANGED <<session, listening>>
  \/ /\ a \notin closing /\ ~timer
     /\ listening' = listening \ {obs}
     /\ obs' = None /\ last' = None /\ timer' = TRUE
     /\ UNCHANGED attached

\* A connect whose socket has closed has been rejected long before the timer fires.
FireTimer ==
  /\ timer
  /\ \A a \in Attempts \ closing : ~(att[a] = "connecting" /\ sock[a] = "closed")
  /\ timer' = FALSE
  /\ connect
  /\ UNCHANGED <<node, calls, attached, obs, last, sock, listening, inbox, shown>>

-------------------------------------------------------------------------------
(* connect. *)

End(a) == att' = [att EXCEPT ![a] = "over"]

\* Mutant of GotPassword: it does not notice that its session was detached.
GotPasswordUnchecked(a) ==
  /\ att[a] = "secrets"
  /\ obs' = a
  /\ listening' = listening \cup {a}
  /\ att' = [att EXCEPT ![a] = "connecting"]
  /\ sock' = [sock EXCEPT ![a] = IF up THEN "opening" ELSE "dying"]
  /\ UNCHANGED <<node, calls, attached, timer, last, closing, inbox, shown>>

\* The password has come. Who was detached meanwhile gives up.
GotPassword(a) ==
  /\ att[a] = "secrets"
  /\ \/ a \in closing /\ End(a) /\ UNCHANGED <<session, sock, listening>>
     \/ /\ a \notin closing
        /\ obs' = a
        /\ listening' = listening \cup {a}
        /\ att' = [att EXCEPT ![a] = "connecting"]
        /\ sock' = [sock EXCEPT ![a] = IF up THEN "opening" ELSE "dying"]
        /\ UNCHANGED <<attached, timer, last>>
  /\ UNCHANGED <<node, calls, closing, inbox, shown>>

\* The row has none: whoever is attached detaches.
NoPassword(a) ==
  /\ att[a] = "secrets" /\ a \notin closing /\ Fault("secrets")
  /\ detachInstance
  /\ End(a)
  /\ UNCHANGED <<node, calls, inbox, shown>>

\* A failed look-up is retried like a failed connect.
FailSecrets(a) ==
  /\ att[a] = "secrets" /\ Fault("secrets")
  /\ scheduleRetry(a)
  /\ End(a)
  /\ UNCHANGED <<node, calls, closing, sock, inbox, shown>>

\* Mutant of ConnectTimeout: the connect that lost the race may still land.
ConnectTimeoutLeavesSocket(a) ==
  /\ att[a] = "connecting" /\ sock[a] # "closed"
  /\ Fault("connect") \/ sock[a] = "dying"
  /\ scheduleRetry(a)
  /\ End(a)
  /\ UNCHANGED <<node, calls, closing, sock, inbox, shown>>

\* The timeout wins the race.
ConnectTimeout(a) ==
  /\ att[a] = "connecting" /\ sock[a] # "closed"
  /\ Fault("connect") \/ sock[a] = "dying"
  /\ disconnect(a)
  /\ scheduleRetry(a)
  /\ End(a)
  /\ UNCHANGED <<node, calls, closing, inbox, shown>>

\* connect is rejected, as its socket has closed.
ConnectRejected(a) ==
  /\ att[a] = "connecting" /\ sock[a] = "closed"
  /\ scheduleRetry(a)
  /\ End(a)
  /\ UNCHANGED <<node, calls, closing, sock, inbox, shown>>

\* connect goes on after the handshake, and asks for the scene.
Connected(a) ==
  /\ att[a] = "landed"
  /\ \/ a \in closing /\ disconnect(a) /\ End(a)
     \/ a \notin closing /\ att' = [att EXCEPT ![a] = "asking"] /\ UNCHANGED sock
  /\ UNCHANGED <<node, calls, session, closing, listening, inbox, shown>>

\* The call is rejected: the socket has closed, or OBS refuses.
SeedFails(a) ==
  /\ \/ att[a] \in {"asking", "seeding"} /\ sock[a] = "closed"
     \/ att[a] = "asking" /\ Fault("seed")
  /\ End(a)
  /\ UNCHANGED <<node, calls, session, closing, sock, listening, inbox, shown>>

\* A session that was detached announces nothing to the one in the map.
emitScene(a, x) ==
  /\ last' = IF a \in closing THEN last ELSE x
  /\ shown' = IF a \notin closing /\ last = x THEN shown ELSE x

\* A message arrives: an event for the listeners, or the answer to the request.
Deliver(a) ==
  /\ sock[a] = "open" /\ inbox[a] # <<>>
  /\ inbox' = [inbox EXCEPT ![a] = Tail(@)]
  /\ LET m == Head(inbox[a]) IN
       \/ /\ m.kind = "event"
          /\ IF a \in listening THEN emitScene(a, m.scene) ELSE UNCHANGED <<last, shown>>
          /\ UNCHANGED att
       \/ /\ m.kind = "seed"
          /\ emitScene(a, m.scene)
          /\ End(a)
  /\ UNCHANGED <<node, calls, attached, obs, timer, closing, sock, listening>>

\* A connection ends: ConnectionClosed for its listeners.
SocketCloses(a) ==
  /\ sock[a] = "dying" \/ (sock[a] \in {"opening", "open"} /\ Fault("connect"))
  /\ sock' = [sock EXCEPT ![a] = "closed"]
  /\ inbox' = [inbox EXCEPT ![a] = <<>>]
  /\ IF a \in listening THEN scheduleRetry(a) ELSE UNCHANGED <<session, listening>>
  /\ UNCHANGED <<node, calls, att, closing, shown>>

-------------------------------------------------------------------------------
(* Docker events, the periodic sync, the drain. *)

\* The stream is read in order.
HandleDie ==
  /\ events # <<>> /\ Head(events) = "die" /\ events' = Tail(events)
  /\ detachInstance
  /\ UNCHANGED <<up, row, scene, calls, att, inbox, shown>>

\* The handler of a start event waits for the row.
HandleStart ==
  /\ events # <<>> /\ Head(events) = "start" /\ events' = Tail(events)
  /\ lookups < MaxEvents /\ lookups' = lookups + 1
  /\ UNCHANGED <<up, row, scene, sync, draining, session, sockets, shown>>

\* The row has been read, whatever its status; or there is none, or the read fails.
FinishLookup ==
  /\ lookups > 0 /\ lookups' = lookups - 1
  /\ attachInstance \/ (Fault("list") /\ UNCHANGED <<session, sockets>>)
  /\ UNCHANGED <<node, sync, draining, shown>>

syncInstances ==
  /\ sync = "idle" /\ sync' = "reading"
  /\ UNCHANGED <<node, lookups, draining, session, sockets, shown>>

SyncRead ==
  /\ sync = "reading" /\ sync' = IF row THEN "running" ELSE "stopped"
  /\ UNCHANGED <<node, lookups, draining, session, sockets, shown>>

SyncFails ==
  /\ sync = "reading" /\ sync' = "idle" /\ Fault("list")
  /\ UNCHANGED <<node, lookups, draining, session, sockets, shown>>

\* Mutant of SyncDetach: the sync only attaches.
SyncKeepsStopped ==
  /\ sync = "stopped" /\ sync' = "idle"
  /\ UNCHANGED <<node, lookups, draining, session, sockets, shown>>

\* The list does not have the instance as running.
SyncDetach ==
  /\ sync = "stopped" /\ sync' = "idle"
  /\ detachInstance
  /\ UNCHANGED <<node, lookups, draining, att, inbox, shown>>

\* Mutant of SyncAttach: the sync only detaches.
SyncForgetsRunning ==
  /\ sync = "running" /\ sync' = "idle"
  /\ UNCHANGED <<node, lookups, draining, session, sockets, shown>>

\* It does; the pauses for other instances are over.
SyncAttach ==
  /\ sync = "running" /\ sync' = "idle"
  /\ attachInstance
  /\ UNCHANGED <<node, lookups, draining, shown>>

\* SIGTERM: detachAll, and some seconds of grace in which all else goes on.
Shutdown ==
  /\ ~draining /\ draining' = TRUE /\ Fault("drain")
  /\ detachInstance
  /\ UNCHANGED <<node, lookups, sync, att, inbox, shown>>

-------------------------------------------------------------------------------
Next ==
  \/ StartContainer \/ StopContainer \/ WriteRow \/ SwitchScene
  \/ \E a \in Attempts :
       \/ Land(a) \/ AnswerSeed(a) \/ SocketCloses(a)
       \/ GotPassword(a) \/ NoPassword(a) \/ FailSecrets(a)
       \/ ConnectTimeout(a) \/ ConnectRejected(a) \/ Connected(a)
       \/ SeedFails(a) \/ Deliver(a)
  \/ FireTimer
  \/ HandleDie \/ HandleStart \/ FinishLookup
  \/ syncInstances \/ SyncRead \/ SyncFails \/ SyncDetach \/ SyncAttach
  \/ Shutdown

Spec == Init /\ [][Next]_vars

\* A step of the attempt that is due: a timeout, a reply, a connection that ends.
Continue(a) ==
  \/ ConnectTimeout(a) \/ ConnectRejected(a) \/ Connected(a) \/ SeedFails(a)
  \/ sock[a] = "dying" /\ SocketCloses(a)

\* What has begun goes on, the sync comes every 60 s, and nothing fails for ever.
Fairness ==
  /\ \A a \in Attempts : WF_vars(Continue(a))
  /\ SF_vars(\E a \in Attempts : GotPassword(a)) /\ SF_vars(\E a \in Attempts : Land(a))
  /\ WF_vars(FireTimer)
  /\ WF_vars(HandleDie \/ HandleStart) /\ WF_vars(FinishLookup)
  /\ WF_vars(syncInstances \/ SyncDetach \/ SyncAttach) /\ SF_vars(SyncRead)

FairSpec == Spec /\ Fairness

-------------------------------------------------------------------------------
(* Properties. *)

\* At most one socket has listeners, that of the session in the map: no second
\* socket announces scenes beside it, and none after a detach, whatever an attempt
\* finds when its await is over.
ListenersOfSession == \A a \in listening : attached /\ a \notin closing /\ obs = a

\* No socket is opened or left open that a detach would not close: timed-out,
\* rejected and overtaken attempts leave nothing behind.
NoSocketLeft == \A a \in Attempts : sock[a] \in {"opening", "open"} => a \in listening

\* A session in the map always has something that carries it on: a timer, a socket
\* whose end will be noticed, or an attempt that waits for the password.
NeverStuck ==
  attached => timer \/ obs # None \/ \E a \in Attempts \ closing : att[a] = "secrets"

\* Once a connection has announced a scene and nothing is under way on it, the scene
\* broadcast last is the one on air: the scene of an earlier connection or session
\* is never taken for it, nor is a change deduped away.
AnnouncedIsTrue ==
  \A a \in listening :
    sock[a] = "open" /\ inbox[a] = <<>> /\ last # None => shown = scene

Watching == \E a \in listening : sock[a] = "open"

\* An instance that stays running is connected again and again, whatever events were
\* lost and however late an old one is handled.
RunningIsWatched == <>[](up /\ row /\ ~draining) => []<>Watching

\* The session of an instance that stays stopped does not stay, even if the lookup of
\* a start event attached it after the die event, or the die event was lost.
StoppedIsForgotten == <>[](~up /\ ~row) => <>[]~attached

-------------------------------------------------------------------------------
(* Parts of the inductive invariant. *)

\* The socket of the session has the listeners and is not yet closed; a timer and a
\* socket exclude each other.
OneSocket ==
  /\ listening = IF obs = None THEN {} ELSE {obs}
  /\ obs # None => attached /\ ~timer /\ obs \notin closing /\ sock[obs] # "closed"
  /\ timer => attached
  /\ ~attached => closing = Attempts

\* At most one attempt of the session is on its way to a socket.
OneAttempt ==
  /\ \A a \in Attempts \ closing :
       /\ att[a] = "secrets" =>
            /\ ~timer /\ obs = None
            /\ \A b \in Attempts \ closing : att[b] = "secrets" => b = a
       /\ att[a] = "connecting" => obs = a \/ (timer /\ sock[a] = "closed")
  /\ \A a \in Attempts : att[a] = "secrets" => sock[a] = "closed"

\* What is announced, and under way on the socket, is newer than the connection.
LastIsNewest ==
  /\ last # None =>
       /\ obs # None /\ sock[obs] # "opening" /\ shown = last
       /\ sock[obs] = "open" /\ inbox[obs] = <<>> => last = scene
  /\ \A a \in Attempts :
       /\ sock[a] \in {"closed", "opening"} => inbox[a] = <<>>
       /\ sock[a] = "open" /\ inbox[a] # <<>> => inbox[a][Len(inbox[a])].scene = scene
       /\ ~up => sock[a] \notin {"opening", "open"}

IInv == TypeOK /\ OneSocket /\ OneAttempt /\ NoSocketLeft /\ NeverStuck /\ LastIsNewest
===============================================================================
