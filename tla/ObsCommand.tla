------------------------------ MODULE ObsCommand ------------------------------
(***************************************************************************)
(* POST /obs/instances/:id/command once the token is accepted: routes/obs  *)
(* and obs-command.ts, for one instance.  serialize is the promise chain   *)
(* of withInstanceLock again (InstanceLock shows it to be a FIFO queue).   *)
(***************************************************************************)
EXTENDS HttpRequests, Naturals, Sequences

CONSTANTS
  MaxCommands,  \* commands of a batch
  MaxOrphans    \* bound on the sockets that outlive their request

ASSUME ObsCommandAssumption == MaxCommands \in Nat \ {0} /\ MaxOrphans \in Nat

VARIABLES
  line,     \* the requests that wait for, and the one that has, the instance;
            \* None stands for a task that never settles
  calls,    \* calls[r] = commands of r that OBS has answered
  late,     \* connects under way of requests that timed out
  orphans   \* sockets that came of them

obsVars == <<line, calls, late, orphans>>

ObsTypeOK ==
  /\ line \in Seq(Requests \cup {None})
  /\ calls \in [Requests -> 0..MaxCommands]
  /\ late \in Nat /\ orphans \in Nat /\ late + orphans <= MaxOrphans

ObsInit == line = <<>> /\ calls = [r \in Requests |-> 0] /\ late = 0 /\ orphans = 0

\* Nothing behind a task that never settles ever runs: of such a line no more is kept.
Wedged == line = <<None>>

-------------------------------------------------------------------------------
\* The body is validated, the row read, and its status checked: 400, 404, 409, a
\* failed read, or go on.
LookUpInstance(r) ==
  /\ pc[r] = "lookup"
  /\ Goto(r, "password") \/ Goto(r, "refused")
  /\ UNCHANGED obsVars

\* getInstanceSecrets; then serialize puts the request in line.
ReadPassword(r) ==
  /\ pc[r] = "password"
  /\ \/ Goto(r, "queued") /\ line' = IF Wedged THEN line ELSE Append(line, r)
     \/ Fault("secrets") /\ Goto(r, "refused") /\ UNCHANGED line
  /\ UNCHANGED <<calls, late, orphans>>

\* Mutant: no serialize.
ConnectAtOnce(r) ==
  /\ pc[r] = "queued"
  /\ Goto(r, "connecting")
  /\ UNCHANGED obsVars

\* obs.connect, raced against CONNECT_TIMEOUT_MS.
Connect(r) ==
  /\ pc[r] = "queued" /\ line # <<>> /\ r = Head(line)
  /\ Goto(r, "connecting")
  /\ UNCHANGED obsVars

Connected(r) ==
  /\ pc[r] = "connecting" /\ Goto(r, "calling")
  /\ UNCHANGED obsVars

\* Mutant: the connect is tried again, as often as it takes.
LeaveNever(r) == Goto(r, "queued") /\ UNCHANGED line

\* 502: the task is over and the next one begins.
Leave(r) == Goto(r, "refused") /\ line' = Tail(line)

ConnectFails(r) ==
  /\ pc[r] = "connecting" /\ Fault("connect")
  /\ Leave(r)
  /\ UNCHANGED <<calls, late, orphans>>

\* The timeout wins the race; nobody disconnects what connect still makes.
ConnectTimesOut(r) ==
  /\ pc[r] = "connecting" /\ Fault("connect")
  /\ late + orphans < MaxOrphans /\ late' = late + 1
  /\ Leave(r)
  /\ UNCHANGED <<calls, orphans>>

LateConnect ==
  /\ late > 0 /\ late' = late - 1
  /\ orphans' \in {orphans, orphans + 1}
  /\ UNCHANGED <<pc, line, calls>>

\* The container stops, and with it the far end of every socket.
OrphansClose ==
  /\ orphans > 0 /\ orphans' = 0
  /\ UNCHANGED <<pc, line, calls, late>>

\* One command after the other; a rejected call is an outcome like any other.
Call(r) ==
  /\ pc[r] = "calling" /\ calls[r] < MaxCommands
  /\ calls' = [calls EXCEPT ![r] = @ + 1]
  /\ UNCHANGED <<pc, line, late, orphans>>

\* The connection drops while a call is pending, or OBS never answers it.  call has no
\* timeout and obs-websocket-js settles no call when the socket closes: the loop does
\* not go on, the finally block is not reached, and the task never ends.
CallHangs(r) ==
  /\ pc[r] = "calling" /\ calls[r] < MaxCommands /\ Fault("call")
  /\ Goto(r, "hung")
  /\ calls' = [calls EXCEPT ![r] = 0]
  /\ line' = <<None>>
  /\ UNCHANGED <<late, orphans>>

\* Every command of a batch, of one or more, has been answered.
EndBatch(r) ==
  /\ pc[r] = "calling" /\ calls[r] > 0
  /\ Goto(r, "disconnecting")
  /\ UNCHANGED obsVars

\* The finally block, and with it the end of the task.
Disconnect(r) ==
  /\ pc[r] = "disconnecting" /\ Goto(r, "done")
  /\ calls' = [calls EXCEPT ![r] = 0]
  /\ line' = Tail(line)
  /\ UNCHANGED <<late, orphans>>

\* The caller of a request that gets no answer hangs up; its task stays where it is.
GiveUp(r) ==
  /\ Wedged /\ pc[r] \in {"queued", "hung"}
  /\ Goto(r, "refused")
  /\ UNCHANGED obsVars

Command(r) ==
  \/ LookUpInstance(r) \/ ReadPassword(r)
  \/ Connect(r) \/ Connected(r) \/ ConnectFails(r) \/ ConnectTimesOut(r)
  \/ Call(r) \/ CallHangs(r) \/ EndBatch(r) \/ Disconnect(r) \/ GiveUp(r)

ObsNext == (\E r \in Requests : Command(r)) \/ LateConnect \/ OrphansClose

-------------------------------------------------------------------------------
\* Who is past the wait is at the head of the line, and only such a request has had
\* answers from OBS.
OneInLine ==
  \A r \in Requests :
    /\ pc[r] \in {"connecting", "calling", "disconnecting"} => line # <<>> /\ Head(line) = r
    /\ calls[r] > 0 => pc[r] \in {"calling", "disconnecting"}

\* A batch stays whole: no command of one switch decision reaches OBS between two
\* of another.
BatchesDontInterleave ==
  [][\A r \in Requests : calls'[r] > calls[r] => \A q \in Requests \ {r} : calls[q] = 0]_obsVars

\* As long as no call is left without an answer, every command in line is answered,
\* whatever refuses a connection or makes one too late: the chain passes over a task
\* that throws.
EndsUnlessHung == \A r \in Requests : pc[r] = "queued" ~> Over(r) \/ Wedged
===============================================================================
