-------------------------------- MODULE WsRelay --------------------------------
(***************************************************************************)
(* The two sockets of a proxied WebSocket, the browser's and the one to    *)
(* the container, and the frames that wait for the second.  ws-proxy.ts    *)
(* has it for obs-websocket, selkies-proxy.ts repeats it for the viewer.   *)
(*                                                                         *)
(* Frames are numbered in the order the rate limiter lets them through;    *)
(* what it drops leaves no trace.                                          *)
(***************************************************************************)
EXTENDS HttpRequests, Naturals, Sequences

CONSTANT MaxFrames  \* bound on the frames of a client

ASSUME RelayAssumption == MaxFrames \in Nat

VARIABLES
  client,    \* client[r] = the browser's side
  upstream,  \* upstream[r] = the container's side
  queued,    \* queued[r] = frames that wait for the upstream to open
  sent       \* sent[r] = frames passed on

relay == <<client, upstream, queued, sent>>

RelayTypeOK ==
  /\ client \in [Requests -> {"none", "open", "closing"}]
  /\ upstream \in [Requests -> {"none", "connecting", "open", "closed"}]
  /\ queued \in [Requests -> Seq(1..MaxFrames)]
  /\ sent \in [Requests -> Seq(1..MaxFrames)]

RelayInit ==
  /\ client = [r \in Requests |-> "none"] /\ upstream = [r \in Requests |-> "none"]
  /\ queued = [r \in Requests |-> <<>>] /\ sent = [r \in Requests |-> <<>>]

-------------------------------------------------------------------------------
\* onOpen of the browser's side: dial the container.
Dial(r) ==
  /\ client' = [client EXCEPT ![r] = "open"]
  /\ upstream' = [upstream EXCEPT ![r] = "connecting"]
  /\ UNCHANGED <<queued, sent>>

\* A frame goes to the upstream, or into the queue while there is none.
OnMessage(r) ==
  /\ client[r] = "open" /\ Len(sent[r]) + Len(queued[r]) < MaxFrames
  /\ LET frame == Len(sent[r]) + Len(queued[r]) + 1
     IN  \/ /\ upstream[r] = "open"
            /\ sent' = [sent EXCEPT ![r] = Append(@, frame)] /\ UNCHANGED queued
         \/ /\ upstream[r] # "open"
            /\ queued' = [queued EXCEPT ![r] = Append(@, frame)] /\ UNCHANGED sent
  /\ UNCHANGED <<pc, client, upstream>>

\* Mutant: the queue is forgotten.
UpstreamOpensUnflushed(r) ==
  /\ upstream[r] = "connecting"
  /\ upstream' = [upstream EXCEPT ![r] = "open"]
  /\ UNCHANGED <<pc, client, queued, sent>>

\* upstream.onopen flushes the queue.
UpstreamOpens(r) ==
  /\ upstream[r] = "connecting"
  /\ upstream' = [upstream EXCEPT ![r] = "open"]
  /\ sent' = [sent EXCEPT ![r] = @ \o queued[r]]
  /\ queued' = [queued EXCEPT ![r] = <<>>]
  /\ UNCHANGED <<pc, client>>

\* onclose and onerror close the browser's side.
UpstreamCloses(r) ==
  /\ upstream[r] = "open" \/ (upstream[r] = "connecting" /\ Fault("viewer"))
  /\ upstream' = [upstream EXCEPT ![r] = "closed"]
  /\ client' = [client EXCEPT ![r] = "closing"]
  /\ UNCHANGED <<pc, queued, sent>>

\* CONNECT_TIMEOUT_MS closes the browser's side only; the dial goes on.
UpstreamTimesOut(r) ==
  /\ upstream[r] = "connecting" /\ client[r] = "open" /\ Fault("viewer")
  /\ client' = [client EXCEPT ![r] = "closing"]
  /\ UNCHANGED <<pc, upstream, queued, sent>>

\* The browser's side is closed, by whomever, and closes the upstream.
HangUp(r) ==
  /\ client' = [client EXCEPT ![r] = "none"]
  /\ upstream' = [upstream EXCEPT ![r] = "none"]
  /\ queued' = [queued EXCEPT ![r] = <<>>] /\ sent' = [sent EXCEPT ![r] = <<>>]

RelayNext ==
  \E r \in Requests :
    OnMessage(r) \/ UpstreamOpens(r) \/ UpstreamCloses(r) \/ UpstreamTimesOut(r)

-------------------------------------------------------------------------------
\* Frames reach the container whole and in order, whenever it opens: what has been
\* passed on and what waits are together what was let through, and nothing waits
\* beside an open upstream.
FramesWhole ==
  \A r \in Requests :
    /\ sent[r] \o queued[r] = [i \in 1..(Len(sent[r]) + Len(queued[r])) |-> i]
    /\ upstream[r] = "open" => queued[r] = <<>>
===============================================================================
