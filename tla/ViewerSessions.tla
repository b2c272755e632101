---------------------------- MODULE ViewerSessions ----------------------------
(***************************************************************************)
(* The browser's ways into one instance: tickets (ws-tickets.ts), the      *)
(* obs-websocket proxy that spends one per connection (ws-proxy.ts), the   *)
(* viewer sessions of the Selkies page (selkies-viewer-sessions.ts) and    *)
(* the proxy that spends a ticket on one of those (selkies-proxy.ts).      *)
(*                                                                         *)
(* rest-api's answer to "is it the ticket owner's" may be as old as the    *)
(* request for it: a lookup that began while the instance was owned may    *)
(* say so later.  These are the routes of users; of the admin routes,      *)
(* Selkies asks for the role instead, obs-websocket for the row only.      *)
(***************************************************************************)
EXTENDS WsRelay, FiniteSets

CONSTANT Tokens  \* tickets the panel mints, each the token of at most one session

ASSUME ViewerAssumption == None \notin Tokens

VARIABLES
  owned,    \* the user may use the instance
  ticket,   \* ticket[t], in the map while "valid" or "expired"
  scope,    \* scope[t] = what the ticket is for
  session,  \* session[t], in the map while "held"
  lapsed,   \* sessions whose idleSince is more than RECONNECT_GRACE_MS ago
  capped,   \* sessions whose createdAt is more than SESSION_MAX_MS ago
  open,     \* open[t] = openSockets
  view,     \* view[r] = the token r presents
  kind,     \* kind[r] = what r asks for
  asOwner   \* requests that came from the owner, or joined a first use

tickets == <<ticket, scope>>
sessions == <<session, lapsed, capped, open>>
asked == <<view, kind, asOwner>>
viewerVars == <<owned, tickets, sessions, asked, relay>>

\* An API call and a socket of the Selkies page, and an obs-websocket connection.
Kinds == {"api", "selkies", "obsws"}

ViewerTypeOK ==
  /\ owned \in BOOLEAN
  /\ ticket \in [Tokens -> {"unminted", "valid", "expired", "gone"}]
  /\ scope \in [Tokens -> {"selkies", "obsws"}]
  /\ session \in [Tokens -> {"none", "held", "dropped"}]
  /\ lapsed \subseteq Tokens /\ capped \subseteq Tokens
  /\ open \in [Tokens -> Nat]
  /\ view \in [Requests -> Tokens \cup {None}]
  /\ kind \in [Requests -> Kinds] /\ asOwner \subseteq Requests
  /\ RelayTypeOK

ViewerInit ==
  /\ owned = TRUE
  /\ ticket = [t \in Tokens |-> "unminted"] /\ scope \in [Tokens -> {"selkies", "obsws"}]
  /\ session = [t \in Tokens |-> "none"]
  /\ lapsed = {} /\ capped = {}
  /\ open = [t \in Tokens |-> 0]
  /\ view = [r \in Requests |-> None]
  /\ kind = [r \in Requests |-> "api"] /\ asOwner = {}
  /\ RelayInit

-------------------------------------------------------------------------------
(* Tickets. *)

\* mintInstanceTicket, for the owner.
issueTicket(t) ==
  /\ owned /\ ticket[t] = "unminted"
  /\ ticket' = [ticket EXCEPT ![t] = "valid"]
  /\ UNCHANGED <<pc, owned, scope, sessions, asked, relay>>

ExpireTicket(t) ==
  /\ ticket[t] = "valid"
  /\ ticket' = [ticket EXCEPT ![t] = "expired"]
  /\ UNCHANGED <<pc, owned, scope, sessions, asked, relay>>

SweepTickets ==
  /\ \E t \in Tokens : ticket[t] = "expired"
  /\ ticket' = [t \in Tokens |-> IF ticket[t] = "expired" THEN "gone" ELSE ticket[t]]
  /\ UNCHANGED <<pc, owned, scope, sessions, asked, relay>>

\* The instance is deleted or passes to somebody else.
Revoke ==
  /\ owned /\ owned' = FALSE
  /\ UNCHANGED <<pc, tickets, sessions, asked, relay>>

\* Mutant: the ticket stays in the map until it expires.
consumeTicketKept(t) == UNCHANGED ticket

\* A ticket is spent even where it does not count.
consumeTicket(t) == ticket' = [ticket EXCEPT ![t] = IF @ = "unminted" THEN @ ELSE "gone"]

Counts(t, s) == ticket[t] = "valid" /\ scope[t] = s

-------------------------------------------------------------------------------
(* Sessions. *)

\* Mutant: the grace period counts under open sockets too.
isLiveUntilIdle(t) == t \notin capped \cup lapsed

isLive(t) == t \notin capped /\ (open[t] > 0 \/ t \notin lapsed)

Held(t) == session[t] = "held" /\ isLive(t)

SweepSessions ==
  /\ \E t \in Tokens : session[t] = "held" /\ ~isLive(t)
  /\ session' = [t \in Tokens |-> IF session[t] = "held" /\ ~isLive(t) THEN "dropped"
                                  ELSE session[t]]
  /\ UNCHANGED <<pc, owned, tickets, lapsed, capped, open, asked, relay>>

GraceEnds(t) ==
  /\ session[t] # "none" /\ t \notin lapsed
  /\ lapsed' = lapsed \cup {t}
  /\ UNCHANGED <<pc, owned, tickets, session, capped, open, asked, relay>>

CapIsReached(t) ==
  /\ session[t] # "none" /\ t \notin capped
  /\ capped' = capped \cup {t}
  /\ UNCHANGED <<pc, owned, tickets, session, lapsed, open, asked, relay>>

\* The map of first uses in flight.
Starting(t) == \E q \in Requests : pc[q] = "starting" /\ view[q] = t

\* Whoever comes while the user may use the instance comes as its owner.
Owners(r) == IF owned THEN asOwner \cup {r} ELSE asOwner

\* r presents t.
Present(r, t, k) ==
  /\ pc[r] = "idle"
  /\ view' = [view EXCEPT ![r] = t]
  /\ kind' = [kind EXCEPT ![r] = k]

\* sessionFor with a live session: only a socket has the owner checked again.
UseSession(r) ==
  \E t \in Tokens, k \in {"api", "selkies"} :
    /\ Present(r, t, k) /\ Held(t)
    /\ asOwner' = Owners(r)
    /\ Goto(r, IF k = "selkies" THEN "recheck" ELSE "authorize")
    /\ UNCHANGED <<owned, tickets, sessions, relay>>

\* sessionFor without one, up to its first await: a session found dead is dropped; a
\* first use in flight is joined; otherwise the ticket is spent, and must count.
FirstUse(r) ==
  \E t \in Tokens, k \in {"api", "selkies"} :
    /\ Present(r, t, k) /\ ~Held(t)
    /\ session' = [session EXCEPT ![t] = IF @ = "held" THEN "dropped" ELSE @]
    /\ \/ /\ Starting(t) /\ Goto(r, "joined")
          /\ asOwner' = asOwner \cup {r} /\ UNCHANGED ticket
       \/ /\ ~Starting(t) /\ consumeTicket(t)
          /\ asOwner' = Owners(r)
          /\ Goto(r, IF Counts(t, "selkies") THEN "starting" ELSE "refused")
    /\ UNCHANGED <<owned, scope, lapsed, capped, open, relay>>

\* Mutant: a socket under a live session is let in as it is.
RecheckNothing(r) ==
  /\ pc[r] = "recheck" /\ Goto(r, "authorize")
  /\ UNCHANGED viewerVars

\* Every socket asks for the instance again, as the ticket's owner.
RecheckOwner(r) ==
  /\ pc[r] = "recheck"
  /\ \/ r \in asOwner /\ Goto(r, "authorize") /\ UNCHANGED session
     \/ /\ ~owned /\ Goto(r, "refused")
        /\ session' = [session EXCEPT ![view[r]] = "dropped"]
     \/ Fault("read") /\ Goto(r, "refused") /\ UNCHANGED session
  /\ UNCHANGED <<owned, tickets, lapsed, capped, open, asked, relay>>

\* Who waits for the first use of the token by r.
Joiners(r) == {r} \cup {q \in Requests : pc[q] = "joined" /\ view[q] = view[r]}

\* The instance is there: ViewerSessions.start, for all who wait.
StartSession(r) ==
  /\ pc[r] = "starting" /\ r \in asOwner
  /\ pc' = [q \in Requests |-> IF q \in Joiners(r) THEN "authorize" ELSE pc[q]]
  /\ session' = [session EXCEPT ![view[r]] = "held"]
  /\ lapsed' = lapsed \ {view[r]} /\ capped' = capped \ {view[r]}
  /\ open' = [open EXCEPT ![view[r]] = 0]
  /\ UNCHANGED <<owned, tickets, asked, relay>>

\* It is not, or the lookup fails: the ticket is spent all the same.
StartFails(r) ==
  /\ pc[r] = "starting" /\ (~owned \/ Fault("read"))
  /\ pc' = [q \in Requests |-> IF q \in Joiners(r) THEN "refused" ELSE pc[q]]
  /\ UNCHANGED viewerVars

\* upstreamAuthorization, then forwardHttp or the upgrade.
Authorize(r) ==
  /\ pc[r] = "authorize"
  /\ \/ Goto(r, IF kind[r] = "selkies" THEN "upgrade" ELSE "done")
     \/ Fault("secrets") /\ Goto(r, "refused")
  /\ UNCHANGED viewerVars

\* onOpen counts the socket and dials the container.
OnOpen(r) ==
  /\ pc[r] = "upgrade" /\ Goto(r, "relay")
  /\ open' = [open EXCEPT ![view[r]] = @ + 1]
  /\ Dial(r)
  /\ UNCHANGED <<owned, tickets, session, lapsed, capped, asked>>

\* Mutant: a socket is counted off only while its session is in the map.
OnCloseIfHeld(r) ==
  /\ pc[r] = "relay" /\ kind[r] = "selkies" /\ Goto(r, "done")
  /\ open' = [open EXCEPT ![view[r]] = IF session[view[r]] = "held" THEN @ - 1 ELSE @]
  /\ lapsed' = IF open'[view[r]] = 0 THEN lapsed \ {view[r]} ELSE lapsed
  /\ HangUp(r)
  /\ UNCHANGED <<owned, tickets, session, capped, asked>>

\* onClose counts it again, and the last one starts the grace period.
OnClose(r) ==
  /\ pc[r] = "relay" /\ kind[r] = "selkies" /\ Goto(r, "done")
  /\ open' = [open EXCEPT ![view[r]] = IF @ > 0 THEN @ - 1 ELSE 0]
  /\ lapsed' = IF open'[view[r]] = 0 THEN lapsed \ {view[r]} ELSE lapsed
  /\ HangUp(r)
  /\ UNCHANGED <<owned, tickets, session, capped, asked>>

-------------------------------------------------------------------------------
(* ws-proxy.ts: a ticket for every connection. *)

\* The ticket is spent before the lookup; without one the upgrade is closed at once.
proxyRoute(r) ==
  \E t \in Tokens :
    /\ Present(r, t, "obsws")
    /\ asOwner' = Owners(r)
    /\ consumeTicket(t)
    /\ Goto(r, IF Counts(t, "obsws") THEN "ticketed" ELSE "refused")
    /\ UNCHANGED <<owned, scope, sessions, relay>>

ProxyOpens(r) ==
  /\ pc[r] = "ticketed"
  /\ \/ r \in asOwner /\ Goto(r, "relay") /\ Dial(r)
     \/ (~owned \/ Fault("read")) /\ Goto(r, "refused") /\ UNCHANGED relay
  /\ UNCHANGED <<owned, tickets, sessions, asked>>

ProxyCloses(r) ==
  /\ pc[r] = "relay" /\ kind[r] = "obsws" /\ Goto(r, "done")
  /\ HangUp(r)
  /\ UNCHANGED <<owned, tickets, sessions, asked>>

ViewerNext ==
  \/ \E t \in Tokens : issueTicket(t) \/ ExpireTicket(t) \/ GraceEnds(t) \/ CapIsReached(t)
  \/ SweepTickets \/ SweepSessions \/ Revoke
  \/ \E r \in Requests :
       \/ UseSession(r) \/ FirstUse(r) \/ RecheckOwner(r) \/ StartSession(r) \/ StartFails(r)
       \/ Authorize(r) \/ OnOpen(r) \/ OnClose(r)
       \/ proxyRoute(r) \/ ProxyOpens(r) \/ ProxyCloses(r)
  \/ RelayNext /\ UNCHANGED <<owned, tickets, sessions, asked>>

-------------------------------------------------------------------------------
\* A token with a session, or with a first use in flight, has spent its ticket, and
\* only one request spends it.
SpentOnce ==
  /\ \A t \in Tokens : session[t] # "none" => ticket[t] = "gone" /\ ~Starting(t)
  /\ \A r \in Requests : pc[r] = "starting" => view[r] \in Tokens /\ ticket[view[r]] = "gone"
  /\ \A r \in Requests : pc[r] = "recheck" => view[r] \in Tokens /\ session[view[r]] # "none"
  /\ \A r, q \in Requests :
       pc[r] = "starting" /\ pc[q] = "starting" /\ view[r] = view[q] => r = q

\* On the way to a socket there are requests of the owner only.
OnlyOwners ==
  \A r \in Requests :
    /\ pc[r] \in {"joined", "upgrade", "relay"} => r \in asOwner
    /\ pc[r] = "authorize" /\ kind[r] = "selkies" => r \in asOwner

\* The sockets of the Selkies page under a token.
Sockets(t) == {r \in Requests : pc[r] = "relay" /\ kind[r] = "selkies" /\ view[r] = t}

\* Nobody is let towards a socket before there is a session.
AfterSession ==
  \A r \in Requests :
    /\ pc[r] = "upgrade" => kind[r] = "selkies"
    /\ pc[r] = "ticketed" => kind[r] = "obsws"
    /\ pc[r] \in {"authorize", "upgrade", "relay"} /\ kind[r] = "selkies" =>
         view[r] \in Tokens /\ session[view[r]] # "none"

\* openSockets is the number of sockets that are open, whatever order they open and
\* close in, and whether the session has been dropped meanwhile.
CountExact == \A t \in Tokens : IsFiniteSet(Sockets(t)) /\ open[t] = Cardinality(Sockets(t))

\* "The session lives while a WebSocket is open": it is not dropped under a socket,
\* whatever other sockets of the viewer open and close, short of the cap and of a
\* recheck that finds the access revoked.
DroppedOnlyIdle ==
  [][\A t \in Tokens :
       session[t] = "held" /\ session'[t] = "dropped" =>
         \/ t \in capped \/ ~owned
         \/ \A r \in Requests : ~(pc[r] = "relay" /\ kind[r] = "selkies" /\ view[r] = t)]_viewerVars

\* A ticket makes one session: "after that the token is dead", and no first use,
\* joined or late, brings it back.
DeadForGood ==
  [][\A t \in Tokens : session[t] = "dropped" => session'[t] = "dropped"]_viewerVars

\* A request that comes after the access was revoked never ends in a socket,
\* whatever session or ticket it has, unless it joins a first use that began before.
RevokedGetsNoSocket == \A r \in Requests : pc[r] = "relay" => r \in asOwner
===============================================================================
