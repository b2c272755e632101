------------------------------ MODULE HttpRequests ------------------------------
(***************************************************************************)
(* What the routes outside the lifecycle share: requests under way at the  *)
(* same time, each a chain of handlers with awaits in between.  NodeKey,   *)
(* ObsCommand and ViewerSessions are such handlers; Services composes them. *)
(***************************************************************************)
CONSTANTS
  Requests,  \* request slots: a slot whose request is over serves another one
  None,
  Faults     \* what may go wrong, a subset of HttpFaults

(***************************************************************************)
(*  node     GET /api/obs-nodes/me fails                                   *)
(*  read     reading the instance's row fails                              *)
(*  secrets  the instance's passwords cannot be read                       *)
(*  connect  obs-websocket refuses a connection, or answers too late       *)
(*  call     the connection to obs-websocket drops with a call pending, or  *)
(*           OBS never answers it                                          *)
(*  viewer   the container refuses a connection, or answers too late       *)
(***************************************************************************)
HttpFaults == {"node", "read", "secrets", "connect", "call", "viewer"}

ASSUME HttpAssumption ==
  /\ Faults \subseteq HttpFaults
  /\ None \notin Requests

VARIABLE pc  \* pc[r] = the await the handling of r has got to

Steps ==
  {"idle", "verifying", "refused", "done"} \cup
  {"lookup", "password", "queued", "connecting", "calling", "hung", "disconnecting"} \cup
  {"starting", "joined", "recheck", "authorize", "ticketed", "upgrade", "relay"}

Fault(f) == f \in Faults

Goto(r, step) == pc' = [pc EXCEPT ![r] = step]

\* A request that has been answered, and nothing of it is left.
Over(r) == pc[r] \in {"refused", "done"}
===============================================================================
