---------------------------- MODULE InstanceCaches ----------------------------
(***************************************************************************)
(* What the manager remembers of rest-api about its instances, and the     *)
(* writes that make it forget: the list of the node's instances            *)
(* (services/cache/instance-cache.ts), the passwords of one instance       *)
(* (services/cache/instance-secrets-cache.ts), and the mutations of        *)
(* clients/streamwizard-api/instances.ts.                                  *)
(*                                                                         *)
(* A request to rest-api takes three steps: it is sent, rest-api acts on   *)
(* it, and the manager gets the reply.  The rows are a version number: a   *)
(* list is the version that rest-api read for it.  Time is only what it    *)
(* does: an entry outlives its TTL, the error backoff ends.                *)
(***************************************************************************)
EXTENDS Naturals

CONSTANTS
  Readers,   \* readers of the cached list, which ask again and again
  Writes,    \* mutations of the node's instances, each made at most once
  Requests,  \* requests for the passwords of the instance, each at most once
  None,
  Faults,    \* subset of {"fetch", "write", "lost"}
  MaxRows    \* bound on the versions of the rows

\*  fetch  a GET of rest-api fails
\*  write  a write fails without effect
\*  lost   a write is applied, but its reply is lost

ASSUME ConstantsOK ==
  /\ Faults \subseteq {"fetch", "write", "lost"}
  /\ MaxRows \in Nat
  /\ None \notin Nat \cup Readers \cup Writes \cup Requests

VARIABLES
  rows,      \* version of the rows in rest-api
  deleted,   \* whether the row of the instance has been deleted
  cached,    \* the list in memory, or None
  fresh,     \* whether the list is within its TTL
  backoff,   \* whether a refresh has failed a short while ago
  inFlight,  \* the shared fetch of the list: "none", "sent", "answered", "failed"
  answer,    \* the list that rest-api read for it
  reader,    \* [Readers -> {"idle", "waiting"}]
  asked,     \* [Readers -> SUBSET Writes]: history, the writes done before the last call
  got,       \* [Readers -> the list it got, or None]: history
  sync,      \* the 60 s sync: "idle" or "waiting"
  write,     \* [Writes -> WriteStates]
  version,   \* [Writes -> the version the write has made]
  secrets,   \* the cached passwords: "none", "live", "expired"
  pending,   \* the request that the secrets cache regards as in flight
  request,   \* [Requests -> {"idle", "sent", "granted", "refused", "done"}]
  overlap    \* history: the list was invalidated while a fetch was in flight

db == <<rows, deleted>>
list == <<cached, fresh, backoff, inFlight, answer>>
readers == <<reader, asked, got, sync>>
writes == <<write, version>>
passwords == <<secrets, pending, request>>
vars == <<db, list, readers, writes, passwords, overlap>>

WriteStates == {"idle", "update", "delete", "updated", "deleted", "failed", "ackUpdate", "ackDelete"}
Lists == 0..MaxRows

Flags ==
  /\ deleted \in BOOLEAN /\ overlap \in BOOLEAN
  /\ fresh \in BOOLEAN /\ backoff \in BOOLEAN

TypeOK ==
  /\ Flags
  /\ rows \in Lists
  /\ cached \in Lists \cup {None}
  /\ inFlight \in {"none", "sent", "answered", "failed"}
  /\ answer \in Lists
  /\ reader \in [Readers -> {"idle", "waiting"}]
  /\ asked \in [Readers -> SUBSET Writes]
  /\ got \in [Readers -> Lists \cup {None}]
  /\ sync \in {"idle", "waiting"}
  /\ write \in [Writes -> WriteStates]
  /\ version \in [Writes -> Lists]
  /\ secrets \in {"none", "live", "expired"}
  /\ pending \in Requests \cup {None}
  /\ request \in [Requests -> {"idle", "sent", "granted", "refused", "done"}]

Init ==
  /\ rows = 0 /\ deleted = FALSE
  /\ cached = None /\ fresh = FALSE /\ backoff = FALSE
  /\ inFlight = "none" /\ answer = 0
  /\ reader = [r \in Readers |-> "idle"]
  /\ asked = [r \in Readers |-> {}]
  /\ got = [r \in Readers |-> None]
  /\ sync = "idle"
  /\ write = [w \in Writes |-> "idle"]
  /\ version = [w \in Writes |-> 0]
  /\ secrets = "none" /\ pending = None
  /\ request = [q \in Requests |-> "idle"]
  /\ overlap = FALSE

Fault(f) == f \in Faults

-------------------------------------------------------------------------------
(* The list. *)

\* The writes whose success the manager knows of.
Acknowledged == {w \in Writes : write[w] \in {"ackUpdate", "ackDelete"}}

\* fetchInstances: join the fetch in flight, or send one.
fetchInstances ==
  /\ inFlight' = IF inFlight = "none" THEN "sent" ELSE inFlight
  /\ UNCHANGED <<cached, fresh, backoff, answer>>

\* getCachedNodeInstances up to its await.
getCachedNodeInstances(r) ==
  /\ reader[r] = "idle"
  /\ asked' = [asked EXCEPT ![r] = Acknowledged]
  /\ \/ /\ cached # None /\ (fresh \/ backoff)
        /\ got' = [got EXCEPT ![r] = cached]
        /\ UNCHANGED <<list, reader>>
     \/ /\ cached = None \/ ~(fresh \/ backoff)
        /\ got' = [got EXCEPT ![r] = None]
        /\ reader' = [reader EXCEPT ![r] = "waiting"]
        /\ fetchInstances
  /\ UNCHANGED <<db, sync, writes, passwords, overlap>>

\* Mutant of refreshNodeInstances: served from memory like any other reader.
RefreshFromMemory ==
  /\ sync = "idle" /\ (cached = None \/ ~fresh)
  /\ sync' = "waiting"
  /\ fetchInstances
  /\ UNCHANGED <<db, reader, asked, got, writes, passwords, overlap>>

\* syncInstances: refreshNodeInstances, whatever is in memory.
refreshNodeInstances ==
  /\ sync = "idle" /\ sync' = "waiting"
  /\ fetchInstances
  /\ UNCHANGED <<db, reader, asked, got, writes, passwords, overlap>>

\* rest-api reads the rows.
AnswerFetch ==
  /\ inFlight = "sent"
  /\ inFlight' = "answered" /\ answer' = rows
  /\ UNCHANGED <<db, cached, fresh, backoff, readers, writes, passwords, overlap>>
FailFetch ==
  /\ inFlight = "sent" /\ Fault("fetch")
  /\ inFlight' = "failed"
  /\ UNCHANGED <<db, cached, fresh, backoff, answer, readers, writes, passwords, overlap>>

\* What every reader that waits gets, and the end of its wait.
Serve(l) ==
  /\ got' = [r \in Readers |-> IF reader[r] = "waiting" THEN l ELSE got[r]]
  /\ reader' = [r \in Readers |-> "idle"]
  /\ sync' = "idle"
  /\ UNCHANGED asked

\* The reply is stored.
StoreList ==
  /\ inFlight = "answered"
  /\ cached' = answer /\ fresh' = TRUE /\ backoff' = FALSE
  /\ inFlight' = "none"
  /\ Serve(answer)
  /\ UNCHANGED <<db, answer, writes, passwords, overlap>>

\* The fetch has failed: readers get what is in memory, or the error.
RejectFetch ==
  /\ inFlight = "failed"
  /\ inFlight' = "none"
  /\ backoff' = (backoff \/ \E r \in Readers : reader[r] = "waiting")
  /\ Serve(cached)
  /\ UNCHANGED <<db, cached, fresh, answer, writes, passwords, overlap>>

ExpireList ==
  /\ cached # None /\ fresh
  /\ fresh' = FALSE
  /\ UNCHANGED <<db, cached, backoff, inFlight, answer, readers, writes, passwords, overlap>>

EndBackoff ==
  /\ backoff
  /\ backoff' = FALSE
  /\ UNCHANGED <<db, cached, fresh, inFlight, answer, readers, writes, passwords, overlap>>

-------------------------------------------------------------------------------
(* The passwords. *)

\* getInstanceSecrets without a live entry and without a request to join.
getInstanceSecrets(q) ==
  /\ request[q] = "idle"
  /\ secrets # "live" /\ secrets' = "none"
  /\ pending = None /\ pending' = q
  /\ request' = [request EXCEPT ![q] = "sent"]
  /\ UNCHANGED <<db, list, readers, writes, overlap>>

\* rest-api has no passwords for a row it does not have.
AnswerSecrets(q) ==
  /\ request[q] = "sent"
  /\ \/ ~deleted /\ request' = [request EXCEPT ![q] = "granted"]
     \/ /\ deleted \/ Fault("fetch")
        /\ request' = [request EXCEPT ![q] = "refused"]
  /\ UNCHANGED <<db, list, readers, writes, secrets, pending, overlap>>

\* Mutant of StoreSecrets: whatever arrives is stored.
StoreSecretsUnchecked(q) ==
  /\ request[q] \in {"granted", "refused"}
  /\ request' = [request EXCEPT ![q] = "done"]
  /\ secrets' = IF request[q] = "granted" THEN "live" ELSE secrets
  /\ pending' = IF pending = q THEN None ELSE pending
  /\ UNCHANGED <<db, list, readers, writes, overlap>>

\* The reply is stored unless the instance was forgotten meanwhile.
StoreSecrets(q) ==
  /\ request[q] \in {"granted", "refused"}
  /\ request' = [request EXCEPT ![q] = "done"]
  /\ secrets' = IF request[q] = "granted" /\ pending = q THEN "live" ELSE secrets
  /\ pending' = IF pending = q THEN None ELSE pending
  /\ UNCHANGED <<db, list, readers, writes, overlap>>

ExpireSecrets ==
  /\ secrets = "live" /\ secrets' = "expired"
  /\ UNCHANGED <<db, list, readers, writes, pending, request, overlap>>

-------------------------------------------------------------------------------
(* The writes. *)

\* updateInstance, updateInstanceByContainerId, insertInstance; deleteInstance.
SendWrite(w) ==
  /\ write[w] = "idle"
  /\ \E kind \in {"update", "delete"} : write' = [write EXCEPT ![w] = kind]
  /\ UNCHANGED <<db, list, readers, version, passwords, overlap>>

ApplyWrite(w) ==
  /\ write[w] = "update" \/ (write[w] = "delete" /\ ~deleted)
  /\ rows < MaxRows
  /\ rows' = rows + 1
  /\ version' = [version EXCEPT ![w] = rows + 1]
  /\ \/ /\ write[w] = "update" /\ write' = [write EXCEPT ![w] = "updated"]
        /\ UNCHANGED deleted
     \/ /\ write[w] = "delete" /\ write' = [write EXCEPT ![w] = "deleted"]
        /\ deleted' = TRUE
  /\ UNCHANGED <<list, readers, passwords, overlap>>

\* The write fails (a delete of a row that is gone: 404), or its reply is lost:
\* the caller gets an error, and nothing is invalidated.
FailWrite(w) ==
  /\ \/ write[w] \in {"update", "delete"} /\ Fault("write")
     \/ write[w] = "delete" /\ deleted
     \/ write[w] \in {"updated", "deleted"} /\ Fault("lost")
  /\ write' = [write EXCEPT ![w] = "failed"]
  /\ UNCHANGED <<db, list, readers, version, passwords, overlap>>

invalidateNodeInstances ==
  /\ cached' = None /\ fresh' = FALSE /\ backoff' = FALSE
  /\ overlap' = (overlap \/ inFlight # "none")
  /\ UNCHANGED <<inFlight, answer>>

\* Mutant of AckUpdate: a mutation that bypasses the invalidation.
AckUpdateQuietly(w) ==
  /\ write[w] = "updated"
  /\ write' = [write EXCEPT ![w] = "ackUpdate"]
  /\ UNCHANGED <<db, list, readers, version, passwords, overlap>>

\* The reply: invalidation comes in one synchronous piece with it.
AckUpdate(w) ==
  /\ write[w] = "updated"
  /\ write' = [write EXCEPT ![w] = "ackUpdate"]
  /\ invalidateNodeInstances
  /\ UNCHANGED <<db, readers, version, passwords>>

\* forgetInstanceSecrets drops the entry and the request in flight.
AckDelete(w) ==
  /\ write[w] = "deleted"
  /\ write' = [write EXCEPT ![w] = "ackDelete"]
  /\ invalidateNodeInstances
  /\ secrets' = "none" /\ pending' = None
  /\ UNCHANGED <<db, readers, version, request>>

\* A change from elsewhere.
OutOfBand ==
  /\ rows < MaxRows
  /\ rows' = rows + 1
  /\ deleted' \in {deleted, TRUE}
  /\ UNCHANGED <<list, readers, writes, passwords, overlap>>

-------------------------------------------------------------------------------
Next ==
  \/ \E r \in Readers : getCachedNodeInstances(r)
  \/ refreshNodeInstances \/ AnswerFetch \/ FailFetch \/ StoreList \/ RejectFetch
  \/ ExpireList \/ EndBackoff
  \/ \E q \in Requests : getInstanceSecrets(q) \/ AnswerSecrets(q) \/ StoreSecrets(q)
  \/ ExpireSecrets
  \/ \E w \in Writes :
       SendWrite(w) \/ ApplyWrite(w) \/ FailWrite(w) \/ AckUpdate(w) \/ AckDelete(w)
  \/ OutOfBand

Spec == Init /\ [][Next]_vars

\* The sync interval fires again and again, requests are answered within their
\* timeout, replies are handled; rest-api does not fail for ever.
Fairness ==
  /\ WF_vars(refreshNodeInstances)
  /\ WF_vars(AnswerFetch \/ FailFetch) /\ SF_vars(AnswerFetch)
  /\ WF_vars(StoreList) /\ WF_vars(RejectFetch)

FairSpec == Spec /\ Fairness

-------------------------------------------------------------------------------
(* Properties. *)

\* "The next reader refetches": whoever asks after a write was acknowledged gets
\* a list with that write in it.
NextReaderRefetches ==
  \A r \in Readers : got[r] # None => \A w \in asked[r] : version[w] <= got[r]

\* The same as long as no fetch was in flight when the list was invalidated.
CurrentUnlessOverlap == ~overlap => NextReaderRefetches

\* The sync repairs every stale list, what an overlap left and changes from outside
\* (a failed fetch does not poison the slot of the one in flight).
StaleListIsReplaced == cached # None /\ cached < rows ~> cached \in {None, rows}

\* Once a delete is acknowledged no passwords of the instance are in memory, and
\* no request that was under way brings them back.
ForgottenForGood == (\E w \in Writes : write[w] = "ackDelete") => secrets = "none"

-------------------------------------------------------------------------------
(* Parts of the inductive invariant. *)

\* A version is made before it can be read, and before it can be acknowledged.
VersionsExist == \A w \in Writes : version[w] <= rows

\* Without an overlap neither memory nor a reply on its way is older than a write
\* that was acknowledged.
ListsAreCurrent ==
  ~overlap =>
    \A w \in Acknowledged :
      /\ cached # None => version[w] <= cached
      /\ inFlight = "answered" => version[w] <= answer

\* A reader knows of acknowledged writes only, and has no list while it waits.
ReadersInOrder ==
  \A r \in Readers :
    /\ asked[r] \subseteq Acknowledged
    /\ reader[r] = "waiting" => got[r] = None

\* After a delete rest-api refuses, and the request that counts asked after it.
DeletedIsGone ==
  /\ (\E w \in Writes : write[w] \in {"deleted", "ackDelete"}) => deleted
  /\ (\E w \in Writes : write[w] = "ackDelete") /\ pending # None =>
       request[pending] # "granted"

IInv ==
  /\ TypeOK /\ VersionsExist /\ ListsAreCurrent /\ ReadersInOrder /\ DeletedIsGone
  /\ CurrentUnlessOverlap /\ ForgottenForGood
===============================================================================
