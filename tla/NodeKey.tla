-------------------------------- MODULE NodeKey --------------------------------
(***************************************************************************)
(* The key of the /obs route: command-key.ts on top of node-cache.ts.      *)
(*                                                                         *)
(* rest-api holds the node's row with the hash of its command key; the     *)
(* manager holds the row (cached) and, apart from it, the hash it checks   *)
(* tokens against.  Keys are numbered in the order of their rotation; 0 is *)
(* "no key yet" in the row and a wrong token in a request.                 *)
(***************************************************************************)
EXTENDS HttpRequests, Naturals

CONSTANT MaxKey  \* bound on the rotations

ASSUME MaxKeyIsNat == MaxKey \in Nat

VARIABLES
  key,             \* the key in the row at rest-api
  cached,          \* the key in the row held in memory
  inFlight,        \* the GET of the row, shared by all who ask while it is
  answer,          \* the key in its reply
  commandKeyHash,
  cooldown,        \* MISMATCH_REFRESH_COOLDOWN_MS since lastFetchAt is not over
  loading,         \* a load of the boot or of the retry interval awaits the row
  reading,         \* somebody else does: a metrics pass, the capacity check
  token            \* token[r] = the key that r presents

nodeRow == <<cached, inFlight, answer>>
loaders == <<loading, reading>>
keyVars == <<key, nodeRow, commandKeyHash, cooldown, loaders, token>>

KeyTypeOK ==
  /\ key \in 0..MaxKey /\ answer \in 0..MaxKey /\ commandKeyHash \in 0..MaxKey
  /\ cached \in 0..MaxKey \cup {None}
  /\ inFlight \in {"none", "sent", "answered"}
  /\ cooldown \in BOOLEAN /\ loading \in BOOLEAN /\ reading \in BOOLEAN
  /\ token \in [Requests -> 0..MaxKey]

KeyInit ==
  /\ key \in 0..MaxKey /\ answer = 0 /\ commandKeyHash = 0
  /\ cached = None /\ inFlight = "none"
  /\ cooldown = FALSE /\ loading = FALSE /\ reading = FALSE
  /\ token = [r \in Requests |-> 0]

-------------------------------------------------------------------------------
\* rest-api gives the node a key, or another one.
RotateKey ==
  /\ key < MaxKey /\ key' = key + 1
  /\ UNCHANGED <<pc, nodeRow, commandKeyHash, cooldown, loaders, token>>

\* Join the GET in flight, or send one.
fetchNode ==
  /\ inFlight' = IF inFlight = "none" THEN "sent" ELSE inFlight
  /\ UNCHANGED <<cached, answer>>

\* Boot, and every tick of the retry interval while there is no hash.
retryCommandKeyLoadIfMissing ==
  /\ commandKeyHash = 0 /\ ~loading /\ loading' = TRUE
  /\ fetchNode
  /\ UNCHANGED <<pc, key, commandKeyHash, cooldown, reading, token>>

\* getCachedNode once the row is too old (or there is none) and the last failure is
\* long enough ago; refreshNode of the capacity and the node-token check in any case.
ReadNode ==
  /\ ~reading /\ reading' = TRUE
  /\ fetchNode
  /\ UNCHANGED <<pc, key, commandKeyHash, cooldown, loading, token>>

matches(k) == k = commandKeyHash /\ k # 0

\* Mutant: the row in memory satisfies the refresh of a mismatch.
verifyFromMemory(r) ==
  /\ pc[r] = "idle"
  /\ \E k \in 0..key :
       /\ token' = [token EXCEPT ![r] = k]
       /\ \/ matches(k) /\ Goto(r, "lookup") /\ UNCHANGED nodeRow
          \/ ~matches(k) /\ (cooldown \/ cached # None) /\ Goto(r, "refused") /\ UNCHANGED nodeRow
          \/ ~matches(k) /\ ~cooldown /\ cached = None /\ Goto(r, "verifying") /\ fetchNode
  /\ UNCHANGED <<key, commandKeyHash, cooldown, loaders>>

\* commandAuthMiddleware and verifyCommandKey, up to the await.  A caller presents
\* a key that is or was valid, or a wrong one.
verifyCommandKey(r) ==
  /\ pc[r] = "idle"
  /\ \E k \in 0..key :
       /\ token' = [token EXCEPT ![r] = k]
       /\ \/ matches(k) /\ Goto(r, "lookup") /\ UNCHANGED nodeRow
          \/ ~matches(k) /\ cooldown /\ Goto(r, "refused") /\ UNCHANGED nodeRow
          \/ ~matches(k) /\ ~cooldown /\ Goto(r, "verifying") /\ fetchNode
  /\ UNCHANGED <<key, commandKeyHash, cooldown, loaders>>

\* rest-api answers; the reply is on its way, and can still be joined.
AnswerNode ==
  /\ inFlight = "sent"
  /\ inFlight' = "answered" /\ answer' = key
  /\ UNCHANGED <<pc, key, cached, commandKeyHash, cooldown, loaders, token>>

\* Who awaits the row on behalf of the key.
Loaders == {r \in Requests : pc[r] = "verifying"}
KeyAwaited == loading \/ Loaders # {}

\* The second match of verifyCommandKey.
Verdict(k, hash) == IF k = hash /\ hash # 0 THEN "lookup" ELSE "refused"

\* Every caller that awaits the row goes on.
Settle(hash) ==
  /\ pc' = [r \in Requests |-> IF r \in Loaders THEN Verdict(token[r], hash) ELSE pc[r]]
  /\ loading' = FALSE /\ reading' = FALSE
  /\ inFlight' = "none"
  /\ UNCHANGED <<key, answer, token>>

\* The row is stored; loadCommandKeyHash takes the hash from it and notes the time.
StoreNode ==
  /\ inFlight = "answered"
  /\ cached' = answer
  /\ \/ KeyAwaited /\ commandKeyHash' = answer /\ cooldown' = TRUE
     \/ ~KeyAwaited /\ UNCHANGED <<commandKeyHash, cooldown>>
  /\ Settle(commandKeyHash')

\* Mutant: a failed load leaves no hash.
RejectNodeForgets ==
  /\ inFlight = "sent" /\ Fault("node")
  /\ commandKeyHash' = IF KeyAwaited THEN 0 ELSE commandKeyHash
  /\ Settle(commandKeyHash')
  /\ UNCHANGED <<cached, cooldown>>

\* A failed load keeps the hash, and the time of the last fetch.
RejectNode ==
  /\ inFlight = "sent" /\ Fault("node")
  /\ Settle(commandKeyHash)
  /\ UNCHANGED <<cached, commandKeyHash, cooldown>>

EndCooldown ==
  /\ cooldown /\ cooldown' = FALSE
  /\ UNCHANGED <<pc, key, nodeRow, commandKeyHash, loaders, token>>

KeyNext ==
  \/ RotateKey \/ retryCommandKeyLoadIfMissing \/ ReadNode
  \/ \E r \in Requests : verifyCommandKey(r)
  \/ AnswerNode \/ StoreNode \/ RejectNode \/ EndCooldown

-------------------------------------------------------------------------------
\* A reply on its way is not older than the hash.
RepliesInOrder ==
  /\ commandKeyHash <= key
  /\ inFlight = "answered" => commandKeyHash <= answer /\ answer <= key

\* A hash once replaced never comes back, and none is given up, whoever fetches and
\* however replies, failures and rotations interleave: an old key stays refused.
KeyNeverGoesBack == [][commandKeyHash' >= commandKeyHash]_keyVars
===============================================================================
