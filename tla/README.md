# Verification of obs-instance-manager

obs-instance-manager runs on one GPU node. It creates, starts, stops and deletes
OBS instances (one Docker container each) on behalf of their owners, keeps their
rows in rest-api truthful, moves their configuration between S3 and the local
disk, and proxies and controls the running OBS. This directory holds TLA+ modules
that model it, TLC configurations that check them, and TLAPS proofs.

Paths below are relative to `src/src/` of the repository unless they start with `src/`.

## 1. Inventory

Everything runs in one Bun process: one thread, one event loop. Concurrency is
between asynchronous functions, which interleave at every `await`, and with the
outside: rest-api (the rows), the Docker daemon, S3, OBS, gpu-xserver, browsers.
All state but the rows, the containers, the directories and S3 is lost in a crash.

| component | code | state | operations |
|---|---|---|---|
| per-instance lock | `utils/instance-lock.ts` | `locks`: instance id -> tail promise | `withInstanceLock`, `isInstanceLocked` |
| instance lifecycle | `services/instances/*` | none of its own: row, container, directory, S3 prefix | `createInstance`, `restartInstance`, `stopInstance`, `destroyInstance`, `sweepUnentitledInstances` |
| Docker supervision | `services/docker/event-listener.ts`, `reconcile.ts` | the event stream | die events, start events, boot-time reconciliation |
| gpu-xserver recovery | `services/docker/gpu-recovery.ts` | `gpuXserverDownSince`, `pendingGpuRecovery` | correlate a crash, resume after the grace period |
| Docker client | `clients/docker.ts` | `apiStoppingContainers` | create, start, stop, remove, find, inspect |
| rest-api client | `clients/streamwizard-api/*` | none | reads, the four row writes, broadcasts |
| caches | `services/cache/*` | instance list, passwords, node row; fetches in flight | cached read, live read, invalidate, forget |
| config storage | `services/storage/*` | local directory, S3 prefix, manifests, autosave timer | pull, push, final push, autosave, media |
| OBS control | `services/obs/*` | sessions, sockets, reconnect timers | attach, detach, sync, batches of commands, output stats |
| authentication | `services/auth/*` | key hash, tickets, viewer sessions | verify, issue, redeem, expire |
| proxies | `services/proxy/*` | frame queues of WebSocket pairs | forward, close |
| metrics | `services/metrics/*` | last samples | sample, stream, persist |
| HTTP layer | `app.ts`, `routes/*`, `middleware/*` | rate-limit windows | routes |
| process | `index.ts`, `shutdown.ts` | none | boot order, drain |

How they interact:

- The **routes** read the row, check it, and call a lifecycle operation. What they
  read is older than the operation: stop and delete carry the container id read
  by the route into the lock's queue.
- **start, stop, delete, the push after a death, and every automatic restart** run
  under `withInstanceLock`. **create does not**, nor does the first half of the
  die-event handler.
- **stop and delete** mark their container in `apiStoppingContainers`; the
  **die-event handler** skips marked containers, and otherwise PATCHes the row by
  container id, tells the browsers, and pushes the configuration under the lock.
- **boot**: `reconcileContainers`, then the event listener, the OBS watchers, the
  timers, the sweep, the server. A crash leaves what was done so far.
- Every **row write** invalidates the list cache; delete also forgets the passwords.

What is hard here: operations queued on a row they read earlier; two independent
sources of truth (row and Docker) that each step updates one of; events that
arrive before or after the write that makes sense of them; partial failure in the
middle of a start; a crash between any two steps; single-flight fetches that
outlive an invalidation. PROJECT.json lists every such hazard at its line.

What makes each part correct, in short: one operation of an instance at a time
and in order (lock); no live OBS under a rewritten configuration, no container
nobody knows of, nothing left after a stop, no live instance marked "error", a
progress message always resolved (lifecycle); no death swallowed by mistake, row
and Docker in agreement after boot (supervision); no list older than a known
write, no password after a delete (caches); the user's own files never
overwritten by a template (config storage); one socket per instance and none
after detach, and batches of commands that stay whole (OBS control); old keys and
spent tickets refused for good, new keys accepted in the end, no socket for somebody
whose access is gone (authentication); frames in order and none lost while the far
end opens (proxies); an instance queued for resumption is resumed (gpu recovery).

## 2. Plan

Written in this order; all of it exists.

1. `FifoLock` (abstract), `InstanceLock` (refines it), `InstanceLockProofs`.
2. `InstanceLifecycle`: the whole life of one instance, composed of lifecycle,
   supervision, recovery, Docker and rest-api, with the lock as its abstract
   promise. `InstanceLifecycleProofs` (the lock), `InstanceLifecycleRowProofs` (row and
   Docker).
3. `InstanceCaches` (list and passwords), `InstanceCachesProofs`.
4. `SceneListener`: sessions, sockets and reconnect timers of `obs-event-listener.ts`,
   with the sync loop, Docker events and shutdown. `SceneListenerProofs`.
5. `ConfigSync`: pull, push, final push, autosave and the media routes at the level
   of files and manifests; `ConfigSyncHalfway` adds a pull and a removal that stop
   half-way. `ConfigSyncProofs`, `ConfigSyncFilesProofs`.
6. `NodeKey` (the command key on top of the node cache), `ObsCommand` (serialised
   batches, connect timeout), `ViewerSessions` on `WsRelay` (tickets, sessions, the two
   proxies), `GpuRecovery` (correlation window, grace timer, several instances), all on
   `HttpRequests` or beside it, and `Services`, which composes them. `ServicesProofs`.

The project keeps to a dozen runs: a later module gets one run for its safety
and liveness, and takes the place of a run that shows less.

What would come next: the event stream with its reconnects; the capacity check over
several rows.

## 3. Modules and code

### FifoLock, InstanceLock

`FifoLock` says what the mutex promises: calls enter in the order in which they
asked, one at a time per instance. `InstanceLock` is `withInstanceLock` itself:
`withInstanceLock(c, i)` is its synchronous part (read the stored tail, chain,
store the own tail), `Begin` the reaction that calls `fn`, `Settle` the end of
`fn`, `ReleaseTail` the two reactions that resolve the tail, `Cleanup` the
`finally` that drops the Map entry unless it has been replaced. `order` and
`clock` are history variables. `Abstract` maps it to `FifoLock`, fairness included:
that every queued call is served, whether those before it fail or not, is part of
the refinement.

### InstanceLifecycle

One instance of one node. The row is `status` and `cid`; `docker` gives the state
of every container that ever carried the instance's name; `dir` and `s3` say
whether there is a local directory and anything stored; `queue` is the lock
(its head holds it), `apiStopping` and `pendingGpuRecovery` are the sets of those
names, `shown` is the last lifecycle event, `dieEvents` the events under way.

An action is one awaited effect together with the synchronous code up to the
next await. `pc` names the effect an operation is about to make:

| prefix | function | actions |
|---|---|---|
| `c` | `createInstance` | `InsertInstance` ... `CreateErr` |
| `s` | `restartInstance` | `StartRead`, `StartEnter` (route), `RecoverRead` (gpu recovery), `StartFind` ... `StartErr` |
| `t` | `stopInstance` | `StopRead` (route), `SweepCheck`, `SweepRead` (sweep), `StopEnter` ... `StopOk` |
| `d` | `destroyInstance` | `DestroyRead` (route), `DestroyEnter` ... `DestroyRow` |
| `b` | `reconcileContainers` | `Reboot`, `ReconcileRead`, `ReconcileInspect`, `ReconcilePatch` |

`hpc[c]` is the same for the die-event handler of container `c`. `mine` is the
container an operation created, `snap` the container id it read (by the route,
by `findContainerByName`, or by the reconciliation).

Outside the manager, and marked external in the map: Docker ending a container
(`End`, `Die`), removing one while the manager is down (`Vanish`), and the death of
the manager (`Crash`). The daemon has one container of a name at a time, refuses
`docker stop` for a container that does not run, and kills on forced removal;
that is how `clients/docker.ts` and its callers use it.

The constant `Faults` says what can go wrong in a run; `Requests` says what is
asked for. Both matter, see section 4.

Abstractions: a broadcast is shown when it is sent (`postEvent` is not awaited, so
the network may reorder or drop broadcasts; nothing here depends on that).
Config pull, template, manifest and secrets in the directory are one Boolean.
Ids of containers are never reused. The passwords are refused without a row;
the cache between is `InstanceCaches`. The event listener is attached when the
reconciliation is over. Metrics, tracking and logging are left out.

### InstanceCaches

The list of `instance-cache.ts` (`cached`, `fresh` for the TTL, `backoff` for the
error backoff, the shared fetch `inFlight`), the passwords of one instance of
`instance-secrets-cache.ts` (`secrets`, `pending` for the request that the Map
regards as in flight), and the four mutations of
`clients/streamwizard-api/instances.ts` in the three steps of a request. A list is
the version of the rows that rest-api read for it. `asked`, `got` and `overlap` are
history variables.

### ConfigSync, ConfigSyncHalfway

The files of one instance. `disk`, `s3` and `man` (`.sync-manifest.json`) are
functions on the file names, `job` is the operation that holds the instance lock
and `phase` the await it is at; `todo`, `fresh`, `hashed`, `mem`, `failed` and
`tries` are its local variables. OBS writes between any two awaits. A file is its
content; size and mtime are the stamp of a manifest entry, which is either that
of the file as it is or an old one. `want` is what the user last made of each
file, `untracked` the keys whose upload no manifest learned of (both history).

| code | actions |
|---|---|
| `push.ts`, `sync.ts` | `Autosave`, `FinalPush`, `RetryPush`, `KeepEntry`, `HashFile`, `UploadFile`, `UploadFails`, `FileGone`, `EndConfig`, `EndMedia`, `SaveManifest`, `removeLocalConfig` |
| `pull.ts` | `pullObsConfig`, `applyTemplateProfile`, `Download`, `PullOverlay`, `pullObsMedia`, `EndPull`, `StartContainer`, `StartFails` |
| `media.ts`, `media-sync.ts` | `uploadFile`, `renameFile`, `deleteFile`, `pushObsMediaFile`, `CopyKey`, `DropOldKey`, `deleteObsMediaFile`, `RecordMedia` |
| OBS, outside | `WriteFile`, `MoveAside`, `RemoveFile`, `StopContainer` |

`mapLimit` deals with the files of `todo` in any order; that up to eight run at once
shows in `HashFile` and `UploadFile`, which interleave file by file. Files are
apart from each other in S3 and on the disk, so two uploads need no common step.

Assumed: OBS writes only files of the configuration, and is not cut off in the
middle of a save; two versions of a file differ in size or mtime. The phases of
the lifecycle that call these operations, and the lock, are `InstanceLifecycle`;
here OBS is up or down. `ConfigSyncHalfway` adds downloads that fail or are cut
off by a crash, downloads that go on after their pull has failed (`utils/concurrency.ts`
lets them), and a removal of the directory that stops half-way.

### SceneListener

The session of one instance: `attached` says whether it is in the map `sessions`,
`obs`, `timer` and `last` are its fields. A call of `connect` is an attempt; `att[a]`
is the await it is at, and `sock[a]` its OBSWebSocket as the manager sees it
("dying": it will be told of the end). Sessions that were detached live on only in
the attempts that will find their `closing` flag; those are the set `closing`.

| code | actions |
|---|---|
| `connect` | `GotPassword`, `NoPassword`, `FailSecrets`, `ConnectTimeout`, `ConnectRejected`, `Connected`, `SeedFails`, `Deliver` |
| `scheduleRetry` and its timer | `SocketCloses` and the failures above, `FireTimer` |
| `handleObsSceneWatchEvent` | `HandleDie`, `HandleStart`, `FinishLookup` |
| `syncInstances` | `syncInstances`, `SyncRead`, `SyncFails`, `SyncDetach`, `SyncAttach` |
| `shutdown` | `Shutdown` |

Outside: the container and its row, OBS with its program scene and its messages,
and obs-websocket-js. Of that library the model assumes that a socket that ends
emits ConnectionClosed to its listeners and rejects a pending `connect` before the
retry timer (2 s or more) fires, that messages arrive in order, and that none
arrives after `disconnect`. Without the second, a timer armed by the event and the
late rejection could make two sockets. Two syncs do not overlap: one takes far
less than its interval of 60 s. `attempts` (the back-off) and the output
statistics are left out. The grace period of the drain goes on for ever.

### NodeKey, ObsCommand

`HttpRequests` has what the remaining modules share: request slots (`Requests`), the
await each request has got to (`pc`), and the faults.

`NodeKey` is `command-key.ts` with the fetch of `node-cache.ts` that it shares with the
metrics and the capacity check. Keys are numbered as they are rotated. `verifyCommandKey(r)`
is the synchronous part (match, cooldown, join or send the GET), `AnswerNode` the moment
rest-api reads its row, `StoreNode` and `RejectNode` everything that goes on when the reply
is there: the row is stored, the hash taken from it, and all who waited match their token
again (`Verdict`). `cooldown` is `MISMATCH_REFRESH_COOLDOWN_MS` since the last successful
fetch. How old a row may be served (`getCachedNode`) is data: `ReadNode` asks or does not.

`ObsCommand` is `POST /obs/instances/:id/command` after its token: `LookUpInstance`,
`ReadPassword` (which ends in `serialize`), `Connect` against its timeout, `Call` by `Call`,
`EndBatch`, `Disconnect`. `line` is the promise chain, `late` the connects that lost the race
against the timeout, `orphans` the sockets such a connect leaves. `CallHangs` is the connection
that drops with a call pending, or the OBS that never answers: the call has no timeout, and
obs-websocket-js 5 settles no pending call on close (how the library behaves is taken as known,
it is not in the repository), so the task never ends and the line is `Wedged` from then on. While
a batch is under way a call is always pending, for between two of them only microtasks run: a
drop never makes "the rest reject". `GiveUp` is the caller that waits for nothing. The body of a
command, scene lookups and the mapping of errors are left out; a rejected call is an outcome of
the batch and does not end it.

### WsRelay, ViewerSessions

`WsRelay` is the pair of sockets of `ws-proxy.ts`, which `selkies-proxy.ts` repeats: `Dial`,
`OnMessage`, `UpstreamOpens` (flush), `UpstreamCloses`, `UpstreamTimesOut`, `HangUp`. Frames are
numbered as the rate limiter lets them through.

`ViewerSessions` has the tickets (`issueTicket`, `consumeTicket`, expiry and sweep), the
sessions (`isLive`, the grace period in `lapsed`, the 12 h cap in `capped`, the sweep), and the
requests that use them:

| code | actions |
|---|---|
| `sessionFor` of `selkies-proxy.ts` | `UseSession`, `FirstUse`, `StartSession`, `StartFails`, `RecheckOwner` |
| the rest of `selkies-proxy.ts` | `Authorize`, `OnOpen`, `OnClose` |
| `ws-proxy.ts` | `proxyRoute`, `ProxyOpens`, `ProxyCloses` |
| rest-api | `Revoke` |

Requests that come while a first use of their ticket is in flight join it. `asOwner` says
which requests came while the user was entitled, or joined such a first use: rest-api's
answer may be as old as the request for it.

### GpuRecovery

`gpu-recovery.ts` over several instances. `correlated` is `gpuXserverDownSince` within its
window, `life` the status of the rows, `answered` the die-event handlers between the PATCH
and `queueIfGpuCorrelated`, `pending` the Map. The `n`-th return of gpu-xserver arms the timer of
pass `n`; `pass`, `left` and `turn` are where it is, so that two passes may overlap. The restart
itself is `InstanceLifecycle`'s (`RecoverRead` and on).

### Services

The composition. The switcher (`NodeKey`, then `ObsCommand`), the browsers (`ViewerSessions`)
and the recovery (`GpuRecovery`) share no state but the request slots: each sees rest-api as
reads that answer or fail. A behaviour therefore has `traffic` of one kind, and TLC explores
the sum of the three and not their product; an interleaving of two kinds is, projected to
each, a behaviour of that kind. `Free` answers a request and hands its slot to the next.

## 4. Runs

| run | what it shows | bounds |
|---|---|---|
| `InstanceLock` | mutual exclusion in order, truthful `isInstanceLocked`, refinement of `FifoLock` with its fairness (every call served though any may fail) | 3 calls, 2 instances |
| `LifecycleMutex` | start, recovery, stop, sweep, delete against each other and against deaths: exact suppression, no rewrite under a live OBS, stop means stopped, no live instance marked error, no orphan, final push only when stopped, the row lets go of the dead only; the lock's queue is exact; the invariants behind the proofs (`LifecycleInv`) | 2 operations, 3 containers, all faults but Docker and crash |
| `LifecycleCrash` | creates, starts, recoveries, stops and deletes, refused or failing, with a crash at any point: progress is resolved, no row stays "creating", row and container agree after a reboot | 3 operations, 3 containers, 1 crash, S3, stream and key faults |
| `LifecycleLive` | every request ends (for which the lock must be released), a crashed manager comes up | 2 operations, 2 containers, Docker faults, 1 crash |
| `InstanceCaches` | staleness needs an overlap and is repaired; forgotten passwords stay forgotten | 1 reader, 2 writes, 1 request, 2 versions, all faults |
| `ConfigSync` | the user's last version is on the disk or in S3 whatever fails; deleted files do not come back; OBS starts with the user's own files and the plan's profile; the invariant behind the proofs | 1 config file, of the template too, 2 media files, 2 contents, 2 attempts, failing uploads and deletions, crashes |
| `SceneListener` | one socket with listeners, none left behind, no session that waits for nothing, the scene shown is on air | 2 attempts, 2 scenes, 1 event, 2 messages, all faults |
| `SceneListenerLive` | running instances are watched, stopped ones forgotten | 2 attempts, 1 scene, no drain |
| `Services` | keys never go back and arrive; batches whole, and answered unless OBS leaves a call without an answer; sessions dropped only when idle and dead for good, their open sockets counted right (in `ServicesInv`), no socket after a revocation; frames whole; queued instances resumed; the invariant behind the proofs | 2 requests, 2 rotations, 2 commands, 1 orphan, 1 ticket, 2 frames, 2 instances, 2 outages, all faults |
| `DeleteQueuedBehindStart` | violation: `NoRowNoContainer` | no faults |
| `CreateRacesStart` | violation: `CreateNeverMarksLiveError` | no faults |
| `PullStopsHalfway` | violation: `NoLostEdit` | 1 file, a pull that fails |

Why the bounds suffice: an instance has one lock and one row, and the hazards of
the list are pairs (an operation against another one, or against a death, an
event or a crash); two request slots with three containers give every pair its
old and its new container, and every death a handler. A third request only
queues. The one place where a third actor matters, two creates or starts that
fail one after the other, is `LifecycleCrash`, which has three. Containers that a bound
leaves out make `CreateContainer` fail for want of an id only when all are used up; that
is one more way to fail in `LifecycleCrash` (three operations that all create, on top of a
container that was there) and `LifecycleLive`, and does not happen in `LifecycleMutex`.
Request slots and container ids are interchangeable, hence the symmetry in the safety
runs. Faults that a lifecycle run leaves out are in another one (rest-api and disk in
`LifecycleMutex`, Docker in `LifecycleLive`), but for the exceptions below.

In `ConfigSync` files meet only in a media operation, which has two, and in the
order of the sections, one of each kind; two contents tell the user's version
from the template's. A file that the template has not got is a media file but for
the hash, and the proofs hold for any files. Two attempts of the final push are enough
to see one retried.

In `SceneListener` an attempt is used again when it is over: two at once are one of
the session and one of a session detached meanwhile; the proofs hold for any number.

In `Services` two requests are what every hazard of it takes: two that present keys
while a third key arrives, two batches in line, a first use and one that joins it, two
sockets of one session, with slots that serve any number of requests one after the
other. Tickets meet nowhere, so one suffices, and the two kinds of ticket are both
initial states. Two rotations give a reply between them; two outages give a pass under way
when the second one queues; a third outage would only repeat the second. One orphan
shows that it is possible, and it touches nothing else.

A run states the type invariant only through the invariant of its proofs, whose first
conjunct it is; `InstanceLock` and
`InstanceCaches` have theirs proved and do not run them. What a run no
longer states is implied by what it does: that a call of the lock is served by
`ImplementsFifoLock`, that the lock is released by `EveryRequestEnds`, that no session
waits for nothing (`NeverStuck`) by `IInv` of `SceneListener`.

Deadlock checking is off in the runs of the lock, the lifecycle and the caches: with
every request served there is nothing left to do. It is on for `ConfigSync`,
`SceneListener` and `Services`.

### Why some runs leave out requests or faults

The properties are stated for what the code guards against. These exceptions were
each found by TLC while the model was written. The ones with a run are the
findings of PROJECT.json:

- a delete queued behind a start uses the container id of before (`DeleteQueuedBehindStart`);
- a create has no lock, so a start of its row in "creating" may remove its
  container or take the name (`CreateRacesStart`); after that a container can run
  unknown to the row, or the row can name a dead one;
- a pull that fails in a download leaves files of the template without a manifest,
  its callers start OBS on them, and the next push stores them over the user's own
  (`PullStopsHalfway`).

Without a run of their own:

- a container dead before `docker stop`, whose event arrives while it is marked, is
  reported by nobody: if the stop then fails, the row stays "running";
- a list fetch that was under way during a write puts the list from before it back
  into the cache, where it counts as fresh until it is next refreshed;
- a start whose disk writes, or whose removal of the old container, fail after the
  "starting" broadcast ends without a word, so `NoDanglingProgress` is checked without
  disk and Docker faults (nor with rest faults, which may fail a later PATCH);
- a stop whose last PATCH fails leaves the row running with the id of a container
  that is gone; `StopMeansStopped` is about the stops that report success;
- a delete during a create makes the PATCH in the create's catch block fail with
  404, so its clean-up is not reached and the container stays;
- a container that dies between `docker start` and the PATCH is written to the row
  as running afterwards;
- a crash in the middle of a create leaves the row in "creating", for the
  reconciliation skips rows without container id;
- an auto-resume refused at boot for want of the stream key leaves the row running with
  the id of a lost container, though the log says "marked error" (`BootRepairs` therefore
  exempts a boot whose restart was refused the key, and is checked without rest-api and
  Docker faults);
- a second stop of a stopped instance broadcasts "stopping" and returns early
  (`stop-instance.ts:23-25`): nothing follows it (`NoDanglingProgress` is about "starting");
- the push after a death that waits behind a delete pushes what the delete left
  of the directory back to S3;
- a stop whose push failed keeps the directory and clears the id, so a later
  delete does not remove the directory.

Of the services:

- a connect that answers after its timeout leaves a socket that nobody disconnects, and
  may still be in its handshake when the next batch connects, against what
  `obs-command.ts:42-43` says of one connection at a time; the batches themselves stay whole;
- `obs.call` has no timeout (`obs-command.ts:112`), and a call that is pending when the connection
  drops, or that OBS leaves unanswered, never settles: the loop stops, the `finally` block (`:120`)
  is not reached, and since the next task waits for this one (`:47-49`) no later command of the
  instance is executed until the manager restarts, though `:42-44` has later calls run whatever
  becomes of the earlier one. `EndsUnlessHung` exempts it, and holds for refused and late connects;
- a revocation closes no open socket, API calls under a live session do not ask for the
  owner again, and the 12 h cap closes no open socket either: `RevokedGetsNoSocket` is about
  requests that come later. The obs-websocket route of the admins (`routes/admin.ts:36`) asks for
  the row and not the role once the ticket is minted, so the property is about the routes of
  users;
- the return of gpu-xserver clears `gpuXserverDownSince` at once, so an instance whose crash is
  reported, or whose PATCH is answered, after a quick restart is not queued although it crashed
  within the window that `gpu-recovery.ts:14-17` describes; `QueuedIsResumed` is about those that are;
- the timer of an earlier return fires though gpu-xserver is down again, and resumes
  instances that cannot render yet (against `gpu-recovery.ts:33-36`);
- a row lookup that throws (`gpu-recovery.ts:88` is outside the `try`) loses the rest of its pass;
  `QueuedIsResumed` exempts it;
- queue and timer of the recovery are in memory and hang on one event: a start event of
  gpu-xserver that is lost while the stream reconnects, or a crash of the manager in the grace
  period, leaves the queued instances as they are. `GpuStarts` is the start and its event in one
  step, and `GpuRecovery` has no crash, so `QueuedIsResumed` says nothing of the two;
- `metrics-stream.ts:83-89` sends a keepalive when its timer of 8 s finds 8 s of silence, so up to
  twice that may pass between two, and the client's watchdog (`:13-14`) waits 10 s. Read, not
  modelled.

And of `ConfigSync`, each under the name that `Faults` or `Halfway` has for it:

- "unpushed": the rename of a media file whose last upload failed copies the key of
  the version before and records it for the file as it is (`media-sync.ts:39-49`);
- "refused": the rename does not look at what `deleteKeys` answers, so an old key S3
  refused to delete is forgotten, and the file is back after the next start;
- "revert": a file that OBS changes after its hash was taken, and changes back, is
  skipped as unchanged though S3 has the version between;
- "behind": an upload that waits for the lock behind a stop makes the directory
  anew (`media.ts:9-11`) in which the next start finds only that file;
- "late" and "remove": a download that outlives its failed pull writes over what OBS
  has written since; a removal cut off leaves a manifest without files, whose keys
  the next push of the leftover directory deletes.

## 5. Fairness

`InstanceLock`: due promise reactions run (the event loop), and `fn` settles.
`InstanceLifecycle`: a step of an operation that has begun is taken in the end
(`Continue`), so are the steps of a handler whose event has arrived, the restart
of a dead manager (compose restart policy) and the reconciliation. No request has
to come, nothing has to die, nothing has to succeed. rest-api requests end after
15 s (`clients/streamwizard-api/client.ts`); the Docker socket and S3 clients have no
timeout of their own here, so that a call ends, if only by an error, is an
assumption about them. `InstanceCaches`: the 60 s sync fires, requests are answered
or fail, replies are handled, and rest-api answers infinitely often if asked
infinitely often (strong fairness of `AnswerFetch`); without the last nothing
could repair the list.

`SceneListener`: timers fire, the stream is read, awaits that are due come back, the
sync runs every 60 s; strong fairness says that of lookups, lists and connects that
are tried again and again one succeeds (`GotPassword`, `SyncRead`, `Land`). Nothing is
assumed of events, which may all be lost: the sync alone carries both properties.

`Services`: awaits end. A connect does by its own timeout, a disconnect by the closing of the
socket. Of a call nothing is assumed but that OBS answers it or never will: `CallHangs` is one of
the steps the fairness of `Command(r)` is about. A caller that gets no answer hangs up in the end
(`GiveUp`), which frees its slot for other requests and nothing else. The cooldown passes. Strong
fairness says that reads of the row which the key waits for do not fail for ever, and that a
switcher which presents keys again and again presents the one it was given: nothing else makes
the manager look for a new key once it has one, and `RotationArrives` needs both. gpu-xserver is
started again (`restart: unless-stopped` in `src/docker-compose.yml`), and a pass goes on:
lookups and restarts end. Nothing is assumed of keys, requests, tickets, crashes and outages.

## 6. Proofs

All for any number of calls, requests, containers, crashes, readers and writes,
and any set of faults, from the named assumptions on the constants alone.

- `InstanceLockProofs`: `MutualExclusionInOrder`, `LockedIsTruthful`, and `Refinement`
  (the promise chain implements `FifoLock`, safety). The invariant: a call waits
  for the tail of its immediate predecessor, and everything before that
  predecessor has been released or is not younger than it (`ChainedOnPredecessor`);
  the Map holds the tail of the last call or nothing (`TailIsLast`). `ServedInOrder`
  alone is not inductive: it says nothing about whom a queued call waits for.
- `InstanceLifecycleProofs`: `Invariance` of `IInv`, `SuppressionIsExact`, and
  `NoRewriteUnderLiveObs`. The argument: whoever is past its wait is at the head of
  the queue (`HoldersAreHeads`), so at most one operation is in its critical
  section; what it has marked nobody else unmarks, and, as long as no create runs
  beside the lock, what it has seen in Docker stays (`ColdStart`). The assumption
  `"create" \notin Requests` of the last theorem is needed: the exception above.
- `InstanceLifecycleRowProofs`: a second invariant, `RowInv`, on top of the first, about
  what the row, Docker and the broadcasts say of each other (`RowInvariance`). It is
  proved without hypotheses; each of its parts names the requests and faults that
  it does not survive, and each theorem has those of the parts it rests on:

  | theorem | property | left out |
  |---|---|---|
  | `StoppedMeansStopped` | `StopMeansStopped` | creates; Docker refusing |
  | `LiveIsNotError` | `NeverMarkLiveError` | creates; Docker refusing |
  | `PushOfTheStopped` | `FinalPushOnlyWhenStopped` | creates; Docker refusing |
  | `NoneRunsUnnamed` | `NoOrphan` | creates; Docker refusing; crashes |
  | `RowNamesWhatRuns` | `LetsGoOfTheDead` | creates |
  | `LoneCreate` | `CreateNeverMarksLiveError` | starts, recoveries |
  | `ProgressEnds` | `NoDanglingProgress` | rest-api, Docker and disk failing |
  | `CreatingEnds` | `CreatingIsTransient` | rest-api failing |
  | `RebootRepairs` | `BootRepairs` | rest-api, Docker and disk failing, deaths during the reconciliation |

  Deaths of containers at any moment, late events, crashes, refused keys and failing
  uploads stay in all of them that do not name them. None of what is left out can be
  put back: with any one entry of the last column allowed, TLC finds a
  counterexample. A create takes no lock (section 4); a `docker stop` or a removal that
  Docker refuses is logged, and the operation goes on (`stop-instance.ts`, the clean-up of
  `instance-lifecycle.ts`); a crash between `docker start` and its PATCH leaves a
  container without a name in the row; a failing rest-api, Docker or disk throws past
  the catch block that would have told the clients.

  The argument. Docker has one container of the name (`OneContainer`), and one
  operation created it (`OwnContainers`); a container that has ended stays ended
  (`DeadStayDead`). So what an operation has seen of it stays true, in one direction, to
  the end of its critical section: a stop's container is gone (`StopTakesAll`), a start's
  second look leaves nothing but the container it adopts (`LookedTwice`), a stale
  container is there to be removed (`StaleIsThere`), and the reconciliation, which is
  alone (`BootAlone`), knows what it will write (`BootKnows`). What `NoOrphan` lacks is who is
  about to name a running container: the row does, or the start that created it will
  (`Attributed`). The push after a death needs, besides, that its row names no container
  (`PushAfterDeath`). "Starting" has a start or a create that has still something to say
  (`StartIsAnswered`), "creating" a create that has not yet written
  (`CreatingIsOwned`), and a create beside no start has all of Docker to itself
  (`OnlyCreate`, which needs that ids of rows are fresh).

  `QueueIsExact`, without hypotheses: the lock's queue has exactly the operations and
  handlers that wait or work, each once (`QueueExact`). So every early return, throw
  and refusal gives the lock back, no operation waits behind one that is over or behind
  itself: the part of `EveryRequestEnds` that is not liveness. It rests on both invariants: who leaves is the head
  (`HoldersAreHeads`), the reconciliation restarts alone (`BootAlone`), and a container dies
  once (`DeadStayDead`), so that its handler is not in the queue when it joins. The three
  together are `LifecycleInv`, which `LifecycleInvariance` states.
- `InstanceCachesProofs`: `ReadersSeeWrites` and `NoPasswordsAfterDelete`. rest-api
  reads the newest rows, so a reply is current when it is made, and stays so
  unless a write overlaps it (`ListsAreCurrent`); the request that may store its
  passwords was sent after the delete (`DeletedIsGone`).
- `SceneListenerProofs`: `OneWatchingSocket`, `NothingLeftBehind`, `ShownIsOnAir`. The
  socket, the retry timer and an attempt that waits for the password exclude each
  other and one of them is there (`OneSocket`, `OneAttempt`, `NeverStuck`); the scene
  seen last goes with its connection, and messages keep their order (`LastIsNewest`).
- `ConfigSyncProofs`: `Typed`, and `PlanOwnsProfile` (`ProfileIsPlanOwned`) for all of
  `Mishaps`. A start is the end of a pull, and a pull past its template has put the
  plan's profile in place (`ProfileReset`); that only a pull is at those phases, with
  OBS down, is `PhaseOfJob`, which needs that OBS runs only on a directory that is
  there (`NothingWithoutDir`).
- `ConfigSyncFilesProofs`: `EditsSurvive` (`NoLostEdit`), `DeletedForGood`
  (`DeletedStaysAway`), `OwnFiles` (`StartsWithOwnFiles`) and `Invariance` of `IInv`. The
  assumptions `Spared` and `NoStrayKeys` name the mishaps of section 4 that each does
  not survive; failing uploads and deletions and crashes are among those it does.
  None of the three is inductive: whether a removal loses anything depends on what
  the push before it passed over (`PushedSoFar`), and that on what the manifest said,
  so entries with the stamp or the hash of a file must be true (`TrueEntry`) all
  through a push that OBS interferes with. The end of a pull depends on the layers
  before (`PulledSoFar`), a deletion on every key being known to the manifest of the
  operation at hand (`KeyKnown`). Each is stated of one file, and each step lemma
  says what an action does to one.

- `ServicesProofs`: `Invariance` of `IInv`, `KeysInOrder` (`KeyNeverGoesBack`), `BatchesStayWhole`
  (`BatchesDontInterleave`), `DeadSessions` (`DeadForGood`), `RevokedStayOut` (`RevokedGetsNoSocket`),
  `SocketsCounted` (`ServicesInv`), `SocketsHold` (`DroppedOnlyIdle`) and `FramesStayWhole`
  (`FramesWhole`). Each part of `IInv` is what its property lacks: a reply
  on its way is not older than the hash (`RepliesInOrder`); who is past its wait heads the line,
  and only it has answers from OBS (`OneInLine`); a token with a session has spent its ticket
  and one request at most spends it (`SpentOnce`), so that a dropped session has nothing to
  come back from; on the way to a socket there are requests of the owner only (`OnlyOwners`).
  That a session is not dropped under a socket needs that `openSockets` is the number of sockets there are (`CountExact`), and that nobody
  is on the way to a socket before the session begins, which sets the count to zero
  (`AfterSession`); the `Math.max(0, ...)` of `socketClosed` is therefore never needed.
  The frame lemmas say what the steps of one part leave alone, so a step of a part is
  looked at with its own conjuncts only.

Every invariant and action property of the passing runs is proved; `CreateNeverMarksLiveError`,
which `CreateRacesStart` refutes, is proved for requests without starts (`LoneCreate`). Only model-checked,
because liveness under fairness is out of the prover's reach: `EveryRequestEnds`, `BootEnds`,
`StaleListIsReplaced`, `RunningIsWatched`, `StoppedIsForgotten`, `RotationArrives`,
`EndsUnlessHung`, `QueuedIsResumed`, and the fairness part of the refinement of `FifoLock`.

## 7. Not modelled

Of config storage, the quotas, the mirror of the plugins and the secrets injected into the
profile are left out; they neither read nor write the state of the sync. Of Docker supervision, a
stream that is attached again or twice; the boot loop over several instances. Of the
lifecycle, the capacity check before a create, which counts the rows of several
instances. Of authentication, the signatures of node tokens. Of the proxies, headers, static
files and the readiness page, which keep no state, and the rate limiter, whose dropped frames
leave no trace. The admin routes call the operations that the routes of users call.

Left out for good: container specs, cpusets and GPU figures (data without control), metrics and
their persistence, request parsing and responses, template rendering, generated and vendored
code.
