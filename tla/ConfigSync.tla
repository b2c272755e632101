------------------------------ MODULE ConfigSync ------------------------------
(***************************************************************************)
(* The files of one instance between its local directory and S3            *)
(* (services/storage/obs-config/): the pull before a start, the push of    *)
(* autosave, of a stop and of a directory left behind, and the routes of   *)
(* the media folder (services/storage/media.ts).                           *)
(*                                                                         *)
(* The instance lock admits one of these operations at a time: it is job,  *)
(* and phase is the await it is at.  OBS writes at any of them.  A file is *)
(* its content; size and mtime are a stamp that no two versions of a file  *)
(* share, so an entry of the manifest only says whether it has the stamp   *)
(* of the file as it is now.  Files that the sync policy leaves out are    *)
(* left out, but for the profile, which belongs to the plan.               *)
(***************************************************************************)
EXTENDS Naturals

CONSTANTS
  Config, Media,  \* the names of files
  Data,           \* contents
  Template,       \* the files of Config that the plan's template has
  Plain,          \* and their content
  Nothing,
  PushAttempts,
  Faults          \* what may happen, a subset of Mishaps

\* put      an upload fails, perhaps after S3 has stored the file
\* delete   S3 refuses to delete keys, or the request fails
\* crash    the manager dies, though not in a download (ConfigSyncHalfway)
\* revert   OBS goes back to a content the manifest holds for stored by mistake
\* unpushed the user renames a file whose last upload did not reach S3
\* behind   an upload waits for the lock behind the stop that removes the directory
\* refused  S3 refuses to delete the old key of a renamed file
Mishaps == {"put", "delete", "crash", "revert", "unpushed", "behind", "refused"}

Files == Config \cup Media

ASSUME ConstantsOK ==
  /\ Config \cap Media = {} /\ Template \subseteq Config
  /\ Plain \in Data /\ Nothing \notin Data
  /\ PushAttempts \in Nat \ {0}
  /\ Faults \subseteq Mishaps

VARIABLES
  obs,       \* OBS is "up" or "down"
  dir,       \* the local directory is "there" or "gone"
  disk,      \* [Files -> content on disk, or Nothing]
  moving,    \* files OBS has moved aside in the course of saving them
  profile,   \* basic/profiles/: "none", "plan" or "edited"
  man,       \* [Files -> Entry], .sync-manifest.json
  s3,        \* [Files -> content under the instance's prefixes, or Nothing]
  job,       \* the operation that holds the lock
  phase,     \* the await it is at
  todo,      \* the files its mapLimit has yet to deal with
  fresh,     \* files unchanged since walkFiles looked at them
  hashed,    \* [Files -> content whose hash has been taken, or Nothing]
  mem,       \* [Files -> Entry], the manifest in its memory
  failed,    \* stats.failed, counted to 1
  tries,     \* attempts of persistAndRemoveLocalConfig
  target,    \* the files of a media operation: <<from, to>>
  want,      \* history: what the user last made of each file
  untracked  \* history: keys whose upload no manifest learned of

node == <<obs, dir, disk, moving, profile>>
stored == <<man, s3>>
work == <<job, phase, todo, fresh, hashed, mem, failed, tries, target>>
history == <<want, untracked>>
vars == <<node, stored, work, history>>

Entry == [stamp : {"same", "old"}, hash : Data \cup {Nothing},
          source : {"none", "template", "overlay"}]

NoEntry == [stamp |-> "old", hash |-> Nothing, source |-> "none"]

Tracked(e) == e.source # "none"

emptyManifest == [f \in Files |-> NoEntry]

Stamped(e, stamp) == [stamp |-> stamp, hash |-> e.hash, source |-> e.source]

\* The stamp that walkFiles took.
StampOf(f) == IF f \in fresh THEN "same" ELSE "old"

Blank == [f \in Files |-> Nothing]

Layers == {"template", "overlay", "media files"}

Jobs == {"none", "autosave", "final", "leftover", "pull", "upload", "rename", "delete"}

Phases ==
  {"idle", "config", "media", "save", "retry", "remove", "as is", "ready",
   "put", "copy", "drop", "unkey", "record", "template", "overlay", "media files"}

TypeOK ==
  /\ obs \in {"up", "down"} /\ dir \in {"there", "gone"} /\ failed \in 0..1
  /\ disk \in [Files -> Data \cup {Nothing}]
  /\ moving \subseteq Config
  /\ profile \in {"none", "plan", "edited"}
  /\ man \in [Files -> Entry] /\ mem \in [Files -> Entry]
  /\ s3 \in [Files -> Data \cup {Nothing}]
  /\ job \in Jobs /\ phase \in Phases
  /\ todo \subseteq Files /\ fresh \subseteq Files
  /\ hashed \in [Files -> Data \cup {Nothing}]
  /\ tries \in 0..PushAttempts
  /\ target \in (Media \cup {Nothing}) \X (Media \cup {Nothing})
  /\ want \in [Files -> Data \cup {Nothing}]
  /\ untracked \subseteq Files

Fault(m) == m \in Faults

NoTarget == <<Nothing, Nothing>>

\* An instance that was stopped properly.
Init ==
  /\ obs = "down" /\ dir = "gone" /\ disk = Blank /\ moving = {} /\ profile = "none"
  /\ man = emptyManifest
  /\ s3 \in [Files -> Data \cup {Nothing}]
  /\ job = "none" /\ phase = "idle" /\ todo = {} /\ fresh = {} /\ hashed = Blank
  /\ mem = emptyManifest /\ failed = 0 /\ tries = 0 /\ target = NoTarget
  /\ want = s3 /\ untracked = {}

\* The operation ends and gives the lock back.
Done ==
  /\ job' = "none" /\ phase' = "idle" /\ todo' = {} /\ fresh' = {} /\ hashed' = Blank
  /\ mem' = emptyManifest /\ failed' = 0 /\ tries' = 0 /\ target' = NoTarget

GoTo(p) == phase' = p /\ UNCHANGED <<job, todo, fresh, hashed, mem, failed, tries, target>>

\* Keys that S3 has and manifest m does not know of.
Unknown(m, keys) == {f \in Files : keys[f] # Nothing /\ m[f].source # "overlay"}

-------------------------------------------------------------------------------
(* OBS. *)

\* m no longer has the stamps of the files in F.
Touched(m, F) == [f \in Files |-> IF f \in F THEN Stamped(m[f], "old") ELSE m[f]]

\* The files in F get new stamps, or go.
Touch(F) ==
  /\ man' = Touched(man, F)
  /\ mem' = Touched(mem, F)
  /\ fresh' = fresh \ F
  /\ UNCHANGED <<job, phase, todo, hashed, failed, tries, target>>

\* Manifest m takes d for the content that S3 has, and it is not.
Misremembers(m, f, d) ==
  /\ m[f].hash = d
  /\ s3[f] # d
  /\ ~(m[f].source = "template" /\ s3[f] = Nothing)

\* OBS writes f, or ends saving it.  Contents may be the same as before.
WriteFile(f, d) ==
  /\ obs = "up"
  /\ Misremembers(man, f, d) \/ Misremembers(mem, f, d) => Fault("revert")
  /\ disk' = [disk EXCEPT ![f] = d]
  /\ want' = [want EXCEPT ![f] = d]
  /\ moving' = moving \ {f}
  /\ Touch({f})
  /\ UNCHANGED <<obs, dir, profile, s3, untracked>>

\* In the course of saving f the file is missing.
MoveAside(f) ==
  /\ obs = "up" /\ disk[f] # Nothing
  /\ disk' = [disk EXCEPT ![f] = Nothing]
  /\ moving' = moving \cup {f}
  /\ Touch({f})
  /\ UNCHANGED <<obs, dir, profile, s3, history>>

\* The user removes f, a scene collection say.
RemoveFile(f) ==
  /\ obs = "up" /\ disk[f] # Nothing
  /\ disk' = [disk EXCEPT ![f] = Nothing]
  /\ want' = [want EXCEPT ![f] = Nothing]
  /\ Touch({f})
  /\ UNCHANGED <<obs, dir, moving, profile, s3, untracked>>

\* By a stop or by a death.  OBS is not cut off in the middle of a save.
StopContainer ==
  /\ obs = "up" /\ moving = {}
  /\ obs' = "down"
  /\ UNCHANGED <<dir, disk, moving, profile, stored, work, history>>

-------------------------------------------------------------------------------
(* Push: one pass over both sections, in memory until the manifest is saved. *)

Present(F) == {f \in F : disk[f] # Nothing}

\* Files whose size or mtime is not the one in the manifest.
Changed(F, m) == {f \in Present(F) : ~(Tracked(m[f]) /\ m[f].stamp = "same")}

BeginPush(j, n) ==
  /\ job' = j /\ phase' = "config" /\ tries' = n
  /\ mem' = man
  /\ todo' = Changed(Config, man)
  /\ fresh' = Present(Config)
  /\ hashed' = Blank /\ failed' = 0
  /\ UNCHANGED target

Autosave ==
  /\ job = "none" /\ dir = "there"
  /\ BeginPush("autosave", 1)
  /\ UNCHANGED <<node, stored, history>>

FinalPush ==
  /\ job = "none" /\ dir = "there" /\ obs = "down"
  /\ BeginPush("final", 1)
  /\ UNCHANGED <<node, stored, history>>

RetryPush ==
  /\ phase = "retry"
  /\ BeginPush("final", tries + 1)
  /\ UNCHANGED <<node, stored, history>>

Finish(f) ==
  /\ todo' = todo \ {f} /\ fresh' = fresh \ {f}
  /\ hashed' = [hashed EXCEPT ![f] = Nothing]
  /\ UNCHANGED <<job, phase, tries, target>>

\* Only the stamp is new.
KeepEntry(f) ==
  /\ phase = "config" /\ f \in todo /\ hashed[f] = Nothing
  /\ disk[f] # Nothing /\ mem[f].hash = disk[f]
  /\ mem' = [mem EXCEPT ![f] = Stamped(mem[f], StampOf(f))]
  /\ Finish(f)
  /\ UNCHANGED <<node, stored, failed, history>>

HashFile(f) ==
  /\ phase = "config" /\ f \in todo /\ hashed[f] = Nothing
  /\ disk[f] # Nothing /\ mem[f].hash # disk[f]
  /\ hashed' = [hashed EXCEPT ![f] = disk[f]]
  /\ UNCHANGED <<node, stored, job, phase, todo, fresh, mem, failed, tries, target, history>>

\* Media is not hashed.
MayUpload(f) ==
  /\ f \in todo /\ disk[f] # Nothing
  /\ phase = "media" \/ (phase = "config" /\ hashed[f] # Nothing)

UploadFile(f) ==
  /\ MayUpload(f)
  /\ s3' = [s3 EXCEPT ![f] = disk[f]]
  /\ mem' = [mem EXCEPT ![f] = [stamp |-> StampOf(f), hash |-> hashed[f], source |-> "overlay"]]
  /\ Finish(f)
  /\ UNCHANGED <<node, man, failed, history>>

\* Mutant of UploadFails: the entry is written whether the upload succeeds or not.
UploadFailsRecorded(f) ==
  /\ Fault("put") /\ MayUpload(f)
  /\ mem' = [mem EXCEPT ![f] = [stamp |-> StampOf(f), hash |-> hashed[f], source |-> "overlay"]]
  /\ failed' = 1
  /\ Finish(f)
  /\ UNCHANGED <<node, stored, history>>

\* The entry stays as it was, though S3 may have the file.
UploadFails(f) ==
  /\ Fault("put") /\ MayUpload(f)
  /\ s3' \in {s3, [s3 EXCEPT ![f] = disk[f]]}
  /\ untracked' = untracked \cup (Unknown(mem, s3') \cap {f})
  /\ failed' = 1
  /\ Finish(f)
  /\ UNCHANGED <<node, man, mem, want>>

\* The file went between the walk and its turn.
FileGone(f) ==
  /\ phase \in {"config", "media"} /\ f \in todo /\ disk[f] = Nothing
  /\ failed' = 1
  /\ Finish(f)
  /\ UNCHANGED <<node, stored, mem, history>>

\* Mutant of DeleteGone: entries are dropped whether S3 deleted the keys or not.
DeleteGoneUntracked(F) ==
  LET gone == {f \in F : disk[f] = Nothing /\ mem[f].source = "overlay"}
      dropped == {f \in F : disk[f] = Nothing /\ mem[f].source = "template"}
  IN  \E refused \in SUBSET gone :
        /\ refused # {} => Fault("delete")
        /\ s3' = [f \in Files |-> IF f \in gone \ refused THEN Nothing ELSE s3[f]]
        /\ mem' = [f \in Files |-> IF f \in gone \cup dropped THEN NoEntry ELSE mem[f]]
        /\ failed' = IF refused = {} THEN failed ELSE 1

\* What is tracked and gone is deleted; a push that deletes has the files to itself.
DeleteGone(F) ==
  LET gone == {f \in F : disk[f] = Nothing /\ mem[f].source = "overlay"}
      dropped == {f \in F : disk[f] = Nothing /\ mem[f].source = "template"}
  IN  \E refused \in SUBSET gone : \E kept \in SUBSET refused :
        /\ refused # {} => Fault("delete")
        /\ s3' = [f \in Files |-> IF f \in gone \ kept THEN Nothing ELSE s3[f]]
        /\ mem' = [f \in Files |->
                     IF f \in (gone \ refused) \cup dropped THEN NoEntry ELSE mem[f]]
        /\ failed' = IF refused = {} THEN failed ELSE 1

EndSection(F) ==
  /\ todo = {}
  /\ IF job = "autosave" THEN UNCHANGED <<s3, mem, failed>> ELSE DeleteGone(F)
  /\ UNCHANGED <<node, man, job, hashed, tries, target, history>>

EndConfig ==
  /\ phase = "config" /\ EndSection(Config)
  /\ phase' = "media"
  /\ todo' = Changed(Media, mem) /\ fresh' = Present(Media)

EndMedia ==
  /\ phase = "media" /\ EndSection(Media)
  /\ phase' = "save"
  /\ UNCHANGED <<todo, fresh>>

\* The push of the operation is over, but not the operation.
AfterPush(p) ==
  /\ phase' = p /\ mem' = emptyManifest /\ failed' = 0
  /\ UNCHANGED <<job, todo, fresh, hashed, tries, target>>

SaveManifest ==
  /\ phase = "save"
  /\ man' = mem
  /\ untracked' = untracked \cap Unknown(mem, s3)
  /\ \/ job = "autosave" /\ Done
     \/ job = "final" /\ failed = 1 /\ tries = PushAttempts /\ Done
     \/ job = "final" /\ failed = 1 /\ tries < PushAttempts /\ AfterPush("retry")
     \/ job = "leftover" /\ failed = 1 /\ AfterPush("as is")
     \/ job \in {"final", "leftover"} /\ failed = 0 /\ AfterPush("remove")
  /\ UNCHANGED <<node, s3, want>>

\* pullObsConfig from where it makes the directory.
BeginPull ==
  /\ job' = "pull" /\ phase' = "template" /\ todo' = Template
  /\ mem' = emptyManifest /\ dir' = "there"
  /\ fresh' = {} /\ hashed' = Blank /\ failed' = 0 /\ tries' = 0
  /\ UNCHANGED target

removeLocalConfig ==
  /\ phase = "remove"
  /\ disk' = Blank /\ man' = emptyManifest /\ profile' = "none"
  /\ \/ job = "final" /\ dir' = "gone" /\ Done
     \/ job = "leftover" /\ BeginPull
  /\ UNCHANGED <<obs, moving, s3, history>>

-------------------------------------------------------------------------------
(* Pull, in the critical section of a start. *)

\* Mutant of pullObsConfig: a leftover directory is not pushed first.
pullObsConfigOver ==
  /\ job = "none" /\ obs = "down"
  /\ BeginPull
  /\ UNCHANGED <<obs, disk, moving, profile, stored, history>>

pullObsConfig ==
  /\ job = "none" /\ obs = "down"
  /\ \/ dir = "there" /\ BeginPush("leftover", 1) /\ UNCHANGED dir
     \/ dir = "gone" /\ BeginPull
  /\ UNCHANGED <<obs, disk, moving, profile, stored, history>>

\* Mutant of applyTemplateProfile: the directory is used as it is, the profile too.
applyNoProfile ==
  /\ phase = "as is"
  /\ job' = "pull" /\ phase' = "ready" /\ tries' = 0
  /\ UNCHANGED <<node, stored, todo, fresh, hashed, mem, failed, target, history>>

\* The directory could not be pushed: only the profile is put back.
applyTemplateProfile ==
  /\ phase = "as is"
  /\ profile' \in {"none", "plan"}
  /\ job' = "pull" /\ phase' = "ready" /\ tries' = 0
  /\ UNCHANGED <<obs, dir, disk, moving, stored, todo, fresh, hashed, mem, failed,
                 target, history>>

Content(f, layer) == IF layer = "template" THEN Plain ELSE s3[f]

EntryOf(f, layer) ==
  [stamp |-> "same",
   hash |-> IF f \in Config THEN Content(f, layer) ELSE Nothing,
   source |-> IF layer = "template" THEN "template" ELSE "overlay"]

Download(f) ==
  /\ phase \in Layers /\ f \in todo
  /\ disk' = [disk EXCEPT ![f] = Content(f, phase)]
  /\ mem' = [mem EXCEPT ![f] = EntryOf(f, phase)]
  /\ todo' = todo \ {f}
  /\ UNCHANGED <<obs, dir, moving, profile, stored, job, phase, fresh, hashed, failed,
                 tries, target, history>>

\* Mutant of PullOverlay: the files of the template stay.
PullOverlayUnder ==
  /\ phase = "template" /\ todo = {}
  /\ phase' = "overlay" /\ profile' = "plan"
  /\ todo' = {f \in Config \ Template : s3[f] # Nothing}
  /\ UNCHANGED <<obs, dir, disk, moving, stored, job, fresh, hashed, mem, failed, tries,
                 target, history>>

\* The profile comes with the template.
PullOverlay ==
  /\ phase = "template" /\ todo = {}
  /\ phase' = "overlay" /\ profile' = "plan"
  /\ todo' = {f \in Config : s3[f] # Nothing}
  /\ UNCHANGED <<obs, dir, disk, moving, stored, job, fresh, hashed, mem, failed, tries,
                 target, history>>

pullObsMedia ==
  /\ phase = "overlay" /\ todo = {}
  /\ phase' = "media files"
  /\ todo' = {f \in Media : s3[f] # Nothing}
  /\ UNCHANGED <<node, stored, job, fresh, hashed, mem, failed, tries, target,
                 history>>

AfterPull ==
  /\ phase' = "ready" /\ todo' = {} /\ mem' = emptyManifest
  /\ UNCHANGED <<job, fresh, hashed, failed, tries, target>>

\* What was left in S3 by mistake is the user's again.
EndPull ==
  /\ phase = "media files" /\ todo = {}
  /\ man' = mem
  /\ want' = [f \in Files |-> IF f \in untracked THEN s3[f] ELSE want[f]]
  /\ untracked' = {}
  /\ AfterPull
  /\ UNCHANGED <<node, s3>>

\* The user may edit the profile from now on.
StartContainer ==
  /\ phase = "ready" /\ obs' = "up"
  /\ profile' = "edited"
  /\ Done
  /\ UNCHANGED <<dir, disk, moving, stored, history>>

StartFails ==
  /\ phase = "ready"
  /\ Done
  /\ UNCHANGED <<node, stored, history>>

-------------------------------------------------------------------------------
(* The routes of the media folder.  Their row is read before they wait for the *)
(* lock: OBS may have stopped meanwhile, and the directory be gone.            *)

BeginMedia(j, p, f, g) ==
  /\ job = "none"
  /\ job' = j /\ phase' = p /\ target' = <<f, g>>

\* Makes the directory if there is none.
uploadFile(f, d) ==
  /\ dir = "there" \/ Fault("behind")
  /\ BeginMedia("upload", "put", f, f)
  /\ dir' = "there"
  /\ disk' = [disk EXCEPT ![f] = d]
  /\ want' = [want EXCEPT ![f] = d]
  /\ man' = Touched(man, {f})
  /\ UNCHANGED <<obs, moving, profile, s3, todo, fresh, hashed, mem, failed, tries,
                 untracked>>

renameFile(f, g) ==
  /\ f # g /\ disk[f] # Nothing /\ disk[g] = Nothing
  /\ s3[f] \notin {Nothing, disk[f]} => Fault("unpushed")
  /\ BeginMedia("rename", "copy", f, g)
  /\ disk' = [disk EXCEPT ![g] = disk[f], ![f] = Nothing]
  /\ want' = [want EXCEPT ![g] = disk[f], ![f] = Nothing]
  /\ man' = Touched(man, {f, g})
  /\ UNCHANGED <<obs, dir, moving, profile, s3, todo, fresh, hashed, mem, failed, tries, untracked>>

deleteFile(f) ==
  /\ disk[f] # Nothing
  /\ BeginMedia("delete", "unkey", f, f)
  /\ disk' = [disk EXCEPT ![f] = Nothing]
  /\ want' = [want EXCEPT ![f] = Nothing]
  /\ man' = Touched(man, {f})
  /\ UNCHANGED <<obs, dir, moving, profile, s3, todo, fresh, hashed, mem, failed, tries, untracked>>

\* A failure is logged, the manifest left alone, and the route answers as if all
\* had gone well; keys is what S3 may have made of the request.
Forgo(keys) ==
  /\ s3' \in keys
  /\ untracked' = untracked \cup Unknown(man, s3')
  /\ Done
  /\ UNCHANGED <<node, man, want>>

pushObsMediaFile(f) ==
  /\ phase = "put" /\ target[1] = f
  /\ \/ /\ s3' = [s3 EXCEPT ![f] = disk[f]]
        /\ GoTo("record")
        /\ UNCHANGED <<node, man, history>>
     \/ Fault("put") /\ Forgo({s3, [s3 EXCEPT ![f] = disk[f]]})

\* The copy of the old key, or the file itself when there is none to copy.
CopyKey(f, g) ==
  /\ phase = "copy" /\ target = <<f, g>>
  /\ \/ /\ \/ s3[f] # Nothing /\ s3' = [s3 EXCEPT ![g] = s3[f]]
           \/ /\ s3[f] = Nothing \/ Fault("put")
              /\ s3' = [s3 EXCEPT ![g] = disk[g]]
        /\ GoTo("drop")
        /\ UNCHANGED <<node, man, history>>
     \/ Fault("put") /\ Forgo({s3, [s3 EXCEPT ![g] = disk[g]]})

\* The answer of deleteKeys is not looked at.
DropOldKey(f) ==
  /\ phase = "drop" /\ target[1] = f
  /\ \/ /\ \/ s3' = [s3 EXCEPT ![f] = Nothing]
           \/ Fault("refused") /\ UNCHANGED s3
        /\ GoTo("record")
        /\ UNCHANGED <<node, man, history>>
     \/ Fault("delete") /\ Forgo({s3, [s3 EXCEPT ![f] = Nothing]})

deleteObsMediaFile(f) ==
  /\ phase = "unkey" /\ target[1] = f
  /\ \/ /\ s3' = [s3 EXCEPT ![f] = Nothing]
        /\ GoTo("record")
        /\ UNCHANGED <<node, man, history>>
     \/ Fault("delete") /\ Forgo({s3, [s3 EXCEPT ![f] = Nothing]})

RecordMedia(f, g) ==
  /\ phase = "record" /\ target = <<f, g>>
  /\ man' = [h \in Files |->
       IF h = g /\ job # "delete"
       THEN [stamp |-> "same", hash |-> Nothing, source |-> "overlay"]
       ELSE IF h = f THEN NoEntry ELSE man[h]]
  /\ untracked' = untracked \cap Unknown(man', s3)
  /\ Done
  /\ UNCHANGED <<node, s3, want>>

-------------------------------------------------------------------------------

\* OBS and the files stay.
Crash ==
  /\ Fault("crash") /\ job # "none"
  /\ phase \notin Layers
  /\ untracked' = untracked \cup Unknown(man, s3)
  /\ Done
  /\ UNCHANGED <<node, stored, want>>

Next ==
  \/ \E f \in Config : MoveAside(f) \/ RemoveFile(f) \/ \E d \in Data : WriteFile(f, d)
  \/ StopContainer
  \/ Autosave \/ FinalPush \/ RetryPush
  \/ \E f \in Files :
       KeepEntry(f) \/ HashFile(f) \/ UploadFile(f) \/ UploadFails(f) \/ FileGone(f)
  \/ EndConfig \/ EndMedia \/ SaveManifest \/ removeLocalConfig
  \/ pullObsConfig \/ applyTemplateProfile
  \/ \E f \in Files : Download(f)
  \/ PullOverlay \/ pullObsMedia \/ EndPull
  \/ StartContainer \/ StartFails
  \/ \E f \in Media :
       \/ deleteFile(f) \/ \E d \in Data : uploadFile(f, d)
       \/ pushObsMediaFile(f) \/ DropOldKey(f) \/ deleteObsMediaFile(f)
       \/ \E g \in Media : renameFile(f, g) \/ CopyKey(f, g) \/ RecordMedia(f, g)
  \/ Crash

Spec == Init /\ [][Next]_vars

-------------------------------------------------------------------------------

\* What the next start finds in S3.
Restored(f) == IF s3[f] # Nothing \/ f \notin Template THEN s3[f] ELSE Plain

\* What the user last made of a file is on the disk or in S3 at all times: the
\* directory is removed only when S3 has everything (push.ts:63-66), a pull never
\* covers what S3 has not got (pull.ts:34-36), and the template never takes the
\* place of the user's own file (pull.ts:31-32).
NoLostEdit ==
  \A f \in Files :
    \/ want[f] = Nothing \/ f \in moving
    \/ dir = "there" /\ disk[f] = want[f]
    \/ Restored(f) = want[f]

\* What the user deleted is gone from S3 when the directory is removed, so that it
\* does not come back with the next start (sync.ts:125-126), but for keys that were
\* stored by an operation that did not live to record them.
DeletedStaysAway ==
  dir = "gone" => \A f \in Files : want[f] = Nothing => s3[f] = Nothing \/ f \in untracked

\* OBS starts from what the user last made of each file, or from the template where
\* there is nothing of theirs; a leftover directory that could not be pushed is such
\* a start too (pull.ts:28-55).
StartsWithOwnFiles ==
  [][obs = "down" /\ obs' = "up" =>
       \A f \in Files : \/ disk[f] = want[f]
                        \/ want[f] = Nothing /\ f \in Template /\ disk[f] = Plain]_vars

\* OBS never starts with a profile that the user could edit in the run before
\* (pull.ts:47-49): not after a crash, nor from a directory that is kept.
ProfileIsPlanOwned == [][obs = "down" /\ obs' = "up" => profile # "edited"]_vars

-------------------------------------------------------------------------------
(* The invariant of the proofs. *)

Deleting == {"final", "leftover"}

Pushing == {"config", "media", "save"}

MediaPhases == {"put", "copy", "drop", "unkey", "record"}

\* The phases of each operation; who deletes or pulls does so with OBS down.
PhaseOfJob ==
  /\ job = "none" <=> phase = "idle"
  /\ phase \in Pushing => job \in {"autosave", "final", "leftover"}
  /\ phase = "remove" => job \in Deleting
  /\ phase = "retry" => job = "final" /\ tries < PushAttempts
  /\ phase = "as is" => job = "leftover"
  /\ phase \in Layers \cup {"ready"} => job = "pull"
  /\ phase \in MediaPhases =>
       /\ job \in {"upload", "rename", "delete"}
       /\ target \in Media \X Media
  /\ job \in Deleting \cup {"pull"} => obs = "down"
  /\ obs = "up" \/ job # "none" => dir = "there"
  /\ moving # {} => obs = "up"

NothingWithoutDir == dir = "gone" => disk = Blank /\ man = emptyManifest

\* An entry with the stamp of the file says that S3 has it, and so does one with the
\* hash of the file; the template's hash is known.
TrueEntry(e, f) ==
  /\ e.stamp = "same" => disk[f] # Nothing /\ Restored(f) = disk[f]
  /\ f \in Config /\ disk[f] # Nothing /\ e.hash = disk[f] => Restored(f) = disk[f]
  /\ e.source = "template" => f \in Template /\ e.hash = Plain

Truthful(m) == \A f \in Files : TrueEntry(m[f], f)

\* What a final push has dealt with is in S3.
PushedSoFar(f) ==
  (/\ job \in Deleting /\ phase \in Pushing \cup {"remove"} /\ failed = 0
   /\ disk[f] # Nothing /\ f \notin todo /\ (phase = "config" => f \in Config))
    => Restored(f) = disk[f]

TodoOfPhase ==
  /\ phase = "config" => todo \subseteq Config
  /\ phase \in {"media", "media files"} => todo \subseteq Media
  /\ phase = "template" => todo \subseteq Template
  /\ phase = "overlay" => todo \subseteq Config
  /\ phase \in {"overlay", "media files"} => \A f \in todo : s3[f] # Nothing
  /\ phase \in {"save", "remove"} => todo = {}
  /\ phase = "remove" => failed = 0

Pulled(f, layer) == disk[f] = Content(f, layer) /\ mem[f] = EntryOf(f, layer)

Bare(f) == disk[f] = Nothing /\ mem[f] = NoEntry

Based(f) == IF f \in Template THEN Pulled(f, "template") ELSE Bare(f)

\* Layer upon layer, the directory comes to hold what S3 has.
PulledSoFar ==
  /\ phase \in Layers => man = emptyManifest
  /\ phase = "template" =>
       \A f \in Files : IF f \in Template \ todo THEN Pulled(f, "template") ELSE Bare(f)
  /\ phase = "overlay" =>
       \A f \in Files : IF f \in Config \ todo /\ s3[f] # Nothing
                          THEN Pulled(f, "overlay") ELSE Based(f)
  /\ phase = "media files" =>
       \A f \in Files : IF f \notin todo /\ s3[f] # Nothing
                          THEN Pulled(f, "overlay") ELSE Based(f)

\* The directory has what the user last made of a file, or S3 has while there is none.
EditKept(f) ==
  want[f] # Nothing /\ f \notin moving =>
    IF dir = "there" /\ phase \notin Layers THEN disk[f] = want[f] ELSE Restored(f) = want[f]

\* A media operation records a key only if S3 has the file of today under it.
MediaStored ==
  LET f == target[1]
      g == target[2]
  IN  /\ phase = "put" => job = "upload" /\ disk[f] # Nothing /\ f = g
      /\ phase \in {"copy", "drop"} =>
           job = "rename" /\ f # g /\ disk[f] = Nothing /\ disk[g] # Nothing
      /\ phase = "copy" => s3[f] \in {Nothing, disk[g]}
      /\ phase \in {"drop", "record"} /\ job # "delete" =>
           disk[g] # Nothing /\ s3[g] = disk[g]
      /\ phase = "unkey" => job = "delete"
      /\ phase = "unkey" \/ (phase = "record" /\ job = "delete") => disk[f] = Nothing

\* No edit is lost.
EditsInv ==
  /\ TypeOK /\ PhaseOfJob /\ NothingWithoutDir
  /\ Truthful(man) /\ (phase \in Pushing => Truthful(mem))
  /\ TodoOfPhase /\ PulledSoFar /\ MediaStored
  /\ \A f \in Files : PushedSoFar(f) /\ EditKept(f)

\* S3 has the key of a file of the user's, one that a manifest knows, one that a media
\* operation is about to record, or one left there by mistake.
KeyKnown(f) ==
  s3[f] # Nothing =>
    \/ f \in untracked
    \/ IF dir = "gone" \/ phase \in Layers THEN want[f] # Nothing
       ELSE IF phase \in Pushing THEN mem[f].source = "overlay"
       ELSE \/ man[f].source = "overlay"
            \/ phase \in MediaPhases /\ f \in {target[1], target[2]}

\* A final push leaves no entry of a file that is gone.
SweptSoFar(f) ==
  job \in Deleting /\ failed = 0 /\ disk[f] = Nothing =>
    /\ phase = "save" \/ (phase = "media" /\ f \in Config) => mem[f].source # "overlay"
    /\ phase = "remove" => man[f].source # "overlay"

FromTemplate(e) == e.source = "template" /\ e.hash = Plain

\* A file that is not the user's is the template's, and neither push nor pull takes it
\* for theirs.
NotTheirs(f) ==
  dir = "there" /\ phase \notin Layers /\ want[f] = Nothing /\ disk[f] # Nothing =>
    /\ f \in Template /\ disk[f] = Plain /\ FromTemplate(man[f])
    /\ phase \in Pushing => FromTemplate(mem[f]) /\ hashed[f] = Nothing

\* A media operation that drops an entry has deleted its key.
OldKeyGone ==
  /\ phase = "put" => job = "upload"
  /\ phase \in {"copy", "drop"} => job = "rename"
  /\ phase = "unkey" => job = "delete"
  /\ job \in {"upload", "delete"} => target[1] = target[2]
  /\ phase = "record" /\ job # "upload" => s3[target[1]] = Nothing

\* What is deleted stays away.
KeysInv ==
  /\ TypeOK /\ PhaseOfJob /\ NothingWithoutDir
  /\ TodoOfPhase /\ PulledSoFar /\ OldKeyGone
  /\ \A f \in Files : KeyKnown(f) /\ SweptSoFar(f) /\ NotTheirs(f)

IInv == EditsInv /\ KeysInv

\* The profile of a start is not from the run before.
ProfileReset ==
  /\ phase \in Layers \cup {"ready"} => profile # "edited"
  /\ dir = "gone" => profile # "edited"
===============================================================================
