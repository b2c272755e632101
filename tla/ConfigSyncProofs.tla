--------------------------- MODULE ConfigSyncProofs ---------------------------
(***************************************************************************)
(* Proofs about ConfigSync for any files, contents, templates and faults:  *)
(* its type invariant, and that OBS never starts with an edited profile.   *)
(*                                                                         *)
(* A start is the end of a pull.  A pull either unpacks the template,      *)
(* which brings the plan's profile, or goes on with a directory that could *)
(* not be pushed, whose profile it replaces (ProfileReset).  That no other *)
(* operation is at a pull's phases, and that OBS is down during one, is    *)
(* PhaseOfJob; it needs to know that OBS runs only on a directory that is  *)
(* there (NothingWithoutDir).                                              *)
(***************************************************************************)
EXTENDS ConfigSync, TLAPS

-------------------------------------------------------------------------------
(* Types: of the constants' derivatives, and of the operation's variables. *)

\* The initial values have the types of their variables.

LEMMA Empties ==
  /\ NoEntry \in Entry
  /\ emptyManifest \in [Files -> Entry]
  /\ Blank \in [Files -> Data \cup {Nothing}]
  /\ NoTarget \in (Media \cup {Nothing}) \X (Media \cup {Nothing})
<1>1. NoEntry \in Entry
  BY DEF NoEntry, Entry
<1>2. emptyManifest \in [Files -> Entry]
  BY <1>1 DEF emptyManifest
<1>3. Blank \in [Files -> Data \cup {Nothing}]
  BY DEF Blank
<1> QED
  BY <1>1, <1>2, <1>3 DEF NoTarget

\* Every file is of the configuration or of the media folder.
LEMMA Names ==
  /\ Config \subseteq Files /\ Media \subseteq Files /\ Template \subseteq Config
BY ConstantsOK DEF Files

\* The walk of a section finds files of that section.
LEMMA ChangedAreThere ==
  ASSUME NEW F, NEW m
  PROVE  Present(F) \subseteq F /\ Changed(F, m) \subseteq F
BY DEF Present, Changed

\* The variables of the operation that holds the lock.
WorkTypes ==
  /\ job \in Jobs /\ phase \in Phases
  /\ todo \subseteq Files /\ fresh \subseteq Files
  /\ hashed \in [Files -> Data \cup {Nothing}]
  /\ mem \in [Files -> Entry] /\ failed \in 0..1
  /\ tries \in 0..PushAttempts
  /\ target \in (Media \cup {Nothing}) \X (Media \cup {Nothing})

\* What begins or ends an operation, or moves it on, leaves its variables well typed:
\* the end of one,
LEMMA DoneTypes == Done => WorkTypes'
<1> SUFFICES ASSUME Done PROVE WorkTypes'
  OBVIOUS
<1>1. job' \in Jobs /\ phase' \in Phases /\ todo' \subseteq Files /\ fresh' \subseteq Files
  BY DEF Done, Jobs, Phases
<1>2. hashed' \in [Files -> Data \cup {Nothing}] /\ mem' \in [Files -> Entry]
      /\ target' \in (Media \cup {Nothing}) \X (Media \cup {Nothing})
  BY Empties DEF Done
<1>3. failed' \in 0..1 /\ tries' \in 0..PushAttempts
  BY ConstantsOK DEF Done
<1> QED
  BY <1>1, <1>2, <1>3 DEF WorkTypes

\* its next await,
LEMMA GoToTypes ==
  ASSUME WorkTypes, NEW p \in Phases, GoTo(p)
  PROVE  WorkTypes'
BY DEF WorkTypes, GoTo

\* the first walk of a push,
LEMMA BeginPushTypes ==
  ASSUME TypeOK, NEW j \in Jobs, NEW n \in 1..PushAttempts, BeginPush(j, n)
  PROVE  WorkTypes'
<1>1. job' \in Jobs /\ phase' \in Phases
  BY DEF BeginPush, Phases
<1>2. todo' \subseteq Files /\ fresh' \subseteq Files
  BY ChangedAreThere, Names DEF BeginPush
<1>3. hashed' \in [Files -> Data \cup {Nothing}] /\ mem' \in [Files -> Entry]
      /\ target' \in (Media \cup {Nothing}) \X (Media \cup {Nothing})
  BY Empties DEF BeginPush, TypeOK
<1>4. failed' \in 0..1 /\ tries' \in 0..PushAttempts
  BY ConstantsOK DEF BeginPush
<1> QED
  BY <1>1, <1>2, <1>3, <1>4 DEF WorkTypes

\* the beginning of a pull,
LEMMA BeginPullTypes ==
  ASSUME TypeOK, BeginPull
  PROVE  WorkTypes' /\ dir' \in {"there", "gone"}
<1>1. job' \in Jobs /\ phase' \in Phases /\ dir' \in {"there", "gone"}
  BY DEF BeginPull, Jobs, Phases
<1>2. todo' \subseteq Files /\ fresh' \subseteq Files
  BY Names DEF BeginPull
<1>3. hashed' \in [Files -> Data \cup {Nothing}] /\ mem' \in [Files -> Entry]
      /\ target' \in (Media \cup {Nothing}) \X (Media \cup {Nothing})
  BY Empties DEF BeginPull, TypeOK
<1>4. failed' \in 0..1 /\ tries' \in 0..PushAttempts
  BY ConstantsOK DEF BeginPull
<1> QED
  BY <1>1, <1>2, <1>3, <1>4 DEF WorkTypes

\* what follows a push,
LEMMA AfterPushTypes ==
  ASSUME TypeOK, NEW p \in Phases, AfterPush(p)
  PROVE  WorkTypes'
BY Empties DEF WorkTypes, AfterPush, TypeOK

\* and a media operation whose requests to S3 fail.
LEMMA ForgoTypes ==
  ASSUME TypeOK, NEW keys \in SUBSET [Files -> Data \cup {Nothing}], Forgo(keys)
  PROVE  TypeOK'
<1>1. WorkTypes'
  BY DoneTypes DEF Forgo
<1>2. untracked' \subseteq Files
  BY DEF Forgo, TypeOK, Unknown
<1> QED
  BY <1>1, <1>2 DEF Forgo, TypeOK, WorkTypes, node

\* Every step keeps the types; RetryPush, because tries is below the bound there.
LEMMA TypeStep == TypeOK /\ PhaseOfJob /\ [Next]_vars => TypeOK'
<1> SUFFICES ASSUME TypeOK, PhaseOfJob, [Next]_vars PROVE TypeOK'
  OBVIOUS
<1> USE Names, Empties, ConstantsOK DEF TypeOK, node, stored, work, history
<1>1. ASSUME NEW f \in Config, MoveAside(f)
      PROVE  TypeOK'
  BY <1>1 DEF MoveAside, Touch, Touched, Stamped, Entry
<1>2. ASSUME NEW f \in Config, RemoveFile(f)
      PROVE  TypeOK'
  BY <1>2 DEF RemoveFile, Touch, Touched, Stamped, Entry
<1>3. ASSUME NEW f \in Config, NEW d \in Data, WriteFile(f, d)
      PROVE  TypeOK'
  BY <1>3 DEF WriteFile, Touch, Touched, Stamped, Entry
<1>4. CASE StopContainer
  BY <1>4 DEF StopContainer
<1>5. CASE Autosave
  <2>1. WorkTypes'
    BY <1>5, BeginPushTypes DEF Autosave, Jobs
  <2> QED
    BY <1>5, <2>1 DEF Autosave, WorkTypes
<1>6. CASE FinalPush
  <2>1. WorkTypes'
    BY <1>6, BeginPushTypes DEF FinalPush, Jobs
  <2> QED
    BY <1>6, <2>1 DEF FinalPush, WorkTypes
<1>7. CASE RetryPush
  <2>1. tries + 1 \in 1..PushAttempts
    BY <1>7 DEF RetryPush, PhaseOfJob
  <2>2. WorkTypes'
    BY <1>7, <2>1, BeginPushTypes DEF RetryPush, Jobs
  <2> QED
    BY <1>7, <2>2 DEF RetryPush, WorkTypes
<1>8. ASSUME NEW f \in Files, KeepEntry(f)
      PROVE  TypeOK'
  BY <1>8 DEF KeepEntry, Finish, Stamped, StampOf, Entry
<1>9. ASSUME NEW f \in Files, HashFile(f)
      PROVE  TypeOK'
  BY <1>9 DEF HashFile
<1>10. ASSUME NEW f \in Files, UploadFile(f)
      PROVE  TypeOK'
  BY <1>10 DEF UploadFile, MayUpload, Finish, StampOf, Entry
<1>11. ASSUME NEW f \in Files, UploadFails(f)
      PROVE  TypeOK'
  <2>1. s3' \in [Files -> Data \cup {Nothing}] /\ untracked' \subseteq Files
    BY <1>11 DEF UploadFails, MayUpload
  <2>2. failed' = 1 /\ Finish(f) /\ UNCHANGED <<node, man, mem, want>>
    BY <1>11 DEF UploadFails
  <2> QED
    BY <2>1, <2>2 DEF Finish
<1>12. ASSUME NEW f \in Files, FileGone(f)
      PROVE  TypeOK'
  BY <1>12 DEF FileGone, Finish
<1>13. CASE EndConfig
  BY <1>13, ChangedAreThere DEF EndConfig, EndSection, DeleteGone, Jobs, Phases
<1>14. CASE EndMedia
  BY <1>14, ChangedAreThere DEF EndMedia, EndSection, DeleteGone, Jobs, Phases
<1>15. CASE SaveManifest
  <2>1. WorkTypes'
    BY <1>15, DoneTypes, AfterPushTypes DEF SaveManifest, Phases
  <2>2. untracked' \subseteq Files
    BY <1>15 DEF SaveManifest
  <2> QED
    BY <1>15, <2>1, <2>2 DEF SaveManifest, WorkTypes
<1>16. CASE removeLocalConfig
  <2>1. WorkTypes' /\ dir' \in {"there", "gone"}
    BY <1>16, DoneTypes, BeginPullTypes DEF removeLocalConfig
  <2> QED
    BY <1>16, <2>1 DEF removeLocalConfig, WorkTypes
<1>17. CASE pullObsConfig
  <2>1. WorkTypes' /\ dir' \in {"there", "gone"}
    BY <1>17, BeginPushTypes, BeginPullTypes DEF pullObsConfig, Jobs
  <2> QED
    BY <1>17, <2>1 DEF pullObsConfig, WorkTypes
<1>18. CASE applyTemplateProfile
  <2>1. job' \in Jobs /\ phase' \in Phases
    BY <1>18 DEF applyTemplateProfile, Jobs, Phases
  <2>2. tries' = 0 /\ profile' \in {"none", "plan", "edited"}
    BY <1>18 DEF applyTemplateProfile
  <2>3. tries' \in 0..PushAttempts
    BY <2>2
  <2>4. UNCHANGED <<obs, dir, disk, moving, stored, todo, fresh, hashed, mem, failed,
                    target, history>>
    BY <1>18 DEF applyTemplateProfile
  <2> QED
    BY <2>1, <2>2, <2>3, <2>4
<1>19. ASSUME NEW f \in Files, Download(f)
      PROVE  TypeOK'
  BY <1>19 DEF Download, Content, EntryOf, Entry
<1>20. CASE PullOverlay
  BY <1>20 DEF PullOverlay, Jobs, Phases
<1>21. CASE pullObsMedia
  BY <1>21 DEF pullObsMedia, Jobs, Phases
<1>22. CASE EndPull
  BY <1>22, ChangedAreThere DEF EndPull, AfterPull, Jobs, Phases
<1>23. CASE StartContainer
  BY <1>23, DoneTypes DEF StartContainer, WorkTypes
<1>24. CASE StartFails
  BY <1>24, DoneTypes DEF StartFails, WorkTypes
<1>25. ASSUME NEW f \in Media, deleteFile(f)
      PROVE  TypeOK'
  BY <1>25 DEF deleteFile, BeginMedia, Touched, Stamped, Entry, Jobs, Phases
<1>26. ASSUME NEW f \in Media, NEW d \in Data, uploadFile(f, d)
      PROVE  TypeOK'
  BY <1>26 DEF uploadFile, BeginMedia, Touched, Stamped, Entry, Jobs, Phases
<1>27. ASSUME NEW f \in Media, pushObsMediaFile(f)
      PROVE  TypeOK'
  <2>1. CASE Forgo({s3, [s3 EXCEPT ![f] = disk[f]]})
    BY <2>1, ForgoTypes
  <2>2. CASE GoTo("record") /\ UNCHANGED <<node, man, history>>
    <3>1. s3' \in [Files -> Data \cup {Nothing}]
      BY <1>27, <2>2 DEF pushObsMediaFile, Forgo
    <3> QED
      BY <2>2, <3>1 DEF GoTo, Phases
  <2> QED
    BY <1>27, <2>1, <2>2 DEF pushObsMediaFile
<1>28. ASSUME NEW f \in Media, DropOldKey(f)
      PROVE  TypeOK'
  <2>1. CASE Forgo({s3, [s3 EXCEPT ![f] = Nothing]})
    BY <2>1, ForgoTypes
  <2>2. CASE GoTo("record") /\ UNCHANGED <<node, man, history>>
    <3>1. s3' \in [Files -> Data \cup {Nothing}]
      BY <1>28, <2>2 DEF DropOldKey, Forgo
    <3> QED
      BY <2>2, <3>1 DEF GoTo, Phases
  <2> QED
    BY <1>28, <2>1, <2>2 DEF DropOldKey
<1>29. ASSUME NEW f \in Media, deleteObsMediaFile(f)
      PROVE  TypeOK'
  <2>1. CASE Forgo({s3, [s3 EXCEPT ![f] = Nothing]})
    BY <2>1, ForgoTypes
  <2>2. CASE GoTo("record") /\ UNCHANGED <<node, man, history>>
    <3>1. s3' \in [Files -> Data \cup {Nothing}]
      BY <1>29, <2>2 DEF deleteObsMediaFile, Forgo
    <3> QED
      BY <2>2, <3>1 DEF GoTo, Phases
  <2> QED
    BY <1>29, <2>1, <2>2 DEF deleteObsMediaFile
<1>30. ASSUME NEW f \in Media, NEW g \in Media, renameFile(f, g)
      PROVE  TypeOK'
  BY <1>30 DEF renameFile, BeginMedia, Touched, Stamped, Entry, Jobs, Phases
<1>31. ASSUME NEW f \in Media, NEW g \in Media, CopyKey(f, g)
      PROVE  TypeOK'
  <2>1. CASE Forgo({s3, [s3 EXCEPT ![g] = disk[g]]})
    BY <2>1, ForgoTypes
  <2>2. CASE GoTo("drop") /\ UNCHANGED <<node, man, history>>
    <3>1. s3' \in [Files -> Data \cup {Nothing}]
      BY <1>31, <2>2 DEF CopyKey, Forgo
    <3> QED
      BY <2>2, <3>1 DEF GoTo, Phases
  <2> QED
    BY <1>31, <2>1, <2>2 DEF CopyKey
<1>32. ASSUME NEW f \in Media, NEW g \in Media, RecordMedia(f, g)
      PROVE  TypeOK'
  <2>1. WorkTypes'
    BY <1>32, DoneTypes DEF RecordMedia
  <2>2. man' \in [Files -> Entry] /\ untracked' \subseteq Files
    BY <1>32 DEF RecordMedia, Entry
  <2> QED
    BY <1>32, <2>1, <2>2 DEF RecordMedia, WorkTypes
<1>33. CASE Crash
  <2>1. WorkTypes'
    BY <1>33, DoneTypes DEF Crash
  <2>2. untracked' \subseteq Files
    BY <1>33 DEF Crash, Unknown
  <2> QED
    BY <1>33, <2>1, <2>2 DEF Crash, WorkTypes
<1>34. CASE UNCHANGED vars
  BY <1>34 DEF vars
<1> QED
  BY <1>1, <1>2, <1>3, <1>4, <1>5, <1>6, <1>7, <1>8, <1>9, <1>10, <1>11, <1>12, <1>13,
     <1>14, <1>15, <1>16, <1>17, <1>18, <1>19, <1>20, <1>21, <1>22, <1>23, <1>24, <1>25,
     <1>26, <1>27, <1>28, <1>29, <1>30, <1>31, <1>32, <1>33, <1>34 DEF Next

-------------------------------------------------------------------------------
(* Control: which operation is at which phase, and what it may rely on. *)

\* Every step keeps an operation within its own phases, and OBS down while files
\* are pulled or removed.
LEMMA PhaseStep == TypeOK /\ PhaseOfJob /\ NothingWithoutDir /\ [Next]_vars => PhaseOfJob'
<1> SUFFICES ASSUME TypeOK, PhaseOfJob, NothingWithoutDir, [Next]_vars
             PROVE  PhaseOfJob'
  OBVIOUS
<1> USE ConstantsOK DEF PhaseOfJob, MediaPhases, Pushing, Deleting, Layers, node, stored,
        work, history
<1>1. ASSUME NEW f \in Config, MoveAside(f)
      PROVE  PhaseOfJob'
  BY <1>1 DEF MoveAside, Touch
<1>2. ASSUME NEW f \in Config, RemoveFile(f)
      PROVE  PhaseOfJob'
  BY <1>2 DEF RemoveFile, Touch
<1>3. ASSUME NEW f \in Config, NEW d \in Data, WriteFile(f, d)
      PROVE  PhaseOfJob'
  BY <1>3 DEF WriteFile, Touch
<1>4. CASE StopContainer
  BY <1>4 DEF StopContainer, TypeOK
<1>5. CASE Autosave
  BY <1>5 DEF Autosave, BeginPush
<1>6. CASE FinalPush
  BY <1>6 DEF FinalPush, BeginPush
<1>7. CASE RetryPush
  BY <1>7 DEF RetryPush, BeginPush, TypeOK
<1>8. ASSUME NEW f \in Files, KeepEntry(f)
      PROVE  PhaseOfJob'
  BY <1>8 DEF KeepEntry, Finish
<1>9. ASSUME NEW f \in Files, HashFile(f)
      PROVE  PhaseOfJob'
  BY <1>9 DEF HashFile
<1>10. ASSUME NEW f \in Files, UploadFile(f)
      PROVE  PhaseOfJob'
  BY <1>10 DEF UploadFile, Finish
<1>11. ASSUME NEW f \in Files, UploadFails(f)
      PROVE  PhaseOfJob'
  BY <1>11 DEF UploadFails, Finish
<1>12. ASSUME NEW f \in Files, FileGone(f)
      PROVE  PhaseOfJob'
  BY <1>12 DEF FileGone, Finish
<1>13. CASE EndConfig
  BY <1>13 DEF EndConfig, EndSection
<1>14. CASE EndMedia
  BY <1>14 DEF EndMedia, EndSection
<1>15. CASE SaveManifest
  BY <1>15 DEF SaveManifest, Done, AfterPush, TypeOK
<1>16. CASE removeLocalConfig
  BY <1>16 DEF removeLocalConfig, Done, BeginPull, TypeOK
<1>17. CASE pullObsConfig
  BY <1>17 DEF pullObsConfig, BeginPush, BeginPull
<1>18. CASE applyTemplateProfile
  BY <1>18 DEF applyTemplateProfile
<1>19. ASSUME NEW f \in Files, Download(f)
      PROVE  PhaseOfJob'
  BY <1>19 DEF Download
<1>20. CASE PullOverlay
  BY <1>20 DEF PullOverlay
<1>21. CASE pullObsMedia
  BY <1>21 DEF pullObsMedia
<1>22. CASE EndPull
  BY <1>22 DEF EndPull, AfterPull
<1>23. CASE StartContainer
  BY <1>23 DEF StartContainer, Done
<1>24. CASE StartFails
  BY <1>24 DEF StartFails, Done
<1>25. ASSUME NEW f \in Media, deleteFile(f)
      PROVE  PhaseOfJob'
  <2>1. dir = "there"
    BY <1>25, Names DEF deleteFile, NothingWithoutDir, Blank, TypeOK
  <2> QED
    BY <1>25, <2>1 DEF deleteFile, BeginMedia
<1>26. ASSUME NEW f \in Media, NEW d \in Data, uploadFile(f, d)
      PROVE  PhaseOfJob'
  BY <1>26 DEF uploadFile, BeginMedia
<1>27. ASSUME NEW f \in Media, pushObsMediaFile(f)
      PROVE  PhaseOfJob'
  BY <1>27 DEF pushObsMediaFile, GoTo, Forgo, Done
<1>28. ASSUME NEW f \in Media, DropOldKey(f)
      PROVE  PhaseOfJob'
  BY <1>28 DEF DropOldKey, GoTo, Forgo, Done
<1>29. ASSUME NEW f \in Media, deleteObsMediaFile(f)
      PROVE  PhaseOfJob'
  BY <1>29 DEF deleteObsMediaFile, GoTo, Forgo, Done
<1>30. ASSUME NEW f \in Media, NEW g \in Media, renameFile(f, g)
      PROVE  PhaseOfJob'
  <2>1. dir = "there"
    BY <1>30, Names DEF renameFile, NothingWithoutDir, Blank, TypeOK
  <2> QED
    BY <1>30, <2>1 DEF renameFile, BeginMedia
<1>31. ASSUME NEW f \in Media, NEW g \in Media, CopyKey(f, g)
      PROVE  PhaseOfJob'
  BY <1>31 DEF CopyKey, GoTo, Forgo, Done
<1>32. ASSUME NEW f \in Media, NEW g \in Media, RecordMedia(f, g)
      PROVE  PhaseOfJob'
  BY <1>32 DEF RecordMedia, Done
<1>33. CASE Crash
  BY <1>33 DEF Crash, Done
<1>34. CASE UNCHANGED vars
  BY <1>34 DEF vars
<1> QED
  BY <1>1, <1>2, <1>3, <1>4, <1>5, <1>6, <1>7, <1>8, <1>9, <1>10, <1>11, <1>12, <1>13,
     <1>14, <1>15, <1>16, <1>17, <1>18, <1>19, <1>20, <1>21, <1>22, <1>23, <1>24, <1>25,
     <1>26, <1>27, <1>28, <1>29, <1>30, <1>31, <1>32, <1>33, <1>34 DEF Next

\* A pull past its template has put the plan's profile in place.
LEMMA ProfileStep == TypeOK /\ PhaseOfJob /\ ProfileReset /\ [Next]_vars => ProfileReset'
<1> SUFFICES ASSUME TypeOK, PhaseOfJob, ProfileReset, [Next]_vars PROVE ProfileReset'
  OBVIOUS
<1> USE DEF ProfileReset, Layers, node, stored, work, history
<1>1. ASSUME NEW f \in Config, MoveAside(f)
      PROVE  ProfileReset'
  BY <1>1 DEF MoveAside, Touch
<1>2. ASSUME NEW f \in Config, RemoveFile(f)
      PROVE  ProfileReset'
  BY <1>2 DEF RemoveFile, Touch
<1>3. ASSUME NEW f \in Config, NEW d \in Data, WriteFile(f, d)
      PROVE  ProfileReset'
  BY <1>3 DEF WriteFile, Touch
<1>4. CASE StopContainer
  BY <1>4 DEF StopContainer
<1>5. CASE Autosave
  BY <1>5 DEF Autosave, BeginPush
<1>6. CASE FinalPush
  BY <1>6 DEF FinalPush, BeginPush
<1>7. CASE RetryPush
  BY <1>7 DEF RetryPush, BeginPush
<1>8. ASSUME NEW f \in Files, KeepEntry(f)
      PROVE  ProfileReset'
  BY <1>8 DEF KeepEntry, Finish
<1>9. ASSUME NEW f \in Files, HashFile(f)
      PROVE  ProfileReset'
  BY <1>9 DEF HashFile
<1>10. ASSUME NEW f \in Files, UploadFile(f)
      PROVE  ProfileReset'
  BY <1>10 DEF UploadFile, Finish
<1>11. ASSUME NEW f \in Files, UploadFails(f)
      PROVE  ProfileReset'
  BY <1>11 DEF UploadFails, Finish
<1>12. ASSUME NEW f \in Files, FileGone(f)
      PROVE  ProfileReset'
  BY <1>12 DEF FileGone, Finish
<1>13. CASE EndConfig
  BY <1>13 DEF EndConfig, EndSection
<1>14. CASE EndMedia
  BY <1>14 DEF EndMedia, EndSection
<1>15. CASE SaveManifest
  BY <1>15 DEF SaveManifest, Done, AfterPush
<1>16. CASE removeLocalConfig
  BY <1>16 DEF removeLocalConfig, Done, BeginPull, PhaseOfJob
<1>17. CASE pullObsConfig
  BY <1>17 DEF pullObsConfig, BeginPush, BeginPull, PhaseOfJob
<1>18. CASE applyTemplateProfile
  BY <1>18 DEF applyTemplateProfile
<1>19. ASSUME NEW f \in Files, Download(f)
      PROVE  ProfileReset'
  BY <1>19 DEF Download
<1>20. CASE PullOverlay
  BY <1>20 DEF PullOverlay
<1>21. CASE pullObsMedia
  BY <1>21 DEF pullObsMedia
<1>22. CASE EndPull
  BY <1>22 DEF EndPull, AfterPull
<1>23. CASE StartContainer
  BY <1>23 DEF StartContainer, Done, PhaseOfJob
<1>24. CASE StartFails
  BY <1>24 DEF StartFails, Done
<1>25. ASSUME NEW f \in Media, deleteFile(f)
      PROVE  ProfileReset'
  BY <1>25 DEF deleteFile, BeginMedia
<1>26. ASSUME NEW f \in Media, NEW d \in Data, uploadFile(f, d)
      PROVE  ProfileReset'
  BY <1>26 DEF uploadFile, BeginMedia
<1>27. ASSUME NEW f \in Media, pushObsMediaFile(f)
      PROVE  ProfileReset'
  BY <1>27 DEF pushObsMediaFile, GoTo, Forgo, Done
<1>28. ASSUME NEW f \in Media, DropOldKey(f)
      PROVE  ProfileReset'
  BY <1>28 DEF DropOldKey, GoTo, Forgo, Done
<1>29. ASSUME NEW f \in Media, deleteObsMediaFile(f)
      PROVE  ProfileReset'
  BY <1>29 DEF deleteObsMediaFile, GoTo, Forgo, Done
<1>30. ASSUME NEW f \in Media, NEW g \in Media, renameFile(f, g)
      PROVE  ProfileReset'
  BY <1>30 DEF renameFile, BeginMedia
<1>31. ASSUME NEW f \in Media, NEW g \in Media, CopyKey(f, g)
      PROVE  ProfileReset'
  BY <1>31 DEF CopyKey, GoTo, Forgo, Done
<1>32. ASSUME NEW f \in Media, NEW g \in Media, RecordMedia(f, g)
      PROVE  ProfileReset'
  BY <1>32 DEF RecordMedia, Done
<1>33. CASE Crash
  BY <1>33 DEF Crash, Done
<1>34. CASE UNCHANGED vars
  BY <1>34 DEF vars
<1> QED
  BY <1>1, <1>2, <1>3, <1>4, <1>5, <1>6, <1>7, <1>8, <1>9, <1>10, <1>11, <1>12, <1>13,
     <1>14, <1>15, <1>16, <1>17, <1>18, <1>19, <1>20, <1>21, <1>22, <1>23, <1>24, <1>25,
     <1>26, <1>27, <1>28, <1>29, <1>30, <1>31, <1>32, <1>33, <1>34 DEF Next

\* The directory goes only with everything in it.
LEMMA DirStep == TypeOK /\ PhaseOfJob /\ NothingWithoutDir /\ [Next]_vars => NothingWithoutDir'
<1> SUFFICES ASSUME TypeOK, PhaseOfJob, NothingWithoutDir, [Next]_vars
             PROVE  NothingWithoutDir'
  OBVIOUS
<1> USE DEF NothingWithoutDir, Layers, node, stored, work, history
<1>1. ASSUME NEW f \in Config, MoveAside(f)
      PROVE  NothingWithoutDir'
  BY <1>1 DEF MoveAside, Touch, PhaseOfJob
<1>2. ASSUME NEW f \in Config, RemoveFile(f)
      PROVE  NothingWithoutDir'
  BY <1>2 DEF RemoveFile, Touch, PhaseOfJob
<1>3. ASSUME NEW f \in Config, NEW d \in Data, WriteFile(f, d)
      PROVE  NothingWithoutDir'
  BY <1>3 DEF WriteFile, Touch, PhaseOfJob
<1>4. CASE StopContainer
  BY <1>4 DEF StopContainer
<1>5. CASE Autosave
  BY <1>5 DEF Autosave, BeginPush
<1>6. CASE FinalPush
  BY <1>6 DEF FinalPush, BeginPush
<1>7. CASE RetryPush
  BY <1>7 DEF RetryPush, BeginPush
<1>8. ASSUME NEW f \in Files, KeepEntry(f)
      PROVE  NothingWithoutDir'
  BY <1>8 DEF KeepEntry, Finish
<1>9. ASSUME NEW f \in Files, HashFile(f)
      PROVE  NothingWithoutDir'
  BY <1>9 DEF HashFile
<1>10. ASSUME NEW f \in Files, UploadFile(f)
      PROVE  NothingWithoutDir'
  BY <1>10 DEF UploadFile, Finish
<1>11. ASSUME NEW f \in Files, UploadFails(f)
      PROVE  NothingWithoutDir'
  BY <1>11 DEF UploadFails, Finish
<1>12. ASSUME NEW f \in Files, FileGone(f)
      PROVE  NothingWithoutDir'
  BY <1>12 DEF FileGone, Finish
<1>13. CASE EndConfig
  BY <1>13 DEF EndConfig, EndSection
<1>14. CASE EndMedia
  BY <1>14 DEF EndMedia, EndSection
<1>15. CASE SaveManifest
  BY <1>15 DEF SaveManifest, Done, AfterPush, PhaseOfJob
<1>16. CASE removeLocalConfig
  BY <1>16 DEF removeLocalConfig, Done, BeginPull
<1>17. CASE pullObsConfig
  BY <1>17 DEF pullObsConfig, BeginPush, BeginPull
<1>18. CASE applyTemplateProfile
  BY <1>18 DEF applyTemplateProfile
<1>19. ASSUME NEW f \in Files, Download(f)
      PROVE  NothingWithoutDir'
  BY <1>19 DEF Download, PhaseOfJob
<1>20. CASE PullOverlay
  BY <1>20 DEF PullOverlay
<1>21. CASE pullObsMedia
  BY <1>21 DEF pullObsMedia
<1>22. CASE EndPull
  BY <1>22 DEF EndPull, AfterPull, PhaseOfJob
<1>23. CASE StartContainer
  BY <1>23 DEF StartContainer, Done
<1>24. CASE StartFails
  BY <1>24 DEF StartFails, Done
<1>25. ASSUME NEW f \in Media, deleteFile(f)
      PROVE  NothingWithoutDir'
  BY <1>25, Names DEF deleteFile, BeginMedia, Blank
<1>26. ASSUME NEW f \in Media, NEW d \in Data, uploadFile(f, d)
      PROVE  NothingWithoutDir'
  BY <1>26 DEF uploadFile, BeginMedia
<1>27. ASSUME NEW f \in Media, pushObsMediaFile(f)
      PROVE  NothingWithoutDir'
  BY <1>27 DEF pushObsMediaFile, GoTo, Forgo, Done
<1>28. ASSUME NEW f \in Media, DropOldKey(f)
      PROVE  NothingWithoutDir'
  BY <1>28 DEF DropOldKey, GoTo, Forgo, Done
<1>29. ASSUME NEW f \in Media, deleteObsMediaFile(f)
      PROVE  NothingWithoutDir'
  BY <1>29 DEF deleteObsMediaFile, GoTo, Forgo, Done
<1>30. ASSUME NEW f \in Media, NEW g \in Media, renameFile(f, g)
      PROVE  NothingWithoutDir'
  BY <1>30, Names DEF renameFile, BeginMedia, Blank
<1>31. ASSUME NEW f \in Media, NEW g \in Media, CopyKey(f, g)
      PROVE  NothingWithoutDir'
  BY <1>31 DEF CopyKey, GoTo, Forgo, Done
<1>32. ASSUME NEW f \in Media, NEW g \in Media, RecordMedia(f, g)
      PROVE  NothingWithoutDir'
  BY <1>32 DEF RecordMedia, Done, PhaseOfJob
<1>33. CASE Crash
  BY <1>33 DEF Crash, Done
<1>34. CASE UNCHANGED vars
  BY <1>34 DEF vars
<1> QED
  BY <1>1, <1>2, <1>3, <1>4, <1>5, <1>6, <1>7, <1>8, <1>9, <1>10, <1>11, <1>12, <1>13,
     <1>14, <1>15, <1>16, <1>17, <1>18, <1>19, <1>20, <1>21, <1>22, <1>23, <1>24, <1>25,
     <1>26, <1>27, <1>28, <1>29, <1>30, <1>31, <1>32, <1>33, <1>34 DEF Next

\* The inductive invariant.
ControlInv == TypeOK /\ PhaseOfJob /\ NothingWithoutDir /\ ProfileReset

\* It holds of an instance that was stopped properly.
LEMMA ControlInit == Init => ControlInv
<1> SUFFICES ASSUME Init PROVE ControlInv
  OBVIOUS
<1>1. job \in Jobs /\ phase \in Phases /\ failed \in 0..1 /\ tries \in 0..PushAttempts
  BY ConstantsOK DEF Init, Jobs, Phases
<1>2. TypeOK
  BY <1>1, Empties DEF Init, TypeOK
<1>3. PhaseOfJob
  BY DEF Init, PhaseOfJob, MediaPhases, Pushing, Deleting, Layers
<1> QED
  BY <1>2, <1>3 DEF Init, ControlInv, NothingWithoutDir, ProfileReset, Layers

\* The variables hold what the code's types allow, for any files, contents and faults.
THEOREM Typed == Spec => []TypeOK
<1>1. Init => ControlInv
  BY ControlInit
<1>2. ControlInv /\ [Next]_vars => ControlInv'
  BY TypeStep, PhaseStep, DirStep, ProfileStep DEF ControlInv
<1>3. ControlInv => TypeOK
  BY DEF ControlInv
<1> QED
  BY <1>1, <1>2, <1>3, PTL DEF Spec

\* StartContainer is the one step that brings OBS up.
LEMMA OnlyStart ==
  ASSUME [Next]_vars, obs = "down", obs' = "up"
  PROVE  StartContainer
<1> USE DEF node, stored, work, history
<1>1. ~(\E f \in Config : MoveAside(f) \/ RemoveFile(f) \/ \E d \in Data : WriteFile(f, d))
  BY DEF MoveAside, RemoveFile, WriteFile
<1>2. ~(StopContainer \/ Autosave \/ FinalPush \/ RetryPush)
  BY DEF StopContainer, Autosave, FinalPush, RetryPush
<1>3. ~(\E f \in Files :
          KeepEntry(f) \/ HashFile(f) \/ UploadFile(f) \/ UploadFails(f) \/ FileGone(f))
  BY DEF KeepEntry, HashFile, UploadFile, UploadFails, FileGone
<1>4. ~(EndConfig \/ EndMedia \/ SaveManifest \/ removeLocalConfig)
  BY DEF EndConfig, EndMedia, EndSection, SaveManifest, removeLocalConfig
<1>5. ~(pullObsConfig \/ applyTemplateProfile \/ \E f \in Files : Download(f))
  BY DEF pullObsConfig, applyTemplateProfile, Download
<1>6. ~(PullOverlay \/ pullObsMedia \/ EndPull \/ StartFails)
  BY DEF PullOverlay, pullObsMedia, EndPull, StartFails
<1>7. \A f \in Media : ~(deleteFile(f) \/ \E d \in Data : uploadFile(f, d))
  BY DEF deleteFile, uploadFile
<1>8. \A f \in Media : ~(pushObsMediaFile(f) \/ DropOldKey(f) \/ deleteObsMediaFile(f))
  BY DEF pushObsMediaFile, DropOldKey, deleteObsMediaFile, Forgo
<1>9. \A f, g \in Media : ~(renameFile(f, g) \/ CopyKey(f, g) \/ RecordMedia(f, g))
  BY DEF renameFile, CopyKey, RecordMedia, Forgo
<1>10. ~Crash /\ vars' # vars
  BY DEF Crash, vars
<1> QED
  BY <1>1, <1>2, <1>3, <1>4, <1>5, <1>6, <1>7, <1>8, <1>9, <1>10 DEF Next

\* OBS never starts with a profile the user could edit in the run before, whatever
\* fails and wherever the manager dies (pull.ts:47-49).
THEOREM PlanOwnsProfile == Spec => ProfileIsPlanOwned
<1>1. Init => ControlInv
  BY ControlInit
<1>2. ControlInv /\ [Next]_vars => ControlInv'
  BY TypeStep, PhaseStep, DirStep, ProfileStep DEF ControlInv
<1>3. ControlInv /\ [Next]_vars => [obs = "down" /\ obs' = "up" => profile # "edited"]_vars
  <2> SUFFICES ASSUME ControlInv, [Next]_vars, obs = "down", obs' = "up"
               PROVE  profile # "edited"
    OBVIOUS
  <2>1. StartContainer
    BY OnlyStart
  <2> QED
    BY <2>1 DEF StartContainer, ControlInv, ProfileReset
<1> QED
  BY <1>1, <1>2, <1>3, PTL DEF Spec, ProfileIsPlanOwned
===============================================================================
