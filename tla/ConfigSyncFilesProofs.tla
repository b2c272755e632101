------------------------- MODULE ConfigSyncFilesProofs -------------------------
(***************************************************************************)
(* Proofs that no edit is lost (NoLostEdit), that what is deleted stays    *)
(* away (DeletedStaysAway) and that OBS starts on the user's own files     *)
(* (StartsWithOwnFiles), for any files, contents and templates, whatever   *)
(* fails and wherever the manager dies, but for the mishaps of Spared and  *)
(* NoStrayKeys.                                                            *)
(*                                                                         *)
(* What the user last made of a file is on the disk while there is a       *)
(* directory, and can be restored from S3 while there is none or a pull    *)
(* fills it (EditKept).  Two steps go from one to the other.  The removal  *)
(* follows a push without failures that has dealt with every file          *)
(* (PushedSoFar): it passes over a file only for an entry of the manifest, *)
(* and entries are truthful.  The end of a pull finds layer upon layer of  *)
(* what S3 has (PulledSoFar).                                              *)
(*                                                                         *)
(* What the user deleted has no key in S3 but one that a manifest knows    *)
(* (KeyKnown), and a push that precedes a removal drops the entries of the *)
(* files that are gone only after their keys (SweptSoFar).  Files that are *)
(* not the user's are the template's (NotTheirs), which no push uploads.   *)
(***************************************************************************)
EXTENDS ConfigSyncProofs

\* The mishaps that NoLostEdit does not survive do not happen.
Spared == Faults \cap {"revert", "unpushed", "behind"} = {}

\* Every operation has the files of its section to deal with.
LEMMA TodoStep ==
  ASSUME TypeOK, PhaseOfJob, NothingWithoutDir, TodoOfPhase, [Next]_vars
  PROVE  TodoOfPhase'
<1> USE Names, ChangedAreThere DEF TodoOfPhase, PhaseOfJob, Layers, Pushing, Deleting,
        node, stored, work, history
<1>1. ASSUME NEW f \in Config, MoveAside(f)
      PROVE  TodoOfPhase'
  BY <1>1 DEF MoveAside, Touch
<1>2. ASSUME NEW f \in Config, RemoveFile(f)
      PROVE  TodoOfPhase'
  BY <1>2 DEF RemoveFile, Touch
<1>3. ASSUME NEW f \in Config, NEW d \in Data, WriteFile(f, d)
      PROVE  TodoOfPhase'
  BY <1>3 DEF WriteFile, Touch
<1>4. CASE StopContainer
  BY <1>4 DEF StopContainer
<1>5. CASE Autosave
  BY <1>5 DEF Autosave, BeginPush
<1>6. CASE FinalPush
  BY <1>6 DEF FinalPush, BeginPush
<1>7. CASE RetryPush
  BY <1>7 DEF RetryPush, BeginPush
<1>8. ASSUME NEW f \in Files, KeepEntry(f)
      PROVE  TodoOfPhase'
  BY <1>8 DEF KeepEntry, Finish
<1>9. ASSUME NEW f \in Files, HashFile(f)
      PROVE  TodoOfPhase'
  BY <1>9 DEF HashFile
<1>10. ASSUME NEW f \in Files, UploadFile(f)
      PROVE  TodoOfPhase'
  BY <1>10 DEF UploadFile, MayUpload, Finish
<1>11. ASSUME NEW f \in Files, UploadFails(f)
      PROVE  TodoOfPhase'
  BY <1>11 DEF UploadFails, MayUpload, Finish
<1>12. ASSUME NEW f \in Files, FileGone(f)
      PROVE  TodoOfPhase'
  BY <1>12 DEF FileGone, Finish
<1>13. CASE EndConfig
  BY <1>13 DEF EndConfig, EndSection, DeleteGone
<1>14. CASE EndMedia
  BY <1>14 DEF EndMedia, EndSection, DeleteGone
<1>15. CASE SaveManifest
  BY <1>15 DEF SaveManifest, Done, AfterPush
<1>16. CASE removeLocalConfig
  BY <1>16 DEF removeLocalConfig, Done, BeginPull
<1>17. CASE pullObsConfig
  BY <1>17 DEF pullObsConfig, BeginPush, BeginPull
<1>18. CASE applyTemplateProfile
  BY <1>18 DEF applyTemplateProfile
<1>19. ASSUME NEW f \in Files, Download(f)
      PROVE  TodoOfPhase'
  BY <1>19 DEF Download
<1>20. CASE PullOverlay
  BY <1>20 DEF PullOverlay
<1>21. CASE pullObsMedia
  BY <1>21 DEF pullObsMedia
<1>22. CASE EndPull
  BY <1>22 DEF EndPull, AfterPull
<1>23. CASE StartContainer
  BY <1>23 DEF StartContainer, Done
<1>24. CASE StartFails
  BY <1>24 DEF StartFails, Done
<1>25. ASSUME NEW f \in Media, deleteFile(f)
      PROVE  TodoOfPhase'
  BY <1>25 DEF deleteFile, BeginMedia
<1>26. ASSUME NEW f \in Media, NEW d \in Data, uploadFile(f, d)
      PROVE  TodoOfPhase'
  BY <1>26 DEF uploadFile, BeginMedia
<1>27. ASSUME NEW f \in Media, pushObsMediaFile(f)
      PROVE  TodoOfPhase'
  BY <1>27 DEF pushObsMediaFile, GoTo, Forgo, Done
<1>28. ASSUME NEW f \in Media, DropOldKey(f)
      PROVE  TodoOfPhase'
  BY <1>28 DEF DropOldKey, GoTo, Forgo, Done
<1>29. ASSUME NEW f \in Media, deleteObsMediaFile(f)
      PROVE  TodoOfPhase'
  BY <1>29 DEF deleteObsMediaFile, GoTo, Forgo, Done
<1>30. ASSUME NEW f \in Media, NEW g \in Media, renameFile(f, g)
      PROVE  TodoOfPhase'
  BY <1>30 DEF renameFile, BeginMedia
<1>31. ASSUME NEW f \in Media, NEW g \in Media, CopyKey(f, g)
      PROVE  TodoOfPhase'
  BY <1>31 DEF CopyKey, GoTo, Forgo, Done
<1>32. ASSUME NEW f \in Media, NEW g \in Media, RecordMedia(f, g)
      PROVE  TodoOfPhase'
  BY <1>32 DEF RecordMedia, Done
<1>33. CASE Crash
  BY <1>33 DEF Crash, Done
<1>34. CASE UNCHANGED vars
  BY <1>34 DEF vars
<1> QED
  BY <1>1, <1>2, <1>3, <1>4, <1>5, <1>6, <1>7, <1>8, <1>9, <1>10, <1>11, <1>12, <1>13,
     <1>14, <1>15, <1>16, <1>17, <1>18, <1>19, <1>20, <1>21, <1>22, <1>23, <1>24, <1>25,
     <1>26, <1>27, <1>28, <1>29, <1>30, <1>31, <1>32, <1>33, <1>34 DEF Next

\* What a media operation will record is what S3 has.
LEMMA MediaStep ==
  ASSUME TypeOK, PhaseOfJob, MediaStored, Spared, [Next]_vars
  PROVE  MediaStored'
<1> USE Names, ConstantsOK DEF MediaStored, PhaseOfJob, MediaPhases, TypeOK, Fault,
        Spared, Pushing, Deleting, Layers, node, stored, work, history
<1>1. ASSUME NEW f \in Config, MoveAside(f)
      PROVE  MediaStored'
  BY <1>1 DEF MoveAside, Touch
<1>2. ASSUME NEW f \in Config, RemoveFile(f)
      PROVE  MediaStored'
  BY <1>2 DEF RemoveFile, Touch
<1>3. ASSUME NEW f \in Config, NEW d \in Data, WriteFile(f, d)
      PROVE  MediaStored'
  BY <1>3 DEF WriteFile, Touch
<1>4. CASE StopContainer
  BY <1>4 DEF StopContainer
<1>5. CASE Autosave
  BY <1>5 DEF Autosave, BeginPush
<1>6. CASE FinalPush
  BY <1>6 DEF FinalPush, BeginPush
<1>7. CASE RetryPush
  BY <1>7 DEF RetryPush, BeginPush
<1>8. ASSUME NEW f \in Files, KeepEntry(f)
      PROVE  MediaStored'
  BY <1>8 DEF KeepEntry, Finish
<1>9. ASSUME NEW f \in Files, HashFile(f)
      PROVE  MediaStored'
  BY <1>9 DEF HashFile
<1>10. ASSUME NEW f \in Files, UploadFile(f)
      PROVE  MediaStored'
  BY <1>10 DEF UploadFile, MayUpload, Finish
<1>11. ASSUME NEW f \in Files, UploadFails(f)
      PROVE  MediaStored'
  BY <1>11 DEF UploadFails, MayUpload, Finish
<1>12. ASSUME NEW f \in Files, FileGone(f)
      PROVE  MediaStored'
  BY <1>12 DEF FileGone, Finish
<1>13. CASE EndConfig
  BY <1>13 DEF EndConfig, EndSection, DeleteGone
<1>14. CASE EndMedia
  BY <1>14 DEF EndMedia, EndSection, DeleteGone
<1>15. CASE SaveManifest
  BY <1>15 DEF SaveManifest, Done, AfterPush
<1>16. CASE removeLocalConfig
  BY <1>16 DEF removeLocalConfig, Done, BeginPull
<1>17. CASE pullObsConfig
  BY <1>17 DEF pullObsConfig, BeginPush, BeginPull
<1>18. CASE applyTemplateProfile
  BY <1>18 DEF applyTemplateProfile
<1>19. ASSUME NEW f \in Files, Download(f)
      PROVE  MediaStored'
  BY <1>19 DEF Download
<1>20. CASE PullOverlay
  BY <1>20 DEF PullOverlay
<1>21. CASE pullObsMedia
  BY <1>21 DEF pullObsMedia
<1>22. CASE EndPull
  BY <1>22 DEF EndPull, AfterPull
<1>23. CASE StartContainer
  BY <1>23 DEF StartContainer, Done
<1>24. CASE StartFails
  BY <1>24 DEF StartFails, Done
<1>25. ASSUME NEW f \in Media, deleteFile(f)
      PROVE  MediaStored'
  BY <1>25 DEF deleteFile, BeginMedia
<1>26. ASSUME NEW f \in Media, NEW d \in Data, uploadFile(f, d)
      PROVE  MediaStored'
  BY <1>26 DEF uploadFile, BeginMedia
<1>27. ASSUME NEW f \in Media, pushObsMediaFile(f)
      PROVE  MediaStored'
  <2>1. CASE Forgo({s3, [s3 EXCEPT ![f] = disk[f]]})
    BY <2>1 DEF Forgo, Done
  <2>2. CASE /\ s3' = [s3 EXCEPT ![f] = disk[f]]
             /\ GoTo("record") /\ UNCHANGED <<node, man, history>>
    BY <1>27, <2>2 DEF pushObsMediaFile, GoTo
  <2> QED
    BY <1>27, <2>1, <2>2 DEF pushObsMediaFile
<1>28. ASSUME NEW f \in Media, DropOldKey(f)
      PROVE  MediaStored'
  BY <1>28 DEF DropOldKey, GoTo, Forgo, Done
<1>29. ASSUME NEW f \in Media, deleteObsMediaFile(f)
      PROVE  MediaStored'
  <2>1. CASE Forgo({s3, [s3 EXCEPT ![f] = Nothing]})
    BY <2>1 DEF Forgo, Done
  <2>2. CASE /\ s3' = [s3 EXCEPT ![f] = Nothing]
             /\ GoTo("record") /\ UNCHANGED <<node, man, history>>
    BY <1>29, <2>2 DEF deleteObsMediaFile, GoTo
  <2> QED
    BY <1>29, <2>1, <2>2 DEF deleteObsMediaFile
<1>30. ASSUME NEW f \in Media, NEW g \in Media, renameFile(f, g)
      PROVE  MediaStored'
  BY <1>30 DEF renameFile, BeginMedia
<1>31. ASSUME NEW f \in Media, NEW g \in Media, CopyKey(f, g)
      PROVE  MediaStored'
  BY <1>31 DEF CopyKey, GoTo, Forgo, Done
<1>32. ASSUME NEW f \in Media, NEW g \in Media, RecordMedia(f, g)
      PROVE  MediaStored'
  BY <1>32 DEF RecordMedia, Done
<1>33. CASE Crash
  BY <1>33 DEF Crash, Done
<1>34. CASE UNCHANGED vars
  BY <1>34 DEF vars
<1> QED
  BY <1>1, <1>2, <1>3, <1>4, <1>5, <1>6, <1>7, <1>8, <1>9, <1>10, <1>11, <1>12, <1>13,
     <1>14, <1>15, <1>16, <1>17, <1>18, <1>19, <1>20, <1>21, <1>22, <1>23, <1>24, <1>25,
     <1>26, <1>27, <1>28, <1>29, <1>30, <1>31, <1>32, <1>33, <1>34 DEF Next

\* What has been pulled of a file stays so while the file, its key and its entry do.
LEMMA PulledFrame ==
  ASSUME NEW f, disk'[f] = disk[f], mem'[f] = mem[f], s3'[f] = s3[f]
  PROVE  /\ \A layer \in Layers : Pulled(f, layer)' <=> Pulled(f, layer)
         /\ Based(f)' <=> Based(f)
         /\ Bare(f)' <=> Bare(f)
BY DEF Pulled, Based, Bare, Content, EntryOf, Layers

\* Layer upon layer, a pull brings what S3 has.
LEMMA PulledStep ==
  ASSUME TypeOK, PhaseOfJob, NothingWithoutDir, TodoOfPhase, PulledSoFar, [Next]_vars
  PROVE  PulledSoFar'
<1> USE Names, ConstantsOK DEF PulledSoFar, PhaseOfJob, Layers, node, stored, work,
        history
<1>1. ASSUME NEW f \in Config, MoveAside(f)
      PROVE  PulledSoFar'
  <2>1. phase \notin Layers /\ phase' = phase
    BY <1>1 DEF MoveAside, Touch
  <2> QED
    BY <2>1
<1>2. ASSUME NEW f \in Config, RemoveFile(f)
      PROVE  PulledSoFar'
  <2>1. phase \notin Layers /\ phase' = phase
    BY <1>2 DEF RemoveFile, Touch
  <2> QED
    BY <2>1
<1>3. ASSUME NEW f \in Config, NEW d \in Data, WriteFile(f, d)
      PROVE  PulledSoFar'
  <2>1. phase \notin Layers /\ phase' = phase
    BY <1>3 DEF WriteFile, Touch
  <2> QED
    BY <2>1
<1>4. CASE StopContainer
  <2>1. phase \notin Layers /\ phase' = phase
    BY <1>4 DEF StopContainer
  <2> QED
    BY <2>1
<1>5. CASE Autosave
  <2>1. phase' \notin Layers
    BY <1>5 DEF Autosave, BeginPush
  <2> QED
    BY <2>1
<1>6. CASE FinalPush
  <2>1. phase' \notin Layers
    BY <1>6 DEF FinalPush, BeginPush
  <2> QED
    BY <2>1
<1>7. CASE RetryPush
  <2>1. phase' \notin Layers
    BY <1>7 DEF RetryPush, BeginPush
  <2> QED
    BY <2>1
<1>8. ASSUME NEW f \in Files, KeepEntry(f)
      PROVE  PulledSoFar'
  <2>1. phase \notin Layers /\ phase' = phase
    BY <1>8 DEF KeepEntry, Finish
  <2> QED
    BY <2>1
<1>9. ASSUME NEW f \in Files, HashFile(f)
      PROVE  PulledSoFar'
  <2>1. phase \notin Layers /\ phase' = phase
    BY <1>9 DEF HashFile
  <2> QED
    BY <2>1
<1>10. ASSUME NEW f \in Files, UploadFile(f)
      PROVE  PulledSoFar'
  <2>1. phase \notin Layers /\ phase' = phase
    BY <1>10 DEF UploadFile, MayUpload, Finish, MayUpload
  <2> QED
    BY <2>1
<1>11. ASSUME NEW f \in Files, UploadFails(f)
      PROVE  PulledSoFar'
  <2>1. phase \notin Layers /\ phase' = phase
    BY <1>11 DEF UploadFails, MayUpload, Finish, MayUpload
  <2> QED
    BY <2>1
<1>12. ASSUME NEW f \in Files, FileGone(f)
      PROVE  PulledSoFar'
  <2>1. phase \notin Layers /\ phase' = phase
    BY <1>12 DEF FileGone, Finish
  <2> QED
    BY <2>1
<1>13. CASE EndConfig
  <2>1. phase' \notin Layers
    BY <1>13 DEF EndConfig, EndSection
  <2> QED
    BY <2>1
<1>14. CASE EndMedia
  <2>1. phase' \notin Layers
    BY <1>14 DEF EndMedia, EndSection
  <2> QED
    BY <2>1
<1>15. CASE SaveManifest
  <2>1. phase' \notin Layers
    BY <1>15 DEF SaveManifest, Done, AfterPush
  <2> QED
    BY <2>1
<1>16. CASE removeLocalConfig
  <2>1. CASE Done
    BY <2>1 DEF Done
  <2>2. CASE BeginPull
    <3>1. \A f \in Files : Bare(f)'
      BY <1>16, <2>2 DEF removeLocalConfig, BeginPull, Bare, Blank, emptyManifest
    <3>2. phase' = "template" /\ todo' = Template /\ man' = emptyManifest
      BY <1>16, <2>2 DEF removeLocalConfig, BeginPull
    <3> QED
      BY <3>1, <3>2
  <2> QED
    BY <1>16, <2>1, <2>2 DEF removeLocalConfig
<1>17. CASE pullObsConfig
  <2>1. CASE BeginPush("leftover", 1)
    BY <2>1 DEF BeginPush
  <2>2. CASE dir = "gone" /\ BeginPull
    <3>1. \A f \in Files : Bare(f)'
      BY <1>17, <2>2 DEF pullObsConfig, BeginPull, Bare, Blank, emptyManifest,
         NothingWithoutDir
    <3>2. phase' = "template" /\ todo' = Template /\ man' = emptyManifest
      BY <1>17, <2>2 DEF pullObsConfig, BeginPull, NothingWithoutDir
    <3> QED
      BY <3>1, <3>2
  <2> QED
    BY <1>17, <2>1, <2>2 DEF pullObsConfig
<1>18. CASE applyTemplateProfile
  <2>1. phase' \notin Layers
    BY <1>18 DEF applyTemplateProfile
  <2> QED
    BY <2>1
<1>19. ASSUME NEW f \in Files, Download(f)
      PROVE  PulledSoFar'
  <2>1. phase \in Layers /\ f \in todo
        /\ todo' = todo \ {f} /\ UNCHANGED <<s3, man, phase>>
    BY <1>19 DEF Download
  <2>2. Pulled(f, phase)'
    BY <1>19 DEF Download, Pulled, Content, EntryOf, TypeOK
  <2>3. \A g \in Files \ {f} : disk'[g] = disk[g] /\ mem'[g] = mem[g] /\ s3'[g] = s3[g]
    BY <1>19 DEF Download, TypeOK
  <2>4. \A g \in Files \ {f} :
          /\ \A layer \in Layers : Pulled(g, layer)' <=> Pulled(g, layer)
          /\ Based(g)' <=> Based(g)
          /\ Bare(g)' <=> Bare(g)
    BY <2>3, PulledFrame DEF Layers
  <2>5. CASE phase = "template"
    BY <2>1, <2>2, <2>4, <2>5 DEF TodoOfPhase
  <2>6. CASE phase = "overlay"
    BY <2>1, <2>2, <2>4, <2>6 DEF TodoOfPhase
  <2>7. CASE phase = "media files"
    <3>1. s3[f] # Nothing /\ Pulled(f, "overlay")'
      BY <2>1, <2>2, <2>7 DEF TodoOfPhase, Pulled, Content, EntryOf
    <3> QED
      BY <2>1, <2>4, <2>7, <3>1
  <2> QED
    BY <2>1, <2>5, <2>6, <2>7
<1>20. CASE PullOverlay
  <2>1. phase = "template" /\ todo = {} /\ phase' = "overlay" /\ todo' = {f \in Config : s3[f] # Nothing}
        /\ UNCHANGED <<disk, mem, s3, man>>
    BY <1>20 DEF PullOverlay
  <2>2. \A f \in Files : Based(f)
    BY <2>1 DEF Based
  <2>3. \A f \in Files : Based(f)'
    BY <2>1, <2>2, PulledFrame
  <2> QED
    BY <2>1, <2>3
<1>21. CASE pullObsMedia
  <2>1. phase = "overlay" /\ todo = {} /\ phase' = "media files"
        /\ todo' = {f \in Media : s3[f] # Nothing} /\ UNCHANGED <<disk, mem, s3, man>>
    BY <1>21 DEF pullObsMedia
  <2> SUFFICES ASSUME NEW f \in Files
               PROVE  (IF f \notin todo /\ s3[f] # Nothing THEN Pulled(f, "overlay") ELSE Based(f))'
    BY <2>1
  <2>2. f \notin todo' /\ s3'[f] # Nothing <=> f \in Config \ todo /\ s3[f] # Nothing
    BY <2>1 DEF Files
  <2>3. IF f \in Config \ todo /\ s3[f] # Nothing THEN Pulled(f, "overlay") ELSE Based(f)
    BY <2>1
  <2> QED
    BY <2>1, <2>2, <2>3 DEF Pulled, Based, Bare, Content, EntryOf
<1>22. CASE EndPull
  <2>1. phase' \notin Layers
    BY <1>22 DEF EndPull, AfterPull
  <2> QED
    BY <2>1
<1>23. CASE StartContainer
  <2>1. phase' \notin Layers
    BY <1>23 DEF StartContainer, Done
  <2> QED
    BY <2>1
<1>24. CASE StartFails
  <2>1. phase' \notin Layers
    BY <1>24 DEF StartFails, Done
  <2> QED
    BY <2>1
<1>25. ASSUME NEW f \in Media, deleteFile(f)
      PROVE  PulledSoFar'
  <2>1. phase' \notin Layers
    BY <1>25 DEF deleteFile, BeginMedia
  <2> QED
    BY <2>1
<1>26. ASSUME NEW f \in Media, NEW d \in Data, uploadFile(f, d)
      PROVE  PulledSoFar'
  <2>1. phase' \notin Layers
    BY <1>26 DEF uploadFile, BeginMedia
  <2> QED
    BY <2>1
<1>27. ASSUME NEW f \in Media, pushObsMediaFile(f)
      PROVE  PulledSoFar'
  <2>1. phase' \notin Layers
    BY <1>27 DEF pushObsMediaFile, GoTo, Forgo, Done
  <2> QED
    BY <2>1
<1>28. ASSUME NEW f \in Media, DropOldKey(f)
      PROVE  PulledSoFar'
  <2>1. phase' \notin Layers
    BY <1>28 DEF DropOldKey, GoTo, Forgo, Done
  <2> QED
    BY <2>1
<1>29. ASSUME NEW f \in Media, deleteObsMediaFile(f)
      PROVE  PulledSoFar'
  <2>1. phase' \notin Layers
    BY <1>29 DEF deleteObsMediaFile, GoTo, Forgo, Done
  <2> QED
    BY <2>1
<1>30. ASSUME NEW f \in Media, NEW g \in Media, renameFile(f, g)
      PROVE  PulledSoFar'
  <2>1. phase' \notin Layers
    BY <1>30 DEF renameFile, BeginMedia
  <2> QED
    BY <2>1
<1>31. ASSUME NEW f \in Media, NEW g \in Media, CopyKey(f, g)
      PROVE  PulledSoFar'
  <2>1. phase' \notin Layers
    BY <1>31 DEF CopyKey, GoTo, Forgo, Done
  <2> QED
    BY <2>1
<1>32. ASSUME NEW f \in Media, NEW g \in Media, RecordMedia(f, g)
      PROVE  PulledSoFar'
  <2>1. phase' \notin Layers
    BY <1>32 DEF RecordMedia, Done
  <2> QED
    BY <2>1
<1>33. CASE Crash
  <2>1. phase' \notin Layers
    BY <1>33 DEF Crash, Done
  <2> QED
    BY <2>1
<1>34. CASE UNCHANGED vars
  BY <1>34 DEF vars, Pulled, Based, Bare, Content, EntryOf
<1> QED
  BY <1>1, <1>2, <1>3, <1>4, <1>5, <1>6, <1>7, <1>8, <1>9, <1>10, <1>11, <1>12, <1>13,
     <1>14, <1>15, <1>16, <1>17, <1>18, <1>19, <1>20, <1>21, <1>22, <1>23, <1>24, <1>25,
     <1>26, <1>27, <1>28, <1>29, <1>30, <1>31, <1>32, <1>33, <1>34 DEF Next

-------------------------------------------------------------------------------
(* Manifests are truthful: what an entry says of one file g. *)

\* The manifest on disk.
LEMMA ManStep ==
  ASSUME TypeOK, PhaseOfJob, NothingWithoutDir, TodoOfPhase, PulledSoFar, MediaStored, Spared,
         NEW h \in Files, TrueEntry(man[h], h), phase \in Pushing => TrueEntry(mem[h], h),
         [Next]_vars
  PROVE  TrueEntry(man[h], h)'
<1> USE Names, ConstantsOK DEF TrueEntry, Restored, TypeOK, node, stored, work, history
<1>1. ASSUME NEW f \in Config, MoveAside(f)
      PROVE  TrueEntry(man[h], h)'
  BY <1>1 DEF MoveAside, Touch, Touched, Stamped
<1>2. ASSUME NEW f \in Config, RemoveFile(f)
      PROVE  TrueEntry(man[h], h)'
  BY <1>2 DEF RemoveFile, Touch, Touched, Stamped
<1>3. ASSUME NEW f \in Config, NEW d \in Data, WriteFile(f, d)
      PROVE  TrueEntry(man[h], h)'
  BY <1>3 DEF WriteFile, Touch, Touched, Stamped, Misremembers, Spared, Fault
<1>4. CASE StopContainer
  BY <1>4 DEF StopContainer
<1>5. CASE Autosave
  BY <1>5 DEF Autosave, BeginPush
<1>6. CASE FinalPush
  BY <1>6 DEF FinalPush, BeginPush
<1>7. CASE RetryPush
  BY <1>7 DEF RetryPush, BeginPush
<1>8. ASSUME NEW f \in Files, KeepEntry(f)
      PROVE  TrueEntry(man[h], h)'
  BY <1>8 DEF KeepEntry, Finish, Stamped, StampOf
<1>9. ASSUME NEW f \in Files, HashFile(f)
      PROVE  TrueEntry(man[h], h)'
  BY <1>9 DEF HashFile
<1>10. ASSUME NEW f \in Files, UploadFile(f)
      PROVE  TrueEntry(man[h], h)'
  BY <1>10 DEF UploadFile, MayUpload, Finish, StampOf
<1>11. ASSUME NEW f \in Files, UploadFails(f)
      PROVE  TrueEntry(man[h], h)'
  BY <1>11 DEF UploadFails, MayUpload, Finish, Unknown
<1>12. ASSUME NEW f \in Files, FileGone(f)
      PROVE  TrueEntry(man[h], h)'
  BY <1>12 DEF FileGone, Finish
<1>13. CASE EndConfig
  <2>1. man' = man /\ disk' = disk /\ (s3'[h] = s3[h] \/ disk[h] = Nothing)
    BY <1>13 DEF EndConfig, EndSection, DeleteGone
  <2> QED
    BY <2>1
<1>14. CASE EndMedia
  <2>1. man' = man /\ disk' = disk /\ (s3'[h] = s3[h] \/ disk[h] = Nothing)
    BY <1>14 DEF EndMedia, EndSection, DeleteGone
  <2> QED
    BY <2>1
<1>15. CASE SaveManifest
  <2>1. man' = mem /\ TrueEntry(mem[h], h) /\ UNCHANGED <<disk, s3>>
    BY <1>15 DEF SaveManifest, Pushing
  <2> QED
    BY <2>1
<1>16. CASE removeLocalConfig
  <2>1. man' = emptyManifest
    BY <1>16 DEF removeLocalConfig
  <2> QED
    BY <2>1, <1>16 DEF emptyManifest, NoEntry, removeLocalConfig, Blank
<1>17. CASE pullObsConfig
  BY <1>17 DEF pullObsConfig, BeginPush, BeginPull
<1>18. CASE applyTemplateProfile
  BY <1>18 DEF applyTemplateProfile
<1>19. ASSUME NEW f \in Files, Download(f)
      PROVE  TrueEntry(man[h], h)'
  <2>1. man' = emptyManifest /\ disk'[h] \in Data \cup {Nothing}
    BY <1>19 DEF Download, PulledSoFar, Content
  <2> QED
    BY <2>1 DEF emptyManifest, NoEntry
<1>20. CASE PullOverlay
  BY <1>20 DEF PullOverlay
<1>21. CASE pullObsMedia
  BY <1>21 DEF pullObsMedia
<1>22. CASE EndPull
  <2>1. man' = mem /\ UNCHANGED <<disk, s3>>
    BY <1>22 DEF EndPull
  <2>2. CASE s3[h] # Nothing
    <3>1. Pulled(h, "overlay")
      BY <1>22, <2>2 DEF EndPull, PulledSoFar
    <3> QED
      BY <2>1, <2>2, <3>1 DEF Pulled, Content, EntryOf
  <2>3. CASE s3[h] = Nothing
    <3>1. Based(h)
      BY <1>22, <2>3 DEF EndPull, PulledSoFar
    <3> QED
      BY <2>1, <2>3, <3>1 DEF Based, Bare, Pulled, Content, EntryOf, NoEntry
  <2> QED
    BY <2>2, <2>3
<1>23. CASE StartContainer
  BY <1>23 DEF StartContainer, Done
<1>24. CASE StartFails
  BY <1>24 DEF StartFails, Done
<1>25. ASSUME NEW f \in Media, deleteFile(f)
      PROVE  TrueEntry(man[h], h)'
  BY <1>25 DEF deleteFile, BeginMedia, Touched, Stamped
<1>26. ASSUME NEW f \in Media, NEW d \in Data, uploadFile(f, d)
      PROVE  TrueEntry(man[h], h)'
  BY <1>26 DEF uploadFile, BeginMedia, Touched, Stamped
<1>27. ASSUME NEW f \in Media, pushObsMediaFile(f)
      PROVE  TrueEntry(man[h], h)'
  BY <1>27 DEF pushObsMediaFile, GoTo, Forgo, Done
<1>28. ASSUME NEW f \in Media, DropOldKey(f)
      PROVE  TrueEntry(man[h], h)'
  <2>1. disk[f] = Nothing
    BY <1>28 DEF DropOldKey, MediaStored
  <2>2. UNCHANGED <<disk, man>> /\ (h = f \/ s3'[h] = s3[h])
    BY <1>28 DEF DropOldKey, Forgo
  <2> QED
    BY <2>1, <2>2
<1>29. ASSUME NEW f \in Media, deleteObsMediaFile(f)
      PROVE  TrueEntry(man[h], h)'
  <2>1. disk[f] = Nothing
    BY <1>29 DEF deleteObsMediaFile, MediaStored
  <2>2. UNCHANGED <<disk, man>> /\ (h = f \/ s3'[h] = s3[h])
    BY <1>29 DEF deleteObsMediaFile, Forgo
  <2> QED
    BY <2>1, <2>2
<1>30. ASSUME NEW f \in Media, NEW g \in Media, renameFile(f, g)
      PROVE  TrueEntry(man[h], h)'
  <2>1. man'[h].source = man[h].source /\ man'[h].hash = man[h].hash
    BY <1>30 DEF renameFile, Touched, Stamped
  <2>2. CASE h \in {f, g}
    <3>1. man'[h].stamp = "old" /\ h \notin Config
      BY <1>30, <2>2 DEF renameFile, Touched, Stamped
    <3> QED
      BY <2>1, <3>1
  <2>3. CASE h \notin {f, g}
    <3>1. man'[h] = man[h] /\ disk'[h] = disk[h] /\ s3' = s3
      BY <1>30, <2>3 DEF renameFile, Touched
    <3> QED
      BY <3>1
  <2> QED
    BY <2>2, <2>3
<1>31. ASSUME NEW f \in Media, NEW g \in Media, CopyKey(f, g)
      PROVE  TrueEntry(man[h], h)'
  <2>1. disk[g] # Nothing /\ s3[f] \in {Nothing, disk[g]}
    BY <1>31 DEF CopyKey, MediaStored
  <2>2. s3' = s3 \/ s3' = [s3 EXCEPT ![g] = disk[g]]
    <3>1. CASE s3[f] # Nothing /\ s3' = [s3 EXCEPT ![g] = s3[f]]
      BY <2>1, <3>1
    <3> QED
      BY <1>31, <3>1 DEF CopyKey, Forgo
  <2>3. UNCHANGED <<disk, man>>
    BY <1>31 DEF CopyKey, Forgo
  <2> QED
    BY <2>1, <2>2, <2>3
<1>32. ASSUME NEW f \in Media, NEW g \in Media, RecordMedia(f, g)
      PROVE  TrueEntry(man[h], h)'
  <2>1. UNCHANGED <<disk, s3>>
    BY <1>32 DEF RecordMedia
  <2>2. CASE h = g /\ job # "delete"
    <3>1. disk[h] # Nothing /\ s3[h] = disk[h] /\ h \notin Config
      BY <1>32, <2>2 DEF RecordMedia, MediaStored
    <3>2. man'[h] = [stamp |-> "same", hash |-> Nothing, source |-> "overlay"]
      BY <1>32, <2>2 DEF RecordMedia
    <3> QED
      BY <2>1, <3>1, <3>2
  <2>3. CASE ~(h = g /\ job # "delete")
    <3>1. man'[h] \in {NoEntry, man[h]}
      BY <1>32, <2>3 DEF RecordMedia
    <3> QED
      BY <2>1, <3>1 DEF NoEntry
  <2> QED
    BY <2>2, <2>3
<1>33. CASE Crash
  BY <1>33 DEF Crash, Done
<1>34. CASE UNCHANGED vars
  BY <1>34 DEF vars
<1> HIDE DEF TrueEntry, TypeOK
<1> QED
  BY <1>1, <1>2, <1>3, <1>4, <1>5, <1>6, <1>7, <1>8, <1>9, <1>10, <1>11, <1>12, <1>13,
     <1>14, <1>15, <1>16, <1>17, <1>18, <1>19, <1>20, <1>21, <1>22, <1>23, <1>24, <1>25,
     <1>26, <1>27, <1>28, <1>29, <1>30, <1>31, <1>32, <1>33, <1>34 DEF Next

\* And the one in the memory of a push.
LEMMA MemStep ==
  ASSUME TypeOK, PhaseOfJob, NothingWithoutDir, TodoOfPhase, PulledSoFar, MediaStored, Spared,
         NEW h \in Files, TrueEntry(man[h], h), phase \in Pushing => TrueEntry(mem[h], h),
         [Next]_vars
  PROVE  phase' \in Pushing => TrueEntry(mem[h], h)'
<1> USE Names, ConstantsOK DEF TrueEntry, Restored, TypeOK, Pushing, node, stored, work,
        history
<1>1. ASSUME NEW f \in Config, MoveAside(f)
      PROVE  phase' \in Pushing => TrueEntry(mem[h], h)'
  BY <1>1 DEF MoveAside, Touch, Touched, Stamped
<1>2. ASSUME NEW f \in Config, RemoveFile(f)
      PROVE  phase' \in Pushing => TrueEntry(mem[h], h)'
  BY <1>2 DEF RemoveFile, Touch, Touched, Stamped
<1>3. ASSUME NEW f \in Config, NEW d \in Data, WriteFile(f, d)
      PROVE  phase' \in Pushing => TrueEntry(mem[h], h)'
  BY <1>3 DEF WriteFile, Touch, Touched, Stamped, Misremembers, Spared, Fault, PhaseOfJob
<1>4. CASE StopContainer
  BY <1>4 DEF StopContainer
<1>5. CASE Autosave
  BY <1>5 DEF Autosave, BeginPush
<1>6. CASE FinalPush
  BY <1>6 DEF FinalPush, BeginPush
<1>7. CASE RetryPush
  BY <1>7 DEF RetryPush, BeginPush
<1>8. ASSUME NEW f \in Files, KeepEntry(f)
      PROVE  phase' \in Pushing => TrueEntry(mem[h], h)'
  <2>1. UNCHANGED <<disk, s3>> /\ phase = "config"
    BY <1>8 DEF KeepEntry
  <2>2. CASE h = f
    <3>1. mem'[h].hash = mem[h].hash /\ mem'[h].source = mem[h].source
      BY <1>8, <2>2 DEF KeepEntry, Stamped
    <3>2. Restored(h) = disk[h] /\ disk[h] # Nothing
      BY <1>8, <2>2 DEF KeepEntry, TodoOfPhase
    <3> QED
      BY <2>1, <3>1, <3>2
  <2>3. CASE h # f
    BY <1>8, <2>1, <2>3 DEF KeepEntry
  <2> QED
    BY <2>2, <2>3
<1>9. ASSUME NEW f \in Files, HashFile(f)
      PROVE  phase' \in Pushing => TrueEntry(mem[h], h)'
  BY <1>9 DEF HashFile
<1>10. ASSUME NEW f \in Files, UploadFile(f)
      PROVE  phase' \in Pushing => TrueEntry(mem[h], h)'
  BY <1>10 DEF UploadFile, MayUpload, Finish, StampOf
<1>11. ASSUME NEW f \in Files, UploadFails(f)
      PROVE  phase' \in Pushing => TrueEntry(mem[h], h)'
  BY <1>11 DEF UploadFails, MayUpload, Finish, Unknown
<1>12. ASSUME NEW f \in Files, FileGone(f)
      PROVE  phase' \in Pushing => TrueEntry(mem[h], h)'
  BY <1>12 DEF FileGone, Finish
<1>13. CASE EndConfig
  <2>1. mem'[h] \in {NoEntry, mem[h]} /\ disk' = disk /\ (s3'[h] = s3[h] \/ disk[h] = Nothing)
    BY <1>13 DEF EndConfig, EndSection, DeleteGone
  <2> QED
    BY <1>13, <2>1 DEF EndConfig, NoEntry
<1>14. CASE EndMedia
  <2>1. mem'[h] \in {NoEntry, mem[h]} /\ disk' = disk /\ (s3'[h] = s3[h] \/ disk[h] = Nothing)
    BY <1>14 DEF EndMedia, EndSection, DeleteGone
  <2> QED
    BY <1>14, <2>1 DEF EndMedia, NoEntry
<1>15. CASE SaveManifest
  BY <1>15 DEF SaveManifest, Done, AfterPush
<1>16. CASE removeLocalConfig
  BY <1>16 DEF removeLocalConfig, Done, BeginPull
<1>17. CASE pullObsConfig
  BY <1>17 DEF pullObsConfig, BeginPush, BeginPull
<1>18. CASE applyTemplateProfile
  BY <1>18 DEF applyTemplateProfile
<1>19. ASSUME NEW f \in Files, Download(f)
      PROVE  phase' \in Pushing => TrueEntry(mem[h], h)'
  <2>1. phase' \notin Pushing
    BY <1>19 DEF Download, Layers
  <2> QED
    BY <2>1
<1>20. CASE PullOverlay
  BY <1>20 DEF PullOverlay
<1>21. CASE pullObsMedia
  BY <1>21 DEF pullObsMedia
<1>22. CASE EndPull
  BY <1>22 DEF EndPull, AfterPull
<1>23. CASE StartContainer
  BY <1>23 DEF StartContainer, Done
<1>24. CASE StartFails
  BY <1>24 DEF StartFails, Done
<1>25. ASSUME NEW f \in Media, deleteFile(f)
      PROVE  phase' \in Pushing => TrueEntry(mem[h], h)'
  BY <1>25 DEF deleteFile, BeginMedia, Touched, Stamped
<1>26. ASSUME NEW f \in Media, NEW d \in Data, uploadFile(f, d)
      PROVE  phase' \in Pushing => TrueEntry(mem[h], h)'
  BY <1>26 DEF uploadFile, BeginMedia, Touched, Stamped
<1>27. ASSUME NEW f \in Media, pushObsMediaFile(f)
      PROVE  phase' \in Pushing => TrueEntry(mem[h], h)'
  BY <1>27 DEF pushObsMediaFile, GoTo, Forgo, Done
<1>28. ASSUME NEW f \in Media, DropOldKey(f)
      PROVE  phase' \in Pushing => TrueEntry(mem[h], h)'
  BY <1>28 DEF DropOldKey, GoTo, Forgo, Done
<1>29. ASSUME NEW f \in Media, deleteObsMediaFile(f)
      PROVE  phase' \in Pushing => TrueEntry(mem[h], h)'
  BY <1>29 DEF deleteObsMediaFile, GoTo, Forgo, Done
<1>30. ASSUME NEW f \in Media, NEW g \in Media, renameFile(f, g)
      PROVE  phase' \in Pushing => TrueEntry(mem[h], h)'
  BY <1>30 DEF renameFile, BeginMedia, Touched, Stamped
<1>31. ASSUME NEW f \in Media, NEW g \in Media, CopyKey(f, g)
      PROVE  phase' \in Pushing => TrueEntry(mem[h], h)'
  BY <1>31 DEF CopyKey, GoTo, Forgo, Done
<1>32. ASSUME NEW f \in Media, NEW g \in Media, RecordMedia(f, g)
      PROVE  phase' \in Pushing => TrueEntry(mem[h], h)'
  BY <1>32 DEF RecordMedia, Done
<1>33. CASE Crash
  BY <1>33 DEF Crash, Done
<1>34. CASE UNCHANGED vars
  BY <1>34 DEF vars
<1> HIDE DEF TrueEntry, TypeOK
<1> QED
  BY <1>1, <1>2, <1>3, <1>4, <1>5, <1>6, <1>7, <1>8, <1>9, <1>10, <1>11, <1>12, <1>13,
     <1>14, <1>15, <1>16, <1>17, <1>18, <1>19, <1>20, <1>21, <1>22, <1>23, <1>24, <1>25,
     <1>26, <1>27, <1>28, <1>29, <1>30, <1>31, <1>32, <1>33, <1>34 DEF Next

-------------------------------------------------------------------------------
(* Nothing is removed before S3 has it: again for one file. *)

\* A push with OBS down deals with file after file.
LEMMA PushedStep ==
  ASSUME TypeOK, PhaseOfJob, NothingWithoutDir, TodoOfPhase, Spared,
         NEW h \in Files, TrueEntry(man[h], h), phase \in Pushing => TrueEntry(mem[h], h),
         PushedSoFar(h), [Next]_vars
  PROVE  PushedSoFar(h)'
<1> USE Names, ConstantsOK DEF PushedSoFar, TrueEntry, Restored, TypeOK, Pushing,
        Deleting, node, stored, work, history
<1>1. ASSUME NEW f \in Config, MoveAside(f)
      PROVE  PushedSoFar(h)'
  BY <1>1 DEF MoveAside, Touch
<1>2. ASSUME NEW f \in Config, RemoveFile(f)
      PROVE  PushedSoFar(h)'
  BY <1>2 DEF RemoveFile, Touch
<1>3. ASSUME NEW f \in Config, NEW d \in Data, WriteFile(f, d)
      PROVE  PushedSoFar(h)'
  <2>1. job' \notin Deleting
    BY <1>3 DEF WriteFile, Touch, PhaseOfJob
  <2> QED
    BY <2>1
<1>4. CASE StopContainer
  BY <1>4 DEF StopContainer
<1>5. CASE Autosave
  BY <1>5 DEF Autosave, BeginPush
<1>6. CASE FinalPush
  <2>1. CASE BeginPush("final", 1)
    <3>1. phase' = "config" /\ todo' = Changed(Config, man) /\ UNCHANGED <<disk, s3>>
      BY <1>6, <2>1 DEF FinalPush, BeginPush
    <3>2. h \in Config /\ h \notin todo' /\ disk[h] # Nothing => man[h].stamp = "same"
      BY <3>1 DEF Changed, Present
    <3> QED
      BY <3>1, <3>2
  <2> QED
    BY <1>6, <2>1 DEF FinalPush
<1>7. CASE RetryPush
  <2>1. CASE BeginPush("final", tries + 1)
    <3>1. phase' = "config" /\ todo' = Changed(Config, man) /\ UNCHANGED <<disk, s3>>
      BY <1>7, <2>1 DEF RetryPush, BeginPush
    <3>2. h \in Config /\ h \notin todo' /\ disk[h] # Nothing => man[h].stamp = "same"
      BY <3>1 DEF Changed, Present
    <3> QED
      BY <3>1, <3>2
  <2> QED
    BY <1>7, <2>1 DEF RetryPush
<1>8. ASSUME NEW f \in Files, KeepEntry(f)
      PROVE  PushedSoFar(h)'
  BY <1>8 DEF KeepEntry, Finish
<1>9. ASSUME NEW f \in Files, HashFile(f)
      PROVE  PushedSoFar(h)'
  BY <1>9 DEF HashFile
<1>10. ASSUME NEW f \in Files, UploadFile(f)
      PROVE  PushedSoFar(h)'
  BY <1>10 DEF UploadFile, MayUpload, Finish
<1>11. ASSUME NEW f \in Files, UploadFails(f)
      PROVE  PushedSoFar(h)'
  BY <1>11 DEF UploadFails, MayUpload, Finish
<1>12. ASSUME NEW f \in Files, FileGone(f)
      PROVE  PushedSoFar(h)'
  BY <1>12 DEF FileGone, Finish
<1>13. CASE EndConfig
  <2>1. /\ phase = "config" /\ phase' = "media" /\ todo = {} /\ todo' = Changed(Media, mem)
        /\ UNCHANGED <<job, disk>>
    BY <1>13 DEF EndConfig, EndSection
  <2>2. job \in Deleting => (disk[h] # Nothing => s3'[h] = s3[h]) /\ (failed' = 0 => failed = 0)
    BY <1>13 DEF EndConfig, EndSection, DeleteGone
  <2>3. CASE h \in Config
    BY <2>1, <2>2, <2>3
  <2>4. CASE h \notin Config
    <3>1. h \notin todo' /\ disk[h] # Nothing => mem[h].stamp = "same"
      BY <2>1, <2>4 DEF Changed, Present, Files
    <3>2. disk[h] # Nothing /\ h \notin todo' => Restored(h) = disk[h]
      BY <2>1, <3>1
    <3> QED
      BY <2>1, <2>2, <3>2
  <2> QED
    BY <2>3, <2>4
<1>14. CASE EndMedia
  <2>1. /\ phase = "media" /\ phase' = "save" /\ UNCHANGED <<job, disk, todo>>
    BY <1>14 DEF EndMedia, EndSection
  <2>2. job \in Deleting => (disk[h] # Nothing => s3'[h] = s3[h]) /\ (failed' = 0 => failed = 0)
    BY <1>14 DEF EndMedia, EndSection, DeleteGone
  <2> QED
    BY <2>1, <2>2
<1>15. CASE SaveManifest
  BY <1>15 DEF SaveManifest, Done, AfterPush
<1>16. CASE removeLocalConfig
  BY <1>16 DEF removeLocalConfig, Done, BeginPull
<1>17. CASE pullObsConfig
  <2>1. CASE BeginPush("leftover", 1)
    <3>1. phase' = "config" /\ todo' = Changed(Config, man) /\ UNCHANGED <<disk, s3>>
      BY <1>17, <2>1 DEF pullObsConfig, BeginPush
    <3>2. h \in Config /\ h \notin todo' /\ disk[h] # Nothing => man[h].stamp = "same"
      BY <3>1 DEF Changed, Present
    <3> QED
      BY <3>1, <3>2
  <2>2. CASE BeginPull
    BY <2>2 DEF BeginPull
  <2> QED
    BY <1>17, <2>1, <2>2 DEF pullObsConfig
<1>18. CASE applyTemplateProfile
  BY <1>18 DEF applyTemplateProfile
<1>19. ASSUME NEW f \in Files, Download(f)
      PROVE  PushedSoFar(h)'
  <2>1. phase' \notin Pushing \cup {"remove"}
    BY <1>19 DEF Download, Layers
  <2> QED
    BY <2>1
<1>20. CASE PullOverlay
  BY <1>20 DEF PullOverlay
<1>21. CASE pullObsMedia
  BY <1>21 DEF pullObsMedia
<1>22. CASE EndPull
  BY <1>22 DEF EndPull, AfterPull
<1>23. CASE StartContainer
  BY <1>23 DEF StartContainer, Done
<1>24. CASE StartFails
  BY <1>24 DEF StartFails, Done
<1>25. ASSUME NEW f \in Media, deleteFile(f)
      PROVE  PushedSoFar(h)'
  BY <1>25 DEF deleteFile, BeginMedia
<1>26. ASSUME NEW f \in Media, NEW d \in Data, uploadFile(f, d)
      PROVE  PushedSoFar(h)'
  BY <1>26 DEF uploadFile, BeginMedia
<1>27. ASSUME NEW f \in Media, pushObsMediaFile(f)
      PROVE  PushedSoFar(h)'
  BY <1>27 DEF pushObsMediaFile, GoTo, Forgo, Done
<1>28. ASSUME NEW f \in Media, DropOldKey(f)
      PROVE  PushedSoFar(h)'
  BY <1>28 DEF DropOldKey, GoTo, Forgo, Done
<1>29. ASSUME NEW f \in Media, deleteObsMediaFile(f)
      PROVE  PushedSoFar(h)'
  BY <1>29 DEF deleteObsMediaFile, GoTo, Forgo, Done
<1>30. ASSUME NEW f \in Media, NEW g \in Media, renameFile(f, g)
      PROVE  PushedSoFar(h)'
  BY <1>30 DEF renameFile, BeginMedia
<1>31. ASSUME NEW f \in Media, NEW g \in Media, CopyKey(f, g)
      PROVE  PushedSoFar(h)'
  BY <1>31 DEF CopyKey, GoTo, Forgo, Done
<1>32. ASSUME NEW f \in Media, NEW g \in Media, RecordMedia(f, g)
      PROVE  PushedSoFar(h)'
  BY <1>32 DEF RecordMedia, Done
<1>33. CASE Crash
  BY <1>33 DEF Crash, Done
<1>34. CASE UNCHANGED vars
  BY <1>34 DEF vars
<1> HIDE DEF TrueEntry, TypeOK, PushedSoFar
<1> QED
  BY <1>1, <1>2, <1>3, <1>4, <1>5, <1>6, <1>7, <1>8, <1>9, <1>10, <1>11, <1>12, <1>13,
     <1>14, <1>15, <1>16, <1>17, <1>18, <1>19, <1>20, <1>21, <1>22, <1>23, <1>24, <1>25,
     <1>26, <1>27, <1>28, <1>29, <1>30, <1>31, <1>32, <1>33, <1>34 DEF Next

\* The user's file is on the disk, or in S3 while the directory is made or gone.
LEMMA EditStep ==
  ASSUME TypeOK, PhaseOfJob, NothingWithoutDir, TodoOfPhase, PulledSoFar, Spared,
         NEW h \in Files, TrueEntry(man[h], h), phase \in Pushing => TrueEntry(mem[h], h),
         PushedSoFar(h), EditKept(h), [Next]_vars
  PROVE  EditKept(h)'
<1> USE Names, ConstantsOK DEF EditKept, Restored, TypeOK, PhaseOfJob, Layers, Pushing,
        Deleting, node, stored, work, history
<1>1. ASSUME NEW f \in Config, MoveAside(f)
      PROVE  EditKept(h)'
  BY <1>1 DEF MoveAside, Touch
<1>2. ASSUME NEW f \in Config, RemoveFile(f)
      PROVE  EditKept(h)'
  BY <1>2 DEF RemoveFile, Touch
<1>3. ASSUME NEW f \in Config, NEW d \in Data, WriteFile(f, d)
      PROVE  EditKept(h)'
  BY <1>3 DEF WriteFile, Touch
<1>4. CASE StopContainer
  BY <1>4 DEF StopContainer
<1>5. CASE Autosave
  BY <1>5 DEF Autosave, BeginPush
<1>6. CASE FinalPush
  BY <1>6 DEF FinalPush, BeginPush
<1>7. CASE RetryPush
  BY <1>7 DEF RetryPush, BeginPush
<1>8. ASSUME NEW f \in Files, KeepEntry(f)
      PROVE  EditKept(h)'
  BY <1>8 DEF KeepEntry, Finish
<1>9. ASSUME NEW f \in Files, HashFile(f)
      PROVE  EditKept(h)'
  BY <1>9 DEF HashFile
<1>10. ASSUME NEW f \in Files, UploadFile(f)
      PROVE  EditKept(h)'
  BY <1>10 DEF UploadFile, MayUpload, Finish
<1>11. ASSUME NEW f \in Files, UploadFails(f)
      PROVE  EditKept(h)'
  BY <1>11 DEF UploadFails, MayUpload, Finish
<1>12. ASSUME NEW f \in Files, FileGone(f)
      PROVE  EditKept(h)'
  BY <1>12 DEF FileGone, Finish
<1>13. CASE EndConfig
  BY <1>13 DEF EndConfig, EndSection
<1>14. CASE EndMedia
  BY <1>14 DEF EndMedia, EndSection
<1>15. CASE SaveManifest
  BY <1>15 DEF SaveManifest, Done, AfterPush
<1>16. CASE removeLocalConfig
  <2>1. /\ phase = "remove" /\ job \in Deleting /\ dir = "there" /\ todo = {} /\ failed = 0
        /\ UNCHANGED <<s3, want, moving>>
    BY <1>16 DEF removeLocalConfig, TodoOfPhase
  <2>2. dir' = "gone" \/ phase' \in Layers
    BY <1>16 DEF removeLocalConfig, BeginPull
  <2>3. want[h] # Nothing /\ h \notin moving => Restored(h) = want[h]
    BY <2>1 DEF PushedSoFar
  <2> QED
    BY <2>1, <2>2, <2>3
<1>17. CASE pullObsConfig
  BY <1>17 DEF pullObsConfig, BeginPush, BeginPull
<1>18. CASE applyTemplateProfile
  BY <1>18 DEF applyTemplateProfile
<1>19. ASSUME NEW f \in Files, Download(f)
      PROVE  EditKept(h)'
  BY <1>19 DEF Download
<1>20. CASE PullOverlay
  BY <1>20 DEF PullOverlay
<1>21. CASE pullObsMedia
  BY <1>21 DEF pullObsMedia
<1>22. CASE EndPull
  <2>1. /\ phase = "media files" /\ dir = "there" /\ phase' \notin Layers
        /\ UNCHANGED <<dir, disk, moving, s3>>
        /\ want'[h] \in {want[h], s3[h]} /\ (want[h] = want'[h] \/ want'[h] = s3[h])
    BY <1>22 DEF EndPull, AfterPull
  <2>2. CASE s3[h] # Nothing
    <3>1. Pulled(h, "overlay")
      BY <1>22, <2>2 DEF EndPull, PulledSoFar
    <3> QED
      BY <2>1, <2>2, <3>1 DEF Pulled, Content
  <2>3. CASE s3[h] = Nothing
    <3>1. Based(h)
      BY <1>22, <2>3 DEF EndPull, PulledSoFar
    <3> QED
      BY <2>1, <2>3, <3>1 DEF Based, Bare, Pulled, Content
  <2> QED
    BY <2>2, <2>3
<1>23. CASE StartContainer
  BY <1>23 DEF StartContainer, Done
<1>24. CASE StartFails
  BY <1>24 DEF StartFails, Done
<1>25. ASSUME NEW f \in Media, deleteFile(f)
      PROVE  EditKept(h)'
  BY <1>25 DEF deleteFile, BeginMedia
<1>26. ASSUME NEW f \in Media, NEW d \in Data, uploadFile(f, d)
      PROVE  EditKept(h)'
  <2>1. dir = "there" /\ phase = "idle" /\ phase' = "put" /\ dir' = "there" /\ UNCHANGED moving
    BY <1>26 DEF uploadFile, BeginMedia, Spared, Fault
  <2>2. CASE h = f
    <3>1. disk'[h] = want'[h]
      BY <1>26, <2>2 DEF uploadFile
    <3> QED
      BY <2>1, <3>1
  <2>3. CASE h # f
    <3>1. disk'[h] = disk[h] /\ want'[h] = want[h]
      BY <1>26, <2>3 DEF uploadFile
    <3> QED
      BY <2>1, <3>1
  <2> QED
    BY <2>2, <2>3
<1>27. ASSUME NEW f \in Media, pushObsMediaFile(f)
      PROVE  EditKept(h)'
  BY <1>27 DEF pushObsMediaFile, GoTo, Forgo, Done
<1>28. ASSUME NEW f \in Media, DropOldKey(f)
      PROVE  EditKept(h)'
  BY <1>28 DEF DropOldKey, GoTo, Forgo, Done
<1>29. ASSUME NEW f \in Media, deleteObsMediaFile(f)
      PROVE  EditKept(h)'
  BY <1>29 DEF deleteObsMediaFile, GoTo, Forgo, Done
<1>30. ASSUME NEW f \in Media, NEW g \in Media, renameFile(f, g)
      PROVE  EditKept(h)'
  <2>1. phase = "idle" /\ phase' = "copy" /\ UNCHANGED <<dir, moving>>
    BY <1>30 DEF renameFile, BeginMedia
  <2>2. dir = "there"
    BY <1>30, Names DEF renameFile, NothingWithoutDir, Blank
  <2>3. CASE h = f
    <3>1. want'[h] = Nothing
      BY <1>30, <2>3 DEF renameFile
    <3> QED
      BY <3>1
  <2>4. CASE h = g
    <3>1. disk'[h] = want'[h]
      BY <1>30, <2>4 DEF renameFile
    <3> QED
      BY <2>1, <2>2, <3>1
  <2>5. CASE h \notin {f, g}
    <3>1. disk'[h] = disk[h] /\ want'[h] = want[h]
      BY <1>30, <2>5 DEF renameFile
    <3> QED
      BY <2>1, <2>2, <3>1
  <2> QED
    BY <2>3, <2>4, <2>5
<1>31. ASSUME NEW f \in Media, NEW g \in Media, CopyKey(f, g)
      PROVE  EditKept(h)'
  BY <1>31 DEF CopyKey, GoTo, Forgo, Done
<1>32. ASSUME NEW f \in Media, NEW g \in Media, RecordMedia(f, g)
      PROVE  EditKept(h)'
  BY <1>32 DEF RecordMedia, Done
<1>33. CASE Crash
  BY <1>33 DEF Crash, Done
<1>34. CASE UNCHANGED vars
  BY <1>34 DEF vars
<1> HIDE DEF TypeOK, EditKept, PhaseOfJob
<1> QED
  BY <1>1, <1>2, <1>3, <1>4, <1>5, <1>6, <1>7, <1>8, <1>9, <1>10, <1>11, <1>12, <1>13,
     <1>14, <1>15, <1>16, <1>17, <1>18, <1>19, <1>20, <1>21, <1>22, <1>23, <1>24, <1>25,
     <1>26, <1>27, <1>28, <1>29, <1>30, <1>31, <1>32, <1>33, <1>34 DEF Next

-------------------------------------------------------------------------------

\* An instance that was stopped properly has all of the user's files in S3.
LEMMA EditsInit == Init => EditsInv
<1> SUFFICES ASSUME Init PROVE EditsInv
  OBVIOUS
<1>1. TypeOK /\ PhaseOfJob /\ NothingWithoutDir
  BY ControlInit DEF ControlInv
<1>2. Truthful(man) /\ phase \notin Pushing
  BY DEF Init, Truthful, TrueEntry, emptyManifest, NoEntry, Blank, Pushing
<1>3. TodoOfPhase /\ PulledSoFar /\ MediaStored
  BY DEF Init, TodoOfPhase, PulledSoFar, MediaStored, Layers
<1>4. ASSUME NEW f \in Files
      PROVE  PushedSoFar(f) /\ EditKept(f)
  BY DEF Init, PushedSoFar, EditKept, Deleting, Restored
<1> QED
  BY <1>1, <1>2, <1>3, <1>4 DEF EditsInv

\* Every step keeps the invariant.
LEMMA EditsStep ==
  ASSUME Spared, EditsInv, [Next]_vars
  PROVE  EditsInv'
<1>1. /\ TypeOK /\ PhaseOfJob /\ NothingWithoutDir
      /\ TodoOfPhase /\ PulledSoFar /\ MediaStored
  BY DEF EditsInv
<1>2. TypeOK' /\ PhaseOfJob' /\ NothingWithoutDir'
  BY <1>1, TypeStep, PhaseStep, DirStep
<1>3. TodoOfPhase' /\ PulledSoFar' /\ MediaStored'
  BY <1>1, TodoStep, PulledStep, MediaStep
<1>4. ASSUME NEW f \in Files
      PROVE  /\ TrueEntry(man[f], f)
             /\ phase \in Pushing => TrueEntry(mem[f], f)
             /\ PushedSoFar(f) /\ EditKept(f)
  BY DEF EditsInv, Truthful
<1>5. ASSUME NEW f \in Files
      PROVE  /\ TrueEntry(man[f], f)'
             /\ phase' \in Pushing => TrueEntry(mem[f], f)'
             /\ PushedSoFar(f)' /\ EditKept(f)'
  BY <1>1, <1>4, ManStep, MemStep, PushedStep, EditStep
<1>6. Truthful(man)'
  BY <1>5 DEF Truthful
<1>7. (phase \in Pushing => Truthful(mem))'
  BY <1>5 DEF Truthful, Pushing
<1>8. (\A f \in Files : PushedSoFar(f) /\ EditKept(f))'
  BY <1>5
<1> QED
  BY <1>2, <1>3, <1>6, <1>7, <1>8 DEF EditsInv

\* What the user last made of a file is on the disk or in S3 at all times, through
\* failing uploads and deletions, retries, autosaves, leftover directories and
\* crashes (push.ts:63-66, pull.ts:31-36).
THEOREM EditsSurvive ==
  ASSUME Spared
  PROVE  Spec => []NoLostEdit
<1>1. Init => EditsInv
  BY EditsInit
<1>2. EditsInv /\ [Next]_vars => EditsInv'
  BY EditsStep
<1>3. EditsInv => NoLostEdit
  BY DEF EditsInv, NoLostEdit, EditKept
<1> QED
  BY <1>1, <1>2, <1>3, PTL DEF Spec

-------------------------------------------------------------------------------
(* What is deleted stays away.  It does not need the manifest to be truthful *)
(* about contents, only to have the keys.                                    *)

\* Nor do the mishaps happen after which S3 has keys that nobody looks for.
NoStrayKeys == Faults \cap {"behind", "refused"} = {}

\* A rename or a delete is recorded when its old key is gone.
LEMMA OldKeyStep ==
  ASSUME TypeOK, PhaseOfJob, OldKeyGone, NoStrayKeys, [Next]_vars
  PROVE  OldKeyGone'
<1> USE Names, ConstantsOK DEF OldKeyGone, PhaseOfJob, MediaPhases, Pushing, Deleting,
        TypeOK, Fault, NoStrayKeys, Layers, node, stored, work, history
<1>1. ASSUME NEW f \in Config, MoveAside(f)
      PROVE  OldKeyGone'
  BY <1>1 DEF MoveAside, Touch
<1>2. ASSUME NEW f \in Config, RemoveFile(f)
      PROVE  OldKeyGone'
  BY <1>2 DEF RemoveFile, Touch
<1>3. ASSUME NEW f \in Config, NEW d \in Data, WriteFile(f, d)
      PROVE  OldKeyGone'
  BY <1>3 DEF WriteFile, Touch
<1>4. CASE StopContainer
  BY <1>4 DEF StopContainer
<1>5. CASE Autosave
  BY <1>5 DEF Autosave, BeginPush
<1>6. CASE FinalPush
  BY <1>6 DEF FinalPush, BeginPush
<1>7. CASE RetryPush
  BY <1>7 DEF RetryPush, BeginPush
<1>8. ASSUME NEW f \in Files, KeepEntry(f)
      PROVE  OldKeyGone'
  BY <1>8 DEF KeepEntry, Finish
<1>9. ASSUME NEW f \in Files, HashFile(f)
      PROVE  OldKeyGone'
  BY <1>9 DEF HashFile
<1>10. ASSUME NEW f \in Files, UploadFile(f)
      PROVE  OldKeyGone'
  BY <1>10 DEF UploadFile, MayUpload, Finish
<1>11. ASSUME NEW f \in Files, UploadFails(f)
      PROVE  OldKeyGone'
  BY <1>11 DEF UploadFails, MayUpload, Finish
<1>12. ASSUME NEW f \in Files, FileGone(f)
      PROVE  OldKeyGone'
  BY <1>12 DEF FileGone, Finish
<1>13. CASE EndConfig
  BY <1>13 DEF EndConfig, EndSection
<1>14. CASE EndMedia
  BY <1>14 DEF EndMedia, EndSection
<1>15. CASE SaveManifest
  BY <1>15 DEF SaveManifest, Done, AfterPush
<1>16. CASE removeLocalConfig
  BY <1>16 DEF removeLocalConfig, Done, BeginPull
<1>17. CASE pullObsConfig
  BY <1>17 DEF pullObsConfig, BeginPush, BeginPull
<1>18. CASE applyTemplateProfile
  BY <1>18 DEF applyTemplateProfile
<1>19. ASSUME NEW f \in Files, Download(f)
      PROVE  OldKeyGone'
  BY <1>19 DEF Download
<1>20. CASE PullOverlay
  BY <1>20 DEF PullOverlay
<1>21. CASE pullObsMedia
  BY <1>21 DEF pullObsMedia
<1>22. CASE EndPull
  BY <1>22 DEF EndPull, AfterPull
<1>23. CASE StartContainer
  BY <1>23 DEF StartContainer, Done
<1>24. CASE StartFails
  BY <1>24 DEF StartFails, Done
<1>25. ASSUME NEW f \in Media, deleteFile(f)
      PROVE  OldKeyGone'
  BY <1>25 DEF deleteFile, BeginMedia
<1>26. ASSUME NEW f \in Media, NEW d \in Data, uploadFile(f, d)
      PROVE  OldKeyGone'
  BY <1>26 DEF uploadFile, BeginMedia
<1>27. ASSUME NEW f \in Media, pushObsMediaFile(f)
      PROVE  OldKeyGone'
  BY <1>27 DEF pushObsMediaFile, GoTo, Forgo, Done
<1>28. ASSUME NEW f \in Media, DropOldKey(f)
      PROVE  OldKeyGone'
  BY <1>28 DEF DropOldKey, GoTo, Forgo, Done
<1>29. ASSUME NEW f \in Media, deleteObsMediaFile(f)
      PROVE  OldKeyGone'
  BY <1>29 DEF deleteObsMediaFile, GoTo, Forgo, Done
<1>30. ASSUME NEW f \in Media, NEW g \in Media, renameFile(f, g)
      PROVE  OldKeyGone'
  BY <1>30 DEF renameFile, BeginMedia
<1>31. ASSUME NEW f \in Media, NEW g \in Media, CopyKey(f, g)
      PROVE  OldKeyGone'
  BY <1>31 DEF CopyKey, GoTo, Forgo, Done
<1>32. ASSUME NEW f \in Media, NEW g \in Media, RecordMedia(f, g)
      PROVE  OldKeyGone'
  BY <1>32 DEF RecordMedia, Done
<1>33. CASE Crash
  BY <1>33 DEF Crash, Done
<1>34. CASE UNCHANGED vars
  BY <1>34 DEF vars
<1> QED
  BY <1>1, <1>2, <1>3, <1>4, <1>5, <1>6, <1>7, <1>8, <1>9, <1>10, <1>11, <1>12, <1>13,
     <1>14, <1>15, <1>16, <1>17, <1>18, <1>19, <1>20, <1>21, <1>22, <1>23, <1>24, <1>25,
     <1>26, <1>27, <1>28, <1>29, <1>30, <1>31, <1>32, <1>33, <1>34 DEF Next

\* OBS makes entries old, no more.
LEMMA TouchKeeps ==
  ASSUME NEW G, Touch(G), NEW h \in Files
  PROVE  /\ man'[h].source = man[h].source /\ man'[h].hash = man[h].hash
         /\ mem'[h].source = mem[h].source /\ mem'[h].hash = mem[h].hash
         /\ UNCHANGED <<job, phase, todo, hashed, failed, tries, target>>
BY DEF Touch, Touched, Stamped

\* The entries that a pull makes.
LEMMA PulledEntry ==
  ASSUME NEW f, Pulled(f, "overlay")
  PROVE  mem[f].source = "overlay"
BY DEF Pulled, EntryOf

LEMMA BasedEntry ==
  ASSUME NEW f, Based(f), disk[f] # Nothing
  PROVE  /\ f \in Template /\ disk[f] = Plain
         /\ mem[f].source = "template" /\ mem[f].hash = Plain
<1>1. f \in Template /\ Pulled(f, "template")
  BY DEF Based, Bare
<1>2. f \in Config
  BY <1>1, ConstantsOK
<1> QED
  BY <1>1, <1>2 DEF Pulled, Content, EntryOf

\* A media operation that fails leaves its keys among the untracked ones.
LEMMA ForgoKeys ==
  ASSUME NEW keys, Forgo(keys), dir = "there", NEW h \in Files
  PROVE  KeyKnown(h)'
BY DEF Forgo, Unknown, KeyKnown, Done, Pushing, Layers, node

\* No key is lost sight of.
LEMMA KeyStep ==
  ASSUME TypeOK, PhaseOfJob, NothingWithoutDir, TodoOfPhase, PulledSoFar, OldKeyGone, NoStrayKeys,
         NEW h \in Files, KeyKnown(h), SweptSoFar(h), NotTheirs(h), [Next]_vars
  PROVE  KeyKnown(h)'
<1> USE Names, ConstantsOK DEF KeyKnown, TypeOK, MediaPhases, Pushing, Layers, Unknown,
        node, stored, work, history
<1>1. ASSUME NEW f \in Config, MoveAside(f)
      PROVE  KeyKnown(h)'
  <2>1. dir = "there" /\ phase \notin Layers /\ UNCHANGED <<dir, s3, untracked>>
    BY <1>1 DEF MoveAside, PhaseOfJob
  <2>2. Touch({f})
    BY <1>1 DEF MoveAside
  <2> QED
    BY <2>1, <2>2, TouchKeeps
<1>2. ASSUME NEW f \in Config, RemoveFile(f)
      PROVE  KeyKnown(h)'
  <2>1. dir = "there" /\ phase \notin Layers /\ UNCHANGED <<dir, s3, untracked>>
    BY <1>2 DEF RemoveFile, PhaseOfJob
  <2>2. Touch({f})
    BY <1>2 DEF RemoveFile
  <2> QED
    BY <2>1, <2>2, TouchKeeps
<1>3. ASSUME NEW f \in Config, NEW d \in Data, WriteFile(f, d)
      PROVE  KeyKnown(h)'
  <2>1. dir = "there" /\ phase \notin Layers /\ UNCHANGED <<dir, s3, untracked>>
    BY <1>3 DEF WriteFile, PhaseOfJob
  <2>2. Touch({f})
    BY <1>3 DEF WriteFile
  <2> QED
    BY <2>1, <2>2, TouchKeeps
<1>4. CASE StopContainer
  BY <1>4 DEF StopContainer
<1>5. CASE Autosave
  <2>1. phase = "idle" /\ dir = "there" /\ phase' = "config" /\ mem' = man
        /\ UNCHANGED <<dir, s3, untracked>>
    BY <1>5 DEF Autosave, BeginPush, PhaseOfJob
  <2> QED
    BY <2>1
<1>6. CASE FinalPush
  <2>1. phase = "idle" /\ dir = "there" /\ phase' = "config" /\ mem' = man
        /\ UNCHANGED <<dir, s3, untracked>>
    BY <1>6 DEF FinalPush, BeginPush, PhaseOfJob
  <2> QED
    BY <2>1
<1>7. CASE RetryPush
  BY <1>7 DEF RetryPush, BeginPush
<1>8. ASSUME NEW f \in Files, KeepEntry(f)
      PROVE  KeyKnown(h)'
  <2>1. phase = "config" /\ UNCHANGED <<phase, dir, s3, want, untracked>>
    BY <1>8 DEF KeepEntry, Finish
  <2>2. mem'[h].source = mem[h].source
    BY <1>8 DEF KeepEntry, Stamped
  <2> QED
    BY <2>1, <2>2
<1>9. ASSUME NEW f \in Files, HashFile(f)
      PROVE  KeyKnown(h)'
  BY <1>9 DEF HashFile
<1>10. ASSUME NEW f \in Files, UploadFile(f)
      PROVE  KeyKnown(h)'
  <2>1. /\ phase \in Pushing /\ dir = "there" /\ UNCHANGED <<phase, dir, untracked>>
    BY <1>10 DEF UploadFile, Finish, MayUpload, PhaseOfJob
  <2>2. CASE h = f
    <3>1. mem'[h].source = "overlay"
      BY <1>10, <2>2 DEF UploadFile
    <3> QED
      BY <2>1, <3>1
  <2>3. CASE h # f
    <3>1. s3'[h] = s3[h] /\ mem'[h] = mem[h] /\ (h \in untracked => h \in untracked')
      BY <1>10, <2>3 DEF UploadFile
    <3> QED
      BY <2>1, <3>1
  <2> QED
    BY <2>2, <2>3
<1>11. ASSUME NEW f \in Files, UploadFails(f)
      PROVE  KeyKnown(h)'
  <2>1. /\ phase \in Pushing /\ dir = "there" /\ UNCHANGED <<phase, dir, mem>>
    BY <1>11 DEF UploadFails, Finish, MayUpload, PhaseOfJob
  <2>2. CASE h = f
    <3>1. s3'[h] # Nothing => mem[h].source = "overlay" \/ h \in untracked'
      BY <1>11, <2>2 DEF UploadFails, Unknown
    <3> QED
      BY <2>1, <3>1
  <2>3. CASE h # f
    <3>1. s3'[h] = s3[h] /\ mem'[h] = mem[h] /\ (h \in untracked => h \in untracked')
      BY <1>11, <2>3 DEF UploadFails
    <3> QED
      BY <2>1, <3>1
  <2> QED
    BY <2>2, <2>3
<1>12. ASSUME NEW f \in Files, FileGone(f)
      PROVE  KeyKnown(h)'
  BY <1>12 DEF FileGone, Finish
<1>13. CASE EndConfig
  BY <1>13 DEF EndConfig, EndSection, DeleteGone
<1>14. CASE EndMedia
  BY <1>14 DEF EndMedia, EndSection, DeleteGone
<1>15. CASE SaveManifest
  <2>1. /\ phase = "save" /\ dir = "there" /\ phase' \notin Pushing \cup Layers /\ man' = mem
        /\ UNCHANGED <<dir, s3>> /\ untracked' = untracked \cap Unknown(mem, s3)
    BY <1>15 DEF SaveManifest, Done, AfterPush, PhaseOfJob
  <2> QED
    BY <2>1
<1>16. CASE removeLocalConfig
  <2>1. /\ phase = "remove" /\ job \in Deleting /\ dir = "there" /\ failed = 0
        /\ UNCHANGED <<s3, want, untracked>>
    BY <1>16 DEF removeLocalConfig, TodoOfPhase, PhaseOfJob
  <2>2. dir' = "gone" \/ phase' \in Layers
    BY <1>16 DEF removeLocalConfig, BeginPull
  <2>3. s3[h] # Nothing /\ h \notin untracked => man[h].source = "overlay"
    BY <2>1
  <2>4. man[h].source = "overlay" => disk[h] # Nothing /\ want[h] # Nothing
    BY <2>1 DEF SweptSoFar, NotTheirs, FromTemplate
  <2> QED
    BY <2>1, <2>2, <2>3, <2>4
<1>17. CASE pullObsConfig
  <2>1. phase = "idle" /\ UNCHANGED <<s3, want, untracked>>
    BY <1>17 DEF pullObsConfig, PhaseOfJob
  <2>2. CASE dir = "there" /\ BeginPush("leftover", 1) /\ UNCHANGED dir
    <3>1. phase' = "config" /\ mem' = man /\ dir = "there" /\ dir' = "there"
      BY <2>2 DEF BeginPush
    <3> QED
      BY <2>1, <3>1
  <2>3. CASE dir = "gone" /\ BeginPull
    <3>1. dir = "gone" /\ phase' = "template"
      BY <2>3 DEF BeginPull
    <3> QED
      BY <2>1, <3>1
  <2> QED
    BY <1>17, <2>2, <2>3 DEF pullObsConfig
<1>18. CASE applyTemplateProfile
  BY <1>18 DEF applyTemplateProfile
<1>19. ASSUME NEW f \in Files, Download(f)
      PROVE  KeyKnown(h)'
  BY <1>19 DEF Download
<1>20. CASE PullOverlay
  BY <1>20 DEF PullOverlay
<1>21. CASE pullObsMedia
  BY <1>21 DEF pullObsMedia
<1>22. CASE EndPull
  <2>1. /\ dir = "there" /\ dir' = "there" /\ phase' = "ready" /\ man' = mem /\ s3' = s3
    BY <1>22 DEF EndPull, AfterPull, PhaseOfJob
  <2>2. s3[h] # Nothing => Pulled(h, "overlay")
    BY <1>22 DEF EndPull, PulledSoFar
  <2>3. s3[h] # Nothing => mem[h].source = "overlay"
    BY <2>2, PulledEntry
  <2> QED
    BY <2>1, <2>3
<1>23. CASE StartContainer
  BY <1>23 DEF StartContainer, Done
<1>24. CASE StartFails
  BY <1>24 DEF StartFails, Done
<1>25. ASSUME NEW f \in Media, deleteFile(f)
      PROVE  KeyKnown(h)'
  <2>1. phase = "idle" /\ phase' \in MediaPhases /\ UNCHANGED <<s3, untracked>>
    BY <1>25 DEF deleteFile, BeginMedia, PhaseOfJob
  <2>2. dir = "there" /\ dir' = "there"
    BY <1>25, Names DEF deleteFile, NothingWithoutDir, Blank, NoStrayKeys, Fault
  <2>3. man'[h].source = man[h].source
    BY <1>25 DEF deleteFile, Touched, Stamped
  <2> QED
    BY <2>1, <2>2, <2>3
<1>26. ASSUME NEW f \in Media, NEW d \in Data, uploadFile(f, d)
      PROVE  KeyKnown(h)'
  <2>1. phase = "idle" /\ phase' \in MediaPhases /\ UNCHANGED <<s3, untracked>>
    BY <1>26 DEF uploadFile, BeginMedia, PhaseOfJob
  <2>2. dir = "there" /\ dir' = "there"
    BY <1>26, Names DEF uploadFile, NothingWithoutDir, Blank, NoStrayKeys, Fault
  <2>3. man'[h].source = man[h].source
    BY <1>26 DEF uploadFile, Touched, Stamped
  <2> QED
    BY <2>1, <2>2, <2>3
<1>27. ASSUME NEW f \in Media, pushObsMediaFile(f)
      PROVE  KeyKnown(h)'
  <2>1. phase = "put" /\ dir = "there"
    BY <1>27 DEF pushObsMediaFile, PhaseOfJob
  <2>2. CASE Forgo({s3, [s3 EXCEPT ![f] = disk[f]]})
    BY <2>1, <2>2, ForgoKeys
  <2>3. CASE ~Forgo({s3, [s3 EXCEPT ![f] = disk[f]]})
    <3>1. /\ phase' \in MediaPhases /\ UNCHANGED <<dir, man, untracked, target>>
          /\ (h = target[1] \/ s3'[h] = s3[h])
      BY <1>27, <2>3 DEF pushObsMediaFile, GoTo
    <3> QED
      BY <2>1, <3>1
  <2> QED
    BY <2>2, <2>3
<1>28. ASSUME NEW f \in Media, DropOldKey(f)
      PROVE  KeyKnown(h)'
  <2>1. phase = "drop" /\ dir = "there"
    BY <1>28 DEF DropOldKey, PhaseOfJob
  <2>2. CASE Forgo({s3, [s3 EXCEPT ![f] = Nothing]})
    BY <2>1, <2>2, ForgoKeys
  <2>3. CASE ~Forgo({s3, [s3 EXCEPT ![f] = Nothing]})
    <3>1. /\ phase' \in MediaPhases /\ UNCHANGED <<dir, man, untracked, target>>
          /\ (s3'[h] \in {s3[h], Nothing})
      BY <1>28, <2>3 DEF DropOldKey, GoTo
    <3> QED
      BY <2>1, <3>1
  <2> QED
    BY <2>2, <2>3
<1>29. ASSUME NEW f \in Media, deleteObsMediaFile(f)
      PROVE  KeyKnown(h)'
  <2>1. phase = "unkey" /\ dir = "there"
    BY <1>29 DEF deleteObsMediaFile, PhaseOfJob
  <2>2. CASE Forgo({s3, [s3 EXCEPT ![f] = Nothing]})
    BY <2>1, <2>2, ForgoKeys
  <2>3. CASE ~Forgo({s3, [s3 EXCEPT ![f] = Nothing]})
    <3>1. /\ phase' \in MediaPhases /\ UNCHANGED <<dir, man, untracked, target>>
          /\ (s3'[h] \in {s3[h], Nothing})
      BY <1>29, <2>3 DEF deleteObsMediaFile, GoTo
    <3> QED
      BY <2>1, <3>1
  <2> QED
    BY <2>2, <2>3
<1>30. ASSUME NEW f \in Media, NEW g \in Media, renameFile(f, g)
      PROVE  KeyKnown(h)'
  <2>1. phase = "idle" /\ phase' \in MediaPhases /\ UNCHANGED <<s3, untracked>>
    BY <1>30 DEF renameFile, BeginMedia, PhaseOfJob
  <2>2. dir = "there" /\ dir' = "there"
    BY <1>30, Names DEF renameFile, NothingWithoutDir, Blank, NoStrayKeys, Fault
  <2>3. man'[h].source = man[h].source
    BY <1>30 DEF renameFile, Touched, Stamped
  <2> QED
    BY <2>1, <2>2, <2>3
<1>31. ASSUME NEW f \in Media, NEW g \in Media, CopyKey(f, g)
      PROVE  KeyKnown(h)'
  <2>1. phase = "copy" /\ dir = "there"
    BY <1>31 DEF CopyKey, PhaseOfJob
  <2>2. CASE Forgo({s3, [s3 EXCEPT ![g] = disk[g]]})
    BY <2>1, <2>2, ForgoKeys
  <2>3. CASE ~Forgo({s3, [s3 EXCEPT ![g] = disk[g]]})
    <3>1. /\ phase' \in MediaPhases /\ UNCHANGED <<dir, man, untracked, target>>
          /\ (h = target[2] \/ s3'[h] = s3[h])
      BY <1>31, <2>3 DEF CopyKey, GoTo
    <3> QED
      BY <2>1, <3>1
  <2> QED
    BY <2>2, <2>3
<1>32. ASSUME NEW f \in Media, NEW g \in Media, RecordMedia(f, g)
      PROVE  KeyKnown(h)'
  <2>1. /\ phase = "record" /\ dir = "there" /\ phase' = "idle" /\ UNCHANGED <<dir, s3>>
        /\ untracked' = untracked \cap Unknown(man', s3)
    BY <1>32 DEF RecordMedia, Done, PhaseOfJob
  <2>2. job \in {"upload", "rename", "delete"} /\ f = target[1] /\ g = target[2]
    BY <1>32 DEF RecordMedia, PhaseOfJob
  <2>3. s3[h] # Nothing /\ h \notin untracked => man'[h].source = "overlay"
    <3>1. CASE h = g /\ job # "delete"
      BY <1>32, <3>1 DEF RecordMedia
    <3>2. CASE h = f /\ ~(h = g /\ job # "delete")
      BY <2>1, <2>2, <3>2 DEF OldKeyGone
    <3>3. CASE h # f /\ ~(h = g /\ job # "delete")
      <4>1. h # g
        BY <2>2, <3>3 DEF OldKeyGone
      <4>2. man'[h] = man[h]
        BY <1>32, <3>3 DEF RecordMedia
      <4> QED
        BY <2>1, <2>2, <3>3, <4>1, <4>2
    <3> QED
      BY <3>1, <3>2, <3>3
  <2> QED
    BY <2>1, <2>3
<1>33. CASE Crash
  BY <1>33 DEF Crash, Done
<1>34. CASE UNCHANGED vars
  BY <1>34 DEF vars
<1> HIDE DEF KeyKnown, TypeOK
<1> QED
  BY <1>1, <1>2, <1>3, <1>4, <1>5, <1>6, <1>7, <1>8, <1>9, <1>10, <1>11, <1>12, <1>13,
     <1>14, <1>15, <1>16, <1>17, <1>18, <1>19, <1>20, <1>21, <1>22, <1>23, <1>24, <1>25,
     <1>26, <1>27, <1>28, <1>29, <1>30, <1>31, <1>32, <1>33, <1>34 DEF Next

\* A final push deletes what is gone.
LEMMA SweptStep ==
  ASSUME TypeOK, PhaseOfJob, NothingWithoutDir, TodoOfPhase, PulledSoFar, OldKeyGone, NoStrayKeys,
         NEW h \in Files, KeyKnown(h), SweptSoFar(h), NotTheirs(h), [Next]_vars
  PROVE  SweptSoFar(h)'
<1> USE Names, ConstantsOK DEF SweptSoFar, TypeOK, Deleting, Pushing, Layers, node,
        stored, work, history
<1>1. ASSUME NEW f \in Config, MoveAside(f)
      PROVE  SweptSoFar(h)'
  <2>1. job' \notin Deleting
    BY <1>1 DEF MoveAside, Touch, PhaseOfJob
  <2> QED
    BY <2>1
<1>2. ASSUME NEW f \in Config, RemoveFile(f)
      PROVE  SweptSoFar(h)'
  <2>1. job' \notin Deleting
    BY <1>2 DEF RemoveFile, Touch, PhaseOfJob
  <2> QED
    BY <2>1
<1>3. ASSUME NEW f \in Config, NEW d \in Data, WriteFile(f, d)
      PROVE  SweptSoFar(h)'
  <2>1. job' \notin Deleting
    BY <1>3 DEF WriteFile, Touch, PhaseOfJob
  <2> QED
    BY <2>1
<1>4. CASE StopContainer
  BY <1>4 DEF StopContainer
<1>5. CASE Autosave
  BY <1>5 DEF Autosave, BeginPush
<1>6. CASE FinalPush
  BY <1>6 DEF FinalPush, BeginPush
<1>7. CASE RetryPush
  BY <1>7 DEF RetryPush, BeginPush
<1>8. ASSUME NEW f \in Files, KeepEntry(f)
      PROVE  SweptSoFar(h)'
  BY <1>8 DEF KeepEntry, Finish
<1>9. ASSUME NEW f \in Files, HashFile(f)
      PROVE  SweptSoFar(h)'
  BY <1>9 DEF HashFile
<1>10. ASSUME NEW f \in Files, UploadFile(f)
      PROVE  SweptSoFar(h)'
  BY <1>10 DEF UploadFile, MayUpload, Finish
<1>11. ASSUME NEW f \in Files, UploadFails(f)
      PROVE  SweptSoFar(h)'
  BY <1>11 DEF UploadFails, MayUpload, Finish
<1>12. ASSUME NEW f \in Files, FileGone(f)
      PROVE  SweptSoFar(h)'
  BY <1>12 DEF FileGone, Finish
<1>13. CASE EndConfig
  <2> SUFFICES ASSUME job' \in Deleting, failed' = 0, disk'[h] = Nothing
               PROVE  mem'[h].source # "overlay" \/ (phase' = "media" /\ h \notin Config)
    BY <1>13 DEF EndConfig
  <2>1. job \in Deleting /\ disk[h] = Nothing /\ phase = "config" /\ phase' = "media"
    BY <1>13 DEF EndConfig, EndSection
  <2>2. failed = 0 /\ mem'[h] \in {mem[h], NoEntry}
        /\ (h \in Config => mem'[h] = NoEntry \/ mem[h].source \notin {"overlay", "template"})
    BY <1>13, <2>1 DEF EndConfig, EndSection, DeleteGone
  <2> QED
    BY <2>1, <2>2 DEF NoEntry, Files
<1>14. CASE EndMedia
  <2> SUFFICES ASSUME job' \in Deleting, failed' = 0, disk'[h] = Nothing
               PROVE  mem'[h].source # "overlay" \/ (phase' = "media" /\ h \notin Config)
    BY <1>14 DEF EndMedia
  <2>1. job \in Deleting /\ disk[h] = Nothing /\ phase = "media" /\ phase' = "save"
    BY <1>14 DEF EndMedia, EndSection
  <2>2. failed = 0 /\ mem'[h] \in {mem[h], NoEntry}
        /\ (h \in Media => mem'[h] = NoEntry \/ mem[h].source \notin {"overlay", "template"})
    BY <1>14, <2>1 DEF EndMedia, EndSection, DeleteGone
  <2> QED
    BY <2>1, <2>2 DEF NoEntry, Files
<1>15. CASE SaveManifest
  BY <1>15 DEF SaveManifest, Done, AfterPush
<1>16. CASE removeLocalConfig
  BY <1>16 DEF removeLocalConfig, Done, BeginPull
<1>17. CASE pullObsConfig
  BY <1>17 DEF pullObsConfig, BeginPush, BeginPull
<1>18. CASE applyTemplateProfile
  BY <1>18 DEF applyTemplateProfile
<1>19. ASSUME NEW f \in Files, Download(f)
      PROVE  SweptSoFar(h)'
  BY <1>19 DEF Download
<1>20. CASE PullOverlay
  BY <1>20 DEF PullOverlay
<1>21. CASE pullObsMedia
  BY <1>21 DEF pullObsMedia
<1>22. CASE EndPull
  BY <1>22 DEF EndPull, AfterPull
<1>23. CASE StartContainer
  BY <1>23 DEF StartContainer, Done
<1>24. CASE StartFails
  BY <1>24 DEF StartFails, Done
<1>25. ASSUME NEW f \in Media, deleteFile(f)
      PROVE  SweptSoFar(h)'
  BY <1>25 DEF deleteFile, BeginMedia
<1>26. ASSUME NEW f \in Media, NEW d \in Data, uploadFile(f, d)
      PROVE  SweptSoFar(h)'
  BY <1>26 DEF uploadFile, BeginMedia
<1>27. ASSUME NEW f \in Media, pushObsMediaFile(f)
      PROVE  SweptSoFar(h)'
  BY <1>27 DEF pushObsMediaFile, GoTo, Forgo, Done
<1>28. ASSUME NEW f \in Media, DropOldKey(f)
      PROVE  SweptSoFar(h)'
  BY <1>28 DEF DropOldKey, GoTo, Forgo, Done
<1>29. ASSUME NEW f \in Media, deleteObsMediaFile(f)
      PROVE  SweptSoFar(h)'
  BY <1>29 DEF deleteObsMediaFile, GoTo, Forgo, Done
<1>30. ASSUME NEW f \in Media, NEW g \in Media, renameFile(f, g)
      PROVE  SweptSoFar(h)'
  BY <1>30 DEF renameFile, BeginMedia
<1>31. ASSUME NEW f \in Media, NEW g \in Media, CopyKey(f, g)
      PROVE  SweptSoFar(h)'
  BY <1>31 DEF CopyKey, GoTo, Forgo, Done
<1>32. ASSUME NEW f \in Media, NEW g \in Media, RecordMedia(f, g)
      PROVE  SweptSoFar(h)'
  BY <1>32 DEF RecordMedia, Done
<1>33. CASE Crash
  BY <1>33 DEF Crash, Done
<1>34. CASE UNCHANGED vars
  BY <1>34 DEF vars
<1> HIDE DEF SweptSoFar, TypeOK
<1> QED
  BY <1>1, <1>2, <1>3, <1>4, <1>5, <1>6, <1>7, <1>8, <1>9, <1>10, <1>11, <1>12, <1>13,
     <1>14, <1>15, <1>16, <1>17, <1>18, <1>19, <1>20, <1>21, <1>22, <1>23, <1>24, <1>25,
     <1>26, <1>27, <1>28, <1>29, <1>30, <1>31, <1>32, <1>33, <1>34 DEF Next

\* The template's file stays the template's until the user writes it.
LEMMA NotTheirsStep ==
  ASSUME TypeOK, PhaseOfJob, NothingWithoutDir, TodoOfPhase, PulledSoFar, OldKeyGone, NoStrayKeys,
         NEW h \in Files, KeyKnown(h), SweptSoFar(h), NotTheirs(h), [Next]_vars
  PROVE  NotTheirs(h)'
<1> USE Names, ConstantsOK DEF NotTheirs, FromTemplate, TypeOK, Pushing, Layers, node,
        stored, work, history
<1>1. ASSUME NEW f \in Config, MoveAside(f)
      PROVE  NotTheirs(h)'
  <2>1. CASE h = f
    <3>1. disk'[h] = Nothing
      BY <1>1, <2>1 DEF MoveAside
    <3> QED
      BY <3>1
  <2>2. CASE h # f
    <3>1. UNCHANGED dir /\ disk'[h] = disk[h] /\ want'[h] = want[h] /\ Touch({f})
      BY <1>1, <2>2 DEF MoveAside
    <3> QED
      BY <3>1, TouchKeeps
  <2> QED
    BY <2>1, <2>2
<1>2. ASSUME NEW f \in Config, RemoveFile(f)
      PROVE  NotTheirs(h)'
  <2>1. CASE h = f
    <3>1. disk'[h] = Nothing
      BY <1>2, <2>1 DEF RemoveFile
    <3> QED
      BY <3>1
  <2>2. CASE h # f
    <3>1. UNCHANGED dir /\ disk'[h] = disk[h] /\ want'[h] = want[h] /\ Touch({f})
      BY <1>2, <2>2 DEF RemoveFile
    <3> QED
      BY <3>1, TouchKeeps
  <2> QED
    BY <2>1, <2>2
<1>3. ASSUME NEW f \in Config, NEW d \in Data, WriteFile(f, d)
      PROVE  NotTheirs(h)'
  <2>1. CASE h = f
    <3>1. want'[h] # Nothing
      BY <1>3, <2>1 DEF WriteFile
    <3> QED
      BY <3>1
  <2>2. CASE h # f
    <3>1. UNCHANGED dir /\ disk'[h] = disk[h] /\ want'[h] = want[h] /\ Touch({f})
      BY <1>3, <2>2 DEF WriteFile
    <3> QED
      BY <3>1, TouchKeeps
  <2> QED
    BY <2>1, <2>2
<1>4. CASE StopContainer
  BY <1>4 DEF StopContainer
<1>5. CASE Autosave
  <2>1. /\ phase \notin Layers /\ phase' = "config" /\ mem' = man /\ hashed' = Blank
        /\ UNCHANGED <<dir, disk, want, man>>
    BY <1>5 DEF Autosave, BeginPush, PhaseOfJob
  <2> QED
    BY <2>1 DEF Blank
<1>6. CASE FinalPush
  <2>1. /\ phase \notin Layers /\ phase' = "config" /\ mem' = man /\ hashed' = Blank
        /\ UNCHANGED <<dir, disk, want, man>>
    BY <1>6 DEF FinalPush, BeginPush, PhaseOfJob
  <2> QED
    BY <2>1 DEF Blank
<1>7. CASE RetryPush
  <2>1. /\ phase \notin Layers /\ phase' = "config" /\ mem' = man /\ hashed' = Blank
        /\ UNCHANGED <<dir, disk, want, man>>
    BY <1>7 DEF RetryPush, BeginPush, PhaseOfJob
  <2> QED
    BY <2>1 DEF Blank
<1>8. ASSUME NEW f \in Files, KeepEntry(f)
      PROVE  NotTheirs(h)'
  <2>1. phase = "config" /\ UNCHANGED <<phase, dir, disk, want, man>>
    BY <1>8 DEF KeepEntry, Finish
  <2>2. /\ mem'[h].source = mem[h].source /\ mem'[h].hash = mem[h].hash
        /\ hashed'[h] \in {hashed[h], Nothing}
    BY <1>8 DEF KeepEntry, Finish, Stamped
  <2> QED
    BY <2>1, <2>2
<1>9. ASSUME NEW f \in Files, HashFile(f)
      PROVE  NotTheirs(h)'
  BY <1>9 DEF HashFile
<1>10. ASSUME NEW f \in Files, UploadFile(f)
      PROVE  NotTheirs(h)'
  <2>1. phase \in {"config", "media"} /\ UNCHANGED <<phase, dir, disk, want, man>>
    BY <1>10 DEF UploadFile, Finish, MayUpload
  <2>2. CASE h = f
    <3>1. hashed[h] # Nothing \/ h \in Media
      BY <1>10, <2>2 DEF UploadFile, MayUpload, TodoOfPhase
    <3>2. h \in Template => h \notin Media
      BY ConstantsOK
    <3> QED
      BY <2>1, <3>1, <3>2
  <2>3. CASE h # f
    <3>1. mem'[h] = mem[h] /\ hashed'[h] = hashed[h]
      BY <1>10, <2>3 DEF UploadFile, Finish
    <3> QED
      BY <2>1, <3>1
  <2> QED
    BY <2>2, <2>3
<1>11. ASSUME NEW f \in Files, UploadFails(f)
      PROVE  NotTheirs(h)'
  BY <1>11 DEF UploadFails, MayUpload, Finish
<1>12. ASSUME NEW f \in Files, FileGone(f)
      PROVE  NotTheirs(h)'
  BY <1>12 DEF FileGone, Finish
<1>13. CASE EndConfig
  BY <1>13 DEF EndConfig, EndSection, DeleteGone
<1>14. CASE EndMedia
  BY <1>14 DEF EndMedia, EndSection, DeleteGone
<1>15. CASE SaveManifest
  BY <1>15 DEF SaveManifest, Done, AfterPush
<1>16. CASE removeLocalConfig
  BY <1>16 DEF removeLocalConfig, Done, BeginPull
<1>17. CASE pullObsConfig
  <2>1. CASE dir = "there" /\ BeginPush("leftover", 1) /\ UNCHANGED dir
    <3>1. /\ phase = "idle" /\ phase' = "config" /\ mem' = man /\ hashed' = Blank
          /\ UNCHANGED <<dir, disk, want, man>>
      BY <1>17, <2>1 DEF pullObsConfig, BeginPush, PhaseOfJob
    <3> QED
      BY <3>1 DEF Blank
  <2>2. CASE BeginPull
    <3>1. phase' \in Layers
      BY <2>2 DEF BeginPull
    <3> QED
      BY <3>1
  <2> QED
    BY <1>17, <2>1, <2>2 DEF pullObsConfig
<1>18. CASE applyTemplateProfile
  BY <1>18 DEF applyTemplateProfile
<1>19. ASSUME NEW f \in Files, Download(f)
      PROVE  NotTheirs(h)'
  BY <1>19 DEF Download
<1>20. CASE PullOverlay
  BY <1>20 DEF PullOverlay
<1>21. CASE pullObsMedia
  BY <1>21 DEF pullObsMedia
<1>22. CASE EndPull
  <2>1. /\ phase = "media files" /\ phase' = "ready" /\ man' = mem /\ UNCHANGED disk
    BY <1>22 DEF EndPull, AfterPull
  <2>2. CASE want'[h] = Nothing
    <3>1. s3[h] = Nothing
      BY <1>22, <2>1, <2>2 DEF EndPull, KeyKnown
    <3>2. Based(h)
      BY <1>22, <3>1 DEF EndPull, PulledSoFar
    <3>3. disk[h] # Nothing =>
            /\ h \in Template /\ disk[h] = Plain
            /\ mem[h].source = "template" /\ mem[h].hash = Plain
      BY <3>2, BasedEntry
    <3> QED
      BY <2>1, <3>3
  <2>3. CASE want'[h] # Nothing
    BY <2>3
  <2> QED
    BY <2>2, <2>3
<1>23. CASE StartContainer
  BY <1>23 DEF StartContainer, Done
<1>24. CASE StartFails
  BY <1>24 DEF StartFails, Done
<1>25. ASSUME NEW f \in Media, deleteFile(f)
      PROVE  NotTheirs(h)'
  <2>1. phase = "idle" /\ phase' \notin Pushing /\ dir = "there"
    BY <1>25, Names DEF deleteFile, BeginMedia, PhaseOfJob, NothingWithoutDir, Blank,
       NoStrayKeys, Fault
  <2>2. man'[h].source = man[h].source /\ man'[h].hash = man[h].hash
    BY <1>25 DEF deleteFile, Touched, Stamped
  <2>3. disk'[h] = want'[h] \/ (disk'[h] = disk[h] /\ want'[h] = want[h])
    BY <1>25 DEF deleteFile
  <2> QED
    BY <2>1, <2>2, <2>3
<1>26. ASSUME NEW f \in Media, NEW d \in Data, uploadFile(f, d)
      PROVE  NotTheirs(h)'
  <2>1. phase = "idle" /\ phase' \notin Pushing /\ dir = "there"
    BY <1>26, Names DEF uploadFile, BeginMedia, PhaseOfJob, NothingWithoutDir, Blank,
       NoStrayKeys, Fault
  <2>2. man'[h].source = man[h].source /\ man'[h].hash = man[h].hash
    BY <1>26 DEF uploadFile, Touched, Stamped
  <2>3. disk'[h] = want'[h] \/ (disk'[h] = disk[h] /\ want'[h] = want[h])
    BY <1>26 DEF uploadFile
  <2> QED
    BY <2>1, <2>2, <2>3
<1>27. ASSUME NEW f \in Media, pushObsMediaFile(f)
      PROVE  NotTheirs(h)'
  BY <1>27 DEF pushObsMediaFile, GoTo, Forgo, Done
<1>28. ASSUME NEW f \in Media, DropOldKey(f)
      PROVE  NotTheirs(h)'
  BY <1>28 DEF DropOldKey, GoTo, Forgo, Done
<1>29. ASSUME NEW f \in Media, deleteObsMediaFile(f)
      PROVE  NotTheirs(h)'
  BY <1>29 DEF deleteObsMediaFile, GoTo, Forgo, Done
<1>30. ASSUME NEW f \in Media, NEW g \in Media, renameFile(f, g)
      PROVE  NotTheirs(h)'
  <2>1. phase = "idle" /\ phase' \notin Pushing /\ dir = "there"
    BY <1>30, Names DEF renameFile, BeginMedia, PhaseOfJob, NothingWithoutDir, Blank,
       NoStrayKeys, Fault
  <2>2. man'[h].source = man[h].source /\ man'[h].hash = man[h].hash
    BY <1>30 DEF renameFile, Touched, Stamped
  <2>3. disk'[h] = want'[h] \/ (disk'[h] = disk[h] /\ want'[h] = want[h])
    BY <1>30 DEF renameFile
  <2> QED
    BY <2>1, <2>2, <2>3
<1>31. ASSUME NEW f \in Media, NEW g \in Media, CopyKey(f, g)
      PROVE  NotTheirs(h)'
  BY <1>31 DEF CopyKey, GoTo, Forgo, Done
<1>32. ASSUME NEW f \in Media, NEW g \in Media, RecordMedia(f, g)
      PROVE  NotTheirs(h)'
  BY <1>32 DEF RecordMedia, Done
<1>33. CASE Crash
  BY <1>33 DEF Crash, Done
<1>34. CASE UNCHANGED vars
  BY <1>34 DEF vars
<1> HIDE DEF NotTheirs, TypeOK
<1> QED
  BY <1>1, <1>2, <1>3, <1>4, <1>5, <1>6, <1>7, <1>8, <1>9, <1>10, <1>11, <1>12, <1>13,
     <1>14, <1>15, <1>16, <1>17, <1>18, <1>19, <1>20, <1>21, <1>22, <1>23, <1>24, <1>25,
     <1>26, <1>27, <1>28, <1>29, <1>30, <1>31, <1>32, <1>33, <1>34 DEF Next

\* An instance that was stopped properly has no stray keys.
LEMMA KeysInit == Init => KeysInv
<1> SUFFICES ASSUME Init PROVE KeysInv
  OBVIOUS
<1>1. TypeOK /\ PhaseOfJob /\ NothingWithoutDir
  BY ControlInit DEF ControlInv
<1>2. TodoOfPhase /\ PulledSoFar /\ OldKeyGone
  BY DEF Init, TodoOfPhase, PulledSoFar, OldKeyGone, Layers
<1>3. ASSUME NEW f \in Files
      PROVE  KeyKnown(f) /\ SweptSoFar(f) /\ NotTheirs(f)
  BY DEF Init, KeyKnown, SweptSoFar, NotTheirs, Deleting
<1> QED
  BY <1>1, <1>2, <1>3 DEF KeysInv

\* Every step keeps track of the keys.
LEMMA KeysStep ==
  ASSUME NoStrayKeys, KeysInv, [Next]_vars
  PROVE  KeysInv'
<1>1. /\ TypeOK /\ PhaseOfJob /\ NothingWithoutDir
      /\ TodoOfPhase /\ PulledSoFar /\ OldKeyGone
  BY DEF KeysInv
<1>2. TypeOK' /\ PhaseOfJob' /\ NothingWithoutDir'
  BY <1>1, TypeStep, PhaseStep, DirStep
<1>3. TodoOfPhase' /\ PulledSoFar' /\ OldKeyGone'
  BY <1>1, TodoStep, PulledStep, OldKeyStep
<1>4. ASSUME NEW f \in Files
      PROVE  KeyKnown(f) /\ SweptSoFar(f) /\ NotTheirs(f)
  BY DEF KeysInv
<1>5. ASSUME NEW f \in Files
      PROVE  KeyKnown(f)' /\ SweptSoFar(f)' /\ NotTheirs(f)'
  BY <1>1, <1>4, KeyStep, SweptStep, NotTheirsStep
<1>6. (\A f \in Files : KeyKnown(f) /\ SweptSoFar(f) /\ NotTheirs(f))'
  BY <1>5
<1> QED
  BY <1>2, <1>3, <1>6 DEF KeysInv

\* What the user deleted has no key in S3 when the directory is removed, so that it
\* does not come back (sync.ts:125-126), but for keys of operations that died.
THEOREM DeletedForGood ==
  ASSUME NoStrayKeys
  PROVE  Spec => []DeletedStaysAway
<1>1. Init => KeysInv
  BY KeysInit
<1>2. KeysInv /\ [Next]_vars => KeysInv'
  BY KeysStep
<1>3. KeysInv => DeletedStaysAway
  BY DEF KeysInv, DeletedStaysAway, KeyKnown
<1> QED
  BY <1>1, <1>2, <1>3, PTL DEF Spec

\* The invariant that the run ConfigSync checks, for every instance of the constants.
THEOREM Invariance ==
  ASSUME Spared, NoStrayKeys
  PROVE  Spec => []IInv
<1>1. Init => IInv
  BY EditsInit, KeysInit DEF IInv
<1>2. IInv /\ [Next]_vars => IInv'
  BY EditsStep, KeysStep DEF IInv
<1> QED
  BY <1>1, <1>2, PTL DEF Spec

\* OBS starts on what the user last made of each file, and on the template's files
\* where there is nothing of theirs (pull.ts:28-55).
THEOREM OwnFiles ==
  ASSUME Spared, NoStrayKeys
  PROVE  Spec => StartsWithOwnFiles
<1>1. IInv /\ [Next]_vars =>
        [obs = "down" /\ obs' = "up" =>
           \A f \in Files : \/ disk[f] = want[f]
                            \/ want[f] = Nothing /\ f \in Template /\ disk[f] = Plain]_vars
  <2> SUFFICES ASSUME IInv, [Next]_vars, obs = "down", obs' = "up", NEW f \in Files
               PROVE  \/ disk[f] = want[f]
                      \/ want[f] = Nothing /\ f \in Template /\ disk[f] = Plain
    OBVIOUS
  <2>1. phase = "ready"
    BY OnlyStart DEF StartContainer
  <2>2. dir = "there" /\ moving = {} /\ phase \notin Layers
    BY <2>1 DEF IInv, EditsInv, PhaseOfJob, Layers
  <2>3. EditKept(f) /\ NotTheirs(f)
    BY DEF IInv, EditsInv, KeysInv
  <2> QED
    BY <2>2, <2>3 DEF EditKept, NotTheirs
<1> QED
  BY <1>1, Invariance, PTL DEF Spec, StartsWithOwnFiles
===============================================================================
