-------------------------- MODULE ConfigSyncHalfway ---------------------------
(***************************************************************************)
(* ConfigSync with a pull that fails or is cut off half-way, and with a    *)
(* removal of the local directory that is: NoLostEdit does not survive     *)
(* either.                                                                 *)
(***************************************************************************)
EXTENDS ConfigSync

CONSTANT Halfway  \* what may happen, a subset of {"pull", "late", "remove"}

\* pull    a download fails, or the manager dies in one
\* late    downloads of a failed pull go on
\* remove  the removal of the directory stops
VARIABLE late     \* downloads of a failed pull that go on: <<file, layer>>

\* The caller logs the failure and starts OBS on what is there, without a manifest;
\* mapLimit leaves the downloads that have begun to themselves.
PullFails ==
  /\ "pull" \in Halfway /\ phase \in Layers
  /\ \E F \in SUBSET todo :
       /\ F # {} => "late" \in Halfway
       /\ late' = late \cup {<<f, phase>> : f \in F}
  /\ AfterPull
  /\ UNCHANGED <<node, stored, history>>

LateDownload(f, layer) ==
  /\ <<f, layer>> \in late
  /\ late' = late \ {<<f, layer>>}
  /\ disk' = [disk EXCEPT ![f] = Content(f, layer)]
  /\ dir' = "there"
  /\ Touch({f})
  /\ UNCHANGED <<obs, moving, profile, s3, history>>

\* The manager dies in a download, or anywhere while downloads go on.
CrashInPull ==
  /\ "pull" \in Halfway /\ (phase \in Layers \/ late # {})
  /\ late' = {}
  /\ untracked' = untracked \cup Unknown(man, s3)
  /\ Done
  /\ UNCHANGED <<node, stored, want>>

\* The manager dies in it, or rm gives up: files are gone and the manifest is not.
RemovalStops ==
  /\ "remove" \in Halfway /\ phase = "remove"
  /\ \E F \in SUBSET Files :
       /\ disk' = [f \in Files |-> IF f \in F THEN Nothing ELSE disk[f]]
       /\ man' = Touched(man, F)
  /\ Done \/ (job = "leftover" /\ AfterPush("as is"))
  /\ UNCHANGED <<obs, dir, moving, profile, s3, late, history>>

HalfwayInit == Init /\ late = {}

HalfwayNext ==
  \/ Next /\ UNCHANGED late
  \/ PullFails
  \/ \E f \in Files, l \in Layers : LateDownload(f, l)
  \/ CrashInPull
  \/ RemovalStops

HalfwaySpec == HalfwayInit /\ [][HalfwayNext]_<<vars, late>>
===============================================================================
