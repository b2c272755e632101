--------------------------- MODULE MCSceneListener ----------------------------
(* Small instances of SceneListener for TLC. *)
EXTENDS SceneListener, TLC

\* Attempts are interchangeable, and so are scenes.
Symmetry == Permutations(Attempts) \cup Permutations(Scenes)
===============================================================================
