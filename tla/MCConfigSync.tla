----------------------------- MODULE MCConfigSync -----------------------------
(* Small instances of ConfigSync for TLC. *)
EXTENDS ConfigSync, TLC

\* Files of the media folder are interchangeable, and so are contents that are not
\* the template's.
Symmetry == Permutations(Media) \cup Permutations(Data \ {Plain})
===============================================================================
