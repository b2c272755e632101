-------------------------- MODULE MCInstanceLifecycle --------------------------
(* Small instances of InstanceLifecycle for TLC. *)
EXTENDS InstanceLifecycle, TLC

\* Request slots are interchangeable, and so are container ids.
Symmetry == Permutations(Ops) \cup Permutations(Containers)
===============================================================================
