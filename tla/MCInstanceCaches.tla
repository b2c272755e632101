--------------------------- MODULE MCInstanceCaches ---------------------------
(* Small instances of InstanceCaches for TLC. *)
EXTENDS InstanceCaches
===============================================================================
