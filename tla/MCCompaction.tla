----------------------------- MODULE MCCompaction ------------------------------
(* Instances of Compaction: everything they need is in the configurations.   *)
EXTENDS Compaction
================================================================================
