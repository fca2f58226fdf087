-------------------------- MODULE MCSyncPublication --------------------------
(* Instances of SyncPublication for TLC. *)
EXTENDS SyncPublication

CONSTANTS pins, classpath

MCOrder == <<build, pins, classpath>>
=============================================================================
