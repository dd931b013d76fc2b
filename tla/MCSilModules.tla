---------------------------- MODULE MCSilModules ----------------------------
(* SilModules for TLC. *)
EXTENDS SilModules
=============================================================================
