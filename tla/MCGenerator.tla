---------------------------- MODULE MCGenerator ----------------------------
(* GeneratorLine for TLC. *)
EXTENDS GeneratorLine
=============================================================================
