---------------------------- MODULE MCFilterGmii ----------------------------
(* FilterGmii for TLC. *)
EXTENDS FilterGmii
=============================================================================
