---------------------------- MODULE MCRtClockPps ----------------------------
(***************************************************************************)
(* RtClockPps for TLC: a second of six cycles of eight nanoseconds.        *)
(***************************************************************************)
EXTENDS RtClockPps

NominalDelta == {[int |-> 8, frac |-> 0]}
=============================================================================
