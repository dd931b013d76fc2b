----------------------------- MODULE MCRtClock -----------------------------
(***************************************************************************)
(* A small instance of RtClock for TLC: pulses, enabling and corrections at*)
(* arbitrary times.                                                        *)
(***************************************************************************)
EXTENDS RtClock

\* The nominal correction and the fastest one: [31:28] at its maximum, with a
\* fraction.
MCDeltas == {[int |-> 8, frac |-> 0], [int |-> 15, frac |-> 1]}
=============================================================================
