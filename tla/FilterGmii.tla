----------------------------- MODULE FilterGmii -----------------------------
(***************************************************************************)
(* The GMII filter core, a simple device under test:                       *)
(* lib/hw/lsi/cores/filter_gmii/hdl/filter_gmii.v.  It forwards whole      *)
(* frames two cycles late and drops a frame that follows the last forwarded*)
(* one too closely.                                                        *)
(*                                                                         *)
(* An input cycle is [en, pos]: whether gmii_en is high and, if it is, the *)
(* position of the octet in its frame.  A step is one rising edge of clk   *)
(* with the input of that cycle, or one register write by software.        *)
(***************************************************************************)
EXTENDS Integers

CONSTANTS
  Mod32,     \* 2^32: modulus of the registers
  MinGaps,   \* values software may write to min_interframe_gap_reg
  MaxFrame,  \* octets in the longest input frame
  MaxIdle    \* the observer counts idle output cycles up to here

ASSUME FilterAssumption ==
  /\ Mod32 \in Nat /\ Mod32 > 9
  /\ MinGaps \subseteq 0 .. Mod32 - 1
  /\ MaxFrame \in Nat \ {0}
  /\ MaxIdle \in Nat /\ MaxIdle >= Mod32

VARIABLES
  min_interframe_gap_reg, min_interframe_gap_reg_r,
  in_r,                  \* gmii_d_in_r, gmii_en_in_r: the previous input
  state, interframe_gap_delay,
  out,                   \* gmii_d_out, gmii_en_out
  idle,                  \* observer: idle output cycles since the last frame
  asked                  \* observer: the minimum gap when it ended

vars == <<min_interframe_gap_reg, min_interframe_gap_reg_r, in_r, state,
          interframe_gap_delay, out, idle, asked>>

Octet(p) == [en |-> TRUE, pos |-> p]
Quiet == [en |-> FALSE, pos |-> 0]
Cycle == [en : BOOLEAN, pos : 0 .. MaxFrame - 1]

\* What may follow on the input: a quiet cycle, or the frame's next octet.
Inputs == {Quiet} \cup
  (IF in_r.en THEN {Octet(p) : p \in {in_r.pos + 1} \cap (0 .. MaxFrame - 1)}
              ELSE {Octet(0)})

\* The preamble and one cycle of delay are subtracted, in 32 bits.
Subtracted == 9
GapDelayNegative(gap) == gap - Subtracted
GapDelayShort(gap) == IF gap > Subtracted THEN gap - Subtracted - 1
                                          ELSE gap + Mod32 - Subtracted - 1
GapDelayLong(gap) == IF gap >= Subtracted THEN gap - Subtracted + 1
                                          ELSE gap + Mod32 - Subtracted
GapDelay(gap) == IF gap >= Subtracted THEN gap - Subtracted
                                      ELSE gap + Mod32 - Subtracted

TypeOK ==
  /\ min_interframe_gap_reg \in 0 .. Mod32 - 1
  /\ min_interframe_gap_reg_r \in 0 .. Mod32 - 1
  /\ in_r \in Cycle /\ out \in Cycle
  /\ state \in {0, 1}
  /\ interframe_gap_delay \in 0 .. Mod32 - 1
  /\ idle \in 0 .. MaxIdle
  /\ asked \in 0 .. Mod32 - 1

Init ==
  /\ min_interframe_gap_reg \in MinGaps
  /\ min_interframe_gap_reg_r = min_interframe_gap_reg
  /\ in_r = Quiet /\ out = Quiet
  /\ state = 0 /\ interframe_gap_delay = 0
  /\ idle = MaxIdle /\ asked = 0

WriteMinInterframeGap(gap) ==
  /\ min_interframe_gap_reg' = gap
  /\ UNCHANGED <<min_interframe_gap_reg_r, in_r, state, interframe_gap_delay,
                 out, idle, asked>>

---------------------------------------------------------------------------
\* State 1: the frame passes; at its end the minimum gap starts.
Forward(in) ==
  /\ state = 1
  /\ out' = in_r
  /\ IF ~in.en /\ in_r.en
       THEN /\ state' = 0
            /\ interframe_gap_delay' = GapDelay(min_interframe_gap_reg_r)
            /\ asked' = min_interframe_gap_reg_r
       ELSE UNCHANGED <<state, interframe_gap_delay, asked>>

CountdownWhileQuiet ==
  interframe_gap_delay' = IF interframe_gap_delay > 0 /\ ~in_r.en
                            THEN interframe_gap_delay - 1
                            ELSE interframe_gap_delay
Countdown ==
  interframe_gap_delay' = IF interframe_gap_delay > 0
                            THEN interframe_gap_delay - 1 ELSE 0

StartsAnywhere(in) == in.en /\ interframe_gap_delay = 0
Starts(in) == in.en /\ ~in_r.en /\ interframe_gap_delay = 0

\* Any other state: the line is quiet; a frame that starts once the minimum
\* gap is over will pass.
Block(in) ==
  /\ state # 1
  /\ out' = Quiet
  /\ Countdown
  /\ state' = IF Starts(in) THEN 1 ELSE state
  /\ UNCHANGED asked

CountIdle ==
  idle' = CASE out'.en -> 0
            [] ~out'.en /\ idle < MaxIdle -> idle + 1
            [] OTHER -> idle

Tick(in) ==
  /\ min_interframe_gap_reg_r' = min_interframe_gap_reg
  /\ in_r' = in
  /\ Forward(in) \/ Block(in)
  /\ CountIdle
  /\ UNCHANGED min_interframe_gap_reg

Next ==
  \/ \E in \in Inputs : Tick(in)
  \/ \E gap \in MinGaps : WriteMinInterframeGap(gap)

Spec == Init /\ [][Next]_vars

---------------------------------------------------------------------------
(***************************************************************************)
(* Frames pass whole: an output frame starts with its first octet, goes on *)
(* octet by octet, and ends where the input frame ended, even when software*)
(* changes the minimum gap while it passes.                                *)
(***************************************************************************)
WholeFrames ==
  [][/\ ~out.en /\ out'.en => out'.pos = 0
     /\ out.en /\ out'.en /\ UNCHANGED min_interframe_gap_reg
          => out'.pos = out.pos + 1
     /\ out.en /\ ~out'.en => ~in_r.en]_vars

(***************************************************************************)
(* Two output frames are never closer than the minimum gap that was set    *)
(* when the first one ended, less the 8 octets of the preamble.            *)
(***************************************************************************)
OutputGapKept ==
  [][~out.en /\ out'.en => idle >= asked - 8]_vars

(***************************************************************************)
(* And no frame is dropped without need: an input frame that starts when   *)
(* the gap is over passes, also after dropped ones, provided the gap is at *)
(* least 9 (a smaller one wraps around in 32 bits).                        *)
(***************************************************************************)
NoNeedlessDrop ==
  [][state = 0 /\ ~in_r.en /\ in_r'.en /\ asked >= 9 /\ idle + 1 >= asked - 8
       => state' = 1]_vars

---------------------------------------------------------------------------
(***************************************************************************)
(* The inductive invariant behind the theorems: how far the delay counter  *)
(* has come, and where the octet in the input register belongs.            *)
(***************************************************************************)
DelayInv ==
  /\ state = 0 => idle + interframe_gap_delay >= asked - 9
  /\ state = 0 /\ asked >= 9 => \/ interframe_gap_delay = 0
                                \/ idle + interframe_gap_delay = asked - 9
  /\ state = 1 /\ ~out.en => idle >= asked - 8
PipeInv ==
  /\ state = 1 => in_r.en
  /\ state = 1 /\ out.en => in_r.pos = out.pos + 1
  /\ state = 1 /\ ~out.en => in_r.pos = 0
  /\ state = 0 /\ out.en => ~in_r.en
IInv == TypeOK /\ DelayInv /\ PipeInv
=============================================================================
