-------------------------- MODULE FilterGmiiProofs --------------------------
(***************************************************************************)
(* Proofs about the GMII filter for every register width, gap and frame    *)
(* length.                                                                 *)
(***************************************************************************)
EXTENDS FilterGmii, TLAPS

\* The possible inputs are cycles of the line, and in order.
LEMMA InputFacts ==
  ASSUME TypeOK, NEW in \in Inputs
  PROVE  /\ in \in Cycle
         /\ in.en => in.pos = IF in_r.en THEN in_r.pos + 1 ELSE 0
<1> USE FilterAssumption
<1>1. CASE in = Quiet
  BY <1>1 DEF Quiet, Cycle
<1>2. CASE in_r.en /\ in = Octet(in_r.pos + 1) /\ in_r.pos + 1 \in 0 .. MaxFrame - 1
  BY <1>2 DEF Octet, Cycle
<1>3. CASE ~in_r.en /\ in = Octet(0)
  BY <1>3 DEF Octet, Cycle
<1> QED BY <1>1, <1>2, <1>3 DEF Inputs

\* The delay loaded at the end of a frame.
LEMMA GapDelayFacts ==
  ASSUME NEW gap \in 0 .. Mod32 - 1
  PROVE  /\ GapDelay(gap) \in 0 .. Mod32 - 1
         /\ gap >= 9 => GapDelay(gap) = gap - 9
  BY FilterAssumption DEF GapDelay, Subtracted

\* The initial state satisfies the inductive invariant.
LEMMA InitIInv == Init => IInv
  BY FilterAssumption
  DEF Init, IInv, TypeOK, DelayInv, PipeInv, Quiet, Cycle

\* A frame in transit: the octets stay in order, and its end loads the delay.
LEMMA ForwardIInv ==
  ASSUME IInv, NEW in \in Inputs, Tick(in), Forward(in)
  PROVE  IInv'
<1> USE FilterAssumption
<1>1. /\ in \in Cycle /\ in_r \in Cycle /\ in_r.en
      /\ in.en => in.pos = in_r.pos + 1
      /\ out' = in_r /\ in_r' = in /\ state = 1
  BY InputFacts DEF IInv, TypeOK, PipeInv, Tick, Forward
<1>2. idle' = 0
  BY <1>1 DEF Tick, CountIdle
<1>3. CASE ~in.en
  <2>1. /\ state' = 0 /\ asked' = min_interframe_gap_reg_r
        /\ interframe_gap_delay' = GapDelay(min_interframe_gap_reg_r)
    BY <1>1, <1>3 DEF Forward
  <2>2. TypeOK'
    BY <1>1, <1>2, <2>1, GapDelayFacts DEF IInv, TypeOK, Tick
  <2>3. DelayInv'
    BY <1>2, <2>1, GapDelayFacts DEF IInv, TypeOK, DelayInv
  <2>4. PipeInv'
    BY <1>1, <1>3, <2>1 DEF PipeInv
  <2> QED BY <2>2, <2>3, <2>4 DEF IInv
<1>4. CASE in.en
  <2>1. UNCHANGED <<state, interframe_gap_delay, asked>>
    BY <1>1, <1>4 DEF Forward
  <2>2. TypeOK'
    BY <1>1, <1>2, <2>1 DEF IInv, TypeOK, Tick
  <2>3. DelayInv' /\ PipeInv'
    BY <1>1, <1>4, <2>1 DEF DelayInv, PipeInv
  <2> QED BY <2>2, <2>3 DEF IInv
<1> QED BY <1>3, <1>4

\* A quiet output: each cycle moves one from the delay to the idle count.
LEMMA BlockIInv ==
  ASSUME IInv, NEW in \in Inputs, Tick(in), Block(in)
  PROVE  IInv'
<1> USE FilterAssumption
<1>1. /\ in \in Cycle /\ (in.en /\ ~in_r.en => in.pos = 0)
      /\ out' = Quiet /\ in_r' = in /\ state = 0 /\ asked' = asked
  BY InputFacts DEF IInv, TypeOK, Tick, Block, Countdown, Starts
<1>2. ~out'.en /\ out' \in Cycle
  BY <1>1 DEF Quiet, Cycle
<1>3. idle' = IF idle < MaxIdle THEN idle + 1 ELSE idle
  BY <1>2 DEF Tick, CountIdle
<1>4. /\ interframe_gap_delay' = IF interframe_gap_delay > 0
                                   THEN interframe_gap_delay - 1 ELSE 0
      /\ state' \in {0, 1}
      /\ state' = 1 => in.en /\ ~in_r.en /\ interframe_gap_delay = 0
  BY <1>1 DEF Block, Countdown, Starts
<1>5. TypeOK'
  BY <1>1, <1>2, <1>3, <1>4 DEF IInv, TypeOK, Tick
<1>6. DelayInv'
  BY <1>1, <1>3, <1>4 DEF IInv, TypeOK, DelayInv
<1>7. PipeInv'
  BY <1>1, <1>2, <1>4 DEF PipeInv
<1> QED BY <1>5, <1>6, <1>7 DEF IInv

\* Every step preserves the invariant.
LEMMA NextIInv == IInv /\ [Next]_vars => IInv'
<1> SUFFICES ASSUME IInv, [Next]_vars PROVE IInv'
  OBVIOUS
<1>1. ASSUME NEW in \in Inputs, Tick(in) PROVE IInv'
  BY <1>1, ForwardIInv, BlockIInv DEF Tick
<1>2. CASE \E gap \in MinGaps : WriteMinInterframeGap(gap)
  BY <1>2, FilterAssumption
  DEF WriteMinInterframeGap, IInv, TypeOK, DelayInv, PipeInv
<1>3. CASE UNCHANGED vars
  BY <1>3 DEF vars, IInv, TypeOK, DelayInv, PipeInv
<1> QED BY <1>1, <1>2, <1>3 DEF Next

\* The filter's counters keep their widths, and the delay its meaning.
THEOREM FilterInvariant == Spec => []IInv
  BY InitIInv, NextIInv, PTL DEF Spec

\* The registers of filter_gmii.v keep their widths.
THEOREM FilterTypes == Spec => []TypeOK
<1>1. IInv => TypeOK
  BY DEF IInv
<1> QED BY <1>1, FilterInvariant, PTL

(***************************************************************************)
(* Frames are forwarded whole, for every frame length, whenever software   *)
(* rewrites the minimum gap.                                               *)
(***************************************************************************)
THEOREM FramesPassWhole == Spec => WholeFrames
<1> DEFINE Whole ==
             /\ ~out.en /\ out'.en => out'.pos = 0
             /\ out.en /\ out'.en /\ UNCHANGED min_interframe_gap_reg
                  => out'.pos = out.pos + 1
             /\ out.en /\ ~out'.en => ~in_r.en
<1>1. ASSUME IInv, NEW in \in Inputs, Tick(in) PROVE Whole
  <2>1. CASE Forward(in)
    BY <1>1, <2>1 DEF Forward, IInv, PipeInv
  <2>2. CASE Block(in)
    BY <1>1, <2>2 DEF Block, Countdown, Starts, IInv, PipeInv, TypeOK, Quiet
  <2> QED BY <1>1, <2>1, <2>2 DEF Tick
<1>2. ASSUME IInv, NEW gap \in MinGaps, WriteMinInterframeGap(gap)
      PROVE  [Whole]_vars
  BY <1>2 DEF WriteMinInterframeGap, vars
<1>3. IInv /\ [Next]_vars => [Whole]_vars
  BY <1>1, <1>2 DEF Next
<1> QED BY <1>3, FilterInvariant, PTL DEF Spec, WholeFrames

\* The count of idle cycles and the delay counter agree when a frame arrives.
LEMMA GapKeptAndNoNeedlessDrop == Spec => OutputGapKept /\ NoNeedlessDrop
<1> DEFINE Kept == ~out.en /\ out'.en => idle >= asked - 8
           Passed == state = 0 /\ ~in_r.en /\ in_r'.en /\ asked >= 9
                       /\ idle + 1 >= asked - 8 => state' = 1
<1>1. ASSUME IInv, NEW in \in Inputs, Tick(in) PROVE Kept /\ Passed
  <2>1. CASE Forward(in)
    BY <1>1, <2>1 DEF Forward, IInv, DelayInv
  <2>2. CASE Block(in)
    <3>1. Kept
      BY <2>2 DEF Block, Countdown, Starts, Quiet
    <3>2. ASSUME state = 0, ~in_r.en, in_r'.en, asked >= 9,
                 idle + 1 >= asked - 8
          PROVE  state' = 1
      <4>1. interframe_gap_delay = 0
        BY <1>1, <3>2, FilterAssumption DEF IInv, DelayInv, TypeOK
      <4> QED BY <1>1, <2>2, <3>2, <4>1 DEF Block, Countdown, Starts, Tick
    <3> QED BY <3>1, <3>2
  <2> QED BY <1>1, <2>1, <2>2 DEF Tick
<1>2. ASSUME NEW gap \in MinGaps, WriteMinInterframeGap(gap)
      PROVE  Kept /\ Passed
  BY <1>2 DEF WriteMinInterframeGap
<1>3. IInv /\ [Next]_vars => [Kept]_vars /\ [Passed]_vars
  BY <1>1, <1>2 DEF Next
<1> QED BY <1>3, FilterInvariant, PTL DEF Spec, OutputGapKept, NoNeedlessDrop

(***************************************************************************)
(* Between two forwarded frames the output is idle for the configured      *)
(* minimum, whatever was dropped in between.                               *)
(***************************************************************************)
THEOREM MinimumGapKept == Spec => OutputGapKept
BY GapKeptAndNoNeedlessDrop

(***************************************************************************)
(* A frame is blocked only when forwarding it would break that minimum.    *)
(***************************************************************************)
THEOREM DroppedOnlyForTheGap == Spec => NoNeedlessDrop
BY GapKeptAndNoNeedlessDrop
=============================================================================
