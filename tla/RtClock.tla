------------------------------ MODULE RtClock ------------------------------
(***************************************************************************)
(* The real-time clock core: lib/hw/lsi/cores/rtclock/hdl/rtclock.v and    *)
(* the configuration registers of rtclock_cpu_regs.v.                      *)
(*                                                                         *)
(* Two counters run side by side from the same clk: the free-running pair  *)
(* sec_next/nsec_next, and the pair sec_next_pps/nsec_next_pps that is     *)
(* disciplined by the pulse-per-second input.  control_reg selects which   *)
(* pair drives the outputs sec/nsec that the generator and the analyzer    *)
(* use as timestamps.  A step is one rising edge of clk (Tick) or one      *)
(* register write by software; the writes come from another clock domain   *)
(* and may fall between any two ticks.                                     *)
(***************************************************************************)
EXTENDS Integers

CONSTANTS
  ClkToNs,      \* C_CLK_TO_NS_RATIO: nanoseconds per clk cycle (8)
  NsecModulo,   \* nsec_modulo: nanoseconds per second (10^9)
  NsecWrap,     \* 2^30: the nanosecond counters are 30 bits wide
  SecWrap,      \* 2^48: the second counters are 48 bits wide
  FracUnit,     \* 2^28: fractions of a nanosecond in corrected_delta_pps
  Deltas,       \* values software may write to corrected_delta_pps_reg
  SecConfigs,   \* values software may write to sec_config_reg
  PowerUpTotals \* contents the unreset nsec_next_total_pps may power up with

\* The 32-bit delta and its accumulator: [31:28] are whole nanoseconds and
\* [27:0] the fraction, kept here as the two slices.
MaxStep == 15
Delta == [int : 0 .. MaxStep, frac : 0 .. FracUnit - 1]
ZeroDelta == [int |-> 0, frac |-> 0]

\* a + b in a counter of modulus m, for a and b below m.
WrapAdd(a, b, m) == IF a + b >= m THEN a + b - m ELSE a + b

\* {4'b0, sum[27:0]} + delta in 32 bits.
Accumulate(sum, delta) ==
  [int |-> IF sum.frac + delta.frac >= FracUnit
             THEN (delta.int + 1) % (MaxStep + 1)
             ELSE delta.int,
   frac |-> WrapAdd(sum.frac, delta.frac, FracUnit)]

ASSUME RtClockAssumption ==
  /\ ClkToNs \in Nat \ {0} /\ ClkToNs <= MaxStep
  /\ NsecModulo \in Nat /\ 2 * ClkToNs < NsecModulo
  /\ NsecWrap \in Nat /\ NsecModulo - ClkToNs + 2 * MaxStep <= NsecWrap
  /\ SecWrap \in Nat /\ SecWrap > 1
  /\ FracUnit \in Nat \ {0}
  /\ Deltas \subseteq Delta
  /\ SecConfigs \subseteq 0 .. SecWrap - 1
  /\ PowerUpTotals \subseteq 0 .. NsecWrap - 1

VARIABLES
  control_reg, sec_config_reg, corrected_delta_pps_reg, \* written by software
  sec, nsec,                                           \* the outputs
  sec_next, nsec_next,                                 \* free running
  sec_next_pps, nsec_next_pps,                         \* disciplined
  nsec_next_total_pps, last_period_pps, corrected_delta_sum_pps,
  sec_inc_pps, sec_inc_pps_done, pps_prev, pps_enabled_prev

regs == <<control_reg, sec_config_reg, corrected_delta_pps_reg>>
free == <<sec_next, nsec_next>>
disciplined == <<sec_next_pps, nsec_next_pps, nsec_next_total_pps,
                 last_period_pps, corrected_delta_sum_pps,
                 sec_inc_pps_done>>
edges == <<sec_inc_pps, pps_prev, pps_enabled_prev>>
vars == <<regs, sec, nsec, free, disciplined, edges>>

TypeOK ==
  /\ control_reg \in [enable : BOOLEAN, select : BOOLEAN]
  /\ sec_config_reg \in 0 .. SecWrap - 1
  /\ corrected_delta_pps_reg \in Delta
  /\ sec \in 0 .. SecWrap - 1 /\ nsec \in 0 .. NsecWrap - 1
  /\ sec_next \in 0 .. SecWrap - 1 /\ nsec_next \in 0 .. NsecWrap - 1
  /\ sec_next_pps \in 0 .. SecWrap - 1 /\ nsec_next_pps \in 0 .. NsecWrap - 1
  /\ nsec_next_total_pps \in 0 .. NsecWrap - 1
  /\ last_period_pps \in 0 .. NsecWrap - 1
  /\ corrected_delta_sum_pps \in Delta
  /\ sec_inc_pps \in BOOLEAN /\ sec_inc_pps_done \in BOOLEAN
  /\ pps_prev \in BOOLEAN /\ pps_enabled_prev \in BOOLEAN

(***************************************************************************)
(* Reset leaves pps_prev, pps_enabled_prev and nsec_next_total_pps alone,  *)
(* so their power-up contents are arbitrary.                               *)
(***************************************************************************)
Init ==
  /\ control_reg = [enable |-> FALSE, select |-> FALSE]
  /\ sec_config_reg = 0
  /\ corrected_delta_pps_reg = [int |-> 8, frac |-> 0]
  /\ sec = 0 /\ nsec = 0
  /\ sec_next = 0 /\ nsec_next = ClkToNs
  /\ sec_next_pps = 0 /\ nsec_next_pps = ClkToNs
  /\ nsec_next_total_pps \in PowerUpTotals
  /\ last_period_pps = 0
  /\ corrected_delta_sum_pps = ZeroDelta
  /\ sec_inc_pps = FALSE /\ sec_inc_pps_done = FALSE
  /\ pps_prev \in BOOLEAN /\ pps_enabled_prev \in BOOLEAN

---------------------------------------------------------------------------
\* Register writes.

WriteControl(enable, select) ==
  /\ control_reg' = [enable |-> enable, select |-> select]
  /\ UNCHANGED <<sec_config_reg, corrected_delta_pps_reg, sec, nsec, free,
                 disciplined, edges>>

WriteSecConfig(value) ==
  /\ sec_config_reg' = value
  /\ UNCHANGED <<control_reg, corrected_delta_pps_reg, sec, nsec, free,
                 disciplined, edges>>

WriteCorrectedDelta(value) ==
  /\ corrected_delta_pps_reg' = value
  /\ UNCHANGED <<control_reg, sec_config_reg, sec, nsec, free,
                 disciplined, edges>>

---------------------------------------------------------------------------
\* One rising edge of clk.

NextSecUnbounded(s) == s + 1
NextSec(s) == WrapAdd(s, 1, SecWrap)
RolloverLate(n) == n >= NsecModulo
Rollover(n) == n >= NsecModulo - ClkToNs

\* The multiplexer in front of the outputs.
Outputs ==
  /\ sec' = IF control_reg.enable THEN sec_next_pps ELSE sec_next
  /\ nsec' = IF control_reg.enable THEN nsec_next_pps ELSE nsec_next

\* "1/2 - no external pps sync"
FreeRunDropsRest ==
  /\ sec_next' = IF Rollover(nsec_next) THEN NextSec(sec_next) ELSE sec_next
  /\ nsec_next' = IF Rollover(nsec_next) THEN 0 ELSE nsec_next + ClkToNs
FreeRun ==
  /\ sec_next' = IF Rollover(nsec_next) THEN NextSec(sec_next) ELSE sec_next
  /\ nsec_next' = IF Rollover(nsec_next)
                    THEN nsec_next - (NsecModulo - ClkToNs)
                    ELSE nsec_next + ClkToNs

PpsUsed(pps, pps2) == IF control_reg.select THEN pps2 ELSE pps
EnableEdge == control_reg.enable /\ ~pps_enabled_prev
PpsEdge(used) == used /\ ~pps_prev

\* Software has just enabled the discipline: load the configured second.
LoadConfig ==
  /\ sec_next_pps' = sec_config_reg
  /\ nsec_next_pps' = 0
  /\ nsec_next_total_pps' = 0
  /\ corrected_delta_sum_pps' = ZeroDelta
  /\ UNCHANGED <<last_period_pps, sec_inc_pps_done>>

\* A pulse: restart the second, and count it unless it was counted already.
PulseCountsAlways ==
  /\ nsec_next_pps' = ClkToNs
  /\ nsec_next_total_pps' = ClkToNs
  /\ sec_next_pps' = NextSec(sec_next_pps)
  /\ last_period_pps' = nsec_next_total_pps
  /\ sec_inc_pps_done' = FALSE
  /\ UNCHANGED corrected_delta_sum_pps
PulseKeepsNsec ==
  /\ nsec_next_total_pps' = ClkToNs
  /\ sec_next_pps' = IF sec_inc_pps_done THEN sec_next_pps
                                         ELSE NextSec(sec_next_pps)
  /\ last_period_pps' = nsec_next_total_pps
  /\ sec_inc_pps_done' = FALSE
  /\ UNCHANGED <<nsec_next_pps, corrected_delta_sum_pps>>
Pulse ==
  /\ nsec_next_pps' = ClkToNs
  /\ nsec_next_total_pps' = ClkToNs
  /\ sec_next_pps' = IF sec_inc_pps_done THEN sec_next_pps
                                         ELSE NextSec(sec_next_pps)
  /\ last_period_pps' = nsec_next_total_pps
  /\ sec_inc_pps_done' = FALSE
  /\ UNCHANGED corrected_delta_sum_pps

CountTotal ==
  nsec_next_total_pps' = WrapAdd(nsec_next_total_pps, ClkToNs, NsecWrap)

\* Inside a second: advance by the integer part of the accumulator.
AdvancePastEnd ==
  /\ ~sec_inc_pps_done
  /\ CountTotal
  /\ nsec_next_pps' =
       WrapAdd(nsec_next_pps, corrected_delta_sum_pps.int, NsecWrap)
  /\ corrected_delta_sum_pps' =
       Accumulate(corrected_delta_sum_pps, corrected_delta_pps_reg)
  /\ UNCHANGED <<sec_next_pps, last_period_pps, sec_inc_pps_done>>
Advance ==
  /\ ~sec_inc_pps_done /\ ~sec_inc_pps
  /\ CountTotal
  /\ nsec_next_pps' =
       WrapAdd(nsec_next_pps, corrected_delta_sum_pps.int, NsecWrap)
  /\ corrected_delta_sum_pps' =
       Accumulate(corrected_delta_sum_pps, corrected_delta_pps_reg)
  /\ UNCHANGED <<sec_next_pps, last_period_pps, sec_inc_pps_done>>

\* The local second is over before the pulse: count it once.
CloseSecond ==
  /\ ~sec_inc_pps_done /\ sec_inc_pps
  /\ CountTotal
  /\ sec_next_pps' = NextSec(sec_next_pps)
  /\ nsec_next_pps' = 0
  /\ sec_inc_pps_done' = TRUE
  /\ UNCHANGED <<last_period_pps, corrected_delta_sum_pps>>

\* The second has been counted: hold at zero until the pulse comes.
AwaitPulseRunning ==
  /\ sec_inc_pps_done
  /\ CountTotal
  /\ nsec_next_pps' = WrapAdd(nsec_next_pps, ClkToNs, NsecWrap)
  /\ UNCHANGED <<sec_next_pps, last_period_pps, corrected_delta_sum_pps,
                 sec_inc_pps_done>>
AwaitPulse ==
  /\ sec_inc_pps_done
  /\ CountTotal
  /\ UNCHANGED <<sec_next_pps, nsec_next_pps, last_period_pps,
                 corrected_delta_sum_pps, sec_inc_pps_done>>

\* "2/2 - with pps sync"; runs whether or not the discipline is enabled.
Discipline(used) ==
  /\ sec_inc_pps' = Rollover(nsec_next_pps)
  /\ pps_prev' = used
  /\ pps_enabled_prev' = control_reg.enable
  /\ \/ EnableEdge /\ LoadConfig
     \/ ~EnableEdge /\ PpsEdge(used) /\ Pulse
     \/ ~EnableEdge /\ ~PpsEdge(used) /\ (Advance \/ CloseSecond \/ AwaitPulse)

Tick(pps, pps2) ==
  /\ Outputs
  /\ FreeRun
  /\ Discipline(PpsUsed(pps, pps2))
  /\ UNCHANGED regs

Software ==
  \/ \E enable, select \in BOOLEAN : WriteControl(enable, select)
  \/ \E value \in SecConfigs : WriteSecConfig(value)
  \/ \E value \in Deltas : WriteCorrectedDelta(value)

Next ==
  \/ \E pps, pps2 \in BOOLEAN : Tick(pps, pps2)
  \/ Software

Spec == Init /\ [][Next]_vars

---------------------------------------------------------------------------
\* Properties.

(***************************************************************************)
(* The free-running nanosecond counter never shows a value that is not a   *)
(* fraction of a second (rtclock.v "1/2"): the comparison with             *)
(* nsec_modulo-C_CLK_TO_NS_RATIO happens one cycle ahead of the overflow.  *)
(***************************************************************************)
FreeNsecInRange == nsec_next < NsecModulo

(***************************************************************************)
(* The disciplined counter may overshoot, because sec_inc_pps is a         *)
(* register and lags the comparison by one cycle; but by less than two     *)
(* accumulator steps, so that neither it nor the output wraps 30 bits,     *)
(* whatever correction software writes and whenever pulses and writes come.*)
(* The last conjunct is what the lag costs: one step while sec_inc_pps has *)
(* not caught up.                                                          *)
(***************************************************************************)
DisciplinedOvershoot ==
  /\ nsec_next_pps < NsecModulo - ClkToNs + 2 * MaxStep
  /\ nsec < NsecModulo - ClkToNs + 2 * MaxStep
  /\ ~sec_inc_pps => nsec_next_pps < NsecModulo - ClkToNs + MaxStep

(***************************************************************************)
(* Free-running time advances by exactly C_CLK_TO_NS_RATIO per tick, across*)
(* second boundaries too, until the 48-bit second counter wraps.           *)
(***************************************************************************)
FreeTime == sec_next * NsecModulo + nsec_next
FreeRunExact ==
  [][\/ UNCHANGED free
     \/ FreeTime' = FreeTime + ClkToNs
     \/ sec_next' < sec_next]_vars

(***************************************************************************)
(* The seconds counted up to the last pulse: the second that CloseSecond   *)
(* counts ahead of its pulse is not yet included.                          *)
(***************************************************************************)
PrevSec(s) == IF s = 0 THEN SecWrap - 1 ELSE s - 1
Pulses == IF sec_inc_pps_done THEN PrevSec(sec_next_pps) ELSE sec_next_pps

(***************************************************************************)
(* From pulse to pulse the disciplined clock counts exactly one second     *)
(* (modulo its 48 bits): it does not matter whether the second is closed   *)
(* locally ahead of its pulse or by the pulse itself, and no cycle other   *)
(* than a pulse or the enabling of the discipline moves the count.         *)
(***************************************************************************)
PulsesCountedOnce ==
  [][LET enabled == EnableEdge /\ pps_enabled_prev'
         pulse == ~pps_prev /\ pps_prev'
     IN  /\ enabled => sec_next_pps' = sec_config_reg
         /\ ~enabled /\ pulse => Pulses' = NextSec(Pulses)
         /\ ~enabled /\ ~pulse => Pulses' = Pulses]_vars

(***************************************************************************)
(* While the discipline waits for a pulse, the nanoseconds hold at zero:   *)
(* the clock never runs into the next second before its pulse, even when   *)
(* the discipline is disabled and enabled again meanwhile.                 *)
(***************************************************************************)
HoldsAtZero == sec_inc_pps_done => nsec_next_pps = 0

\* The inductive invariant behind the theorems of RtClockProofs.
IInv == TypeOK /\ FreeNsecInRange /\ DisciplinedOvershoot /\ HoldsAtZero

=============================================================================
