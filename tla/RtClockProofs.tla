--------------------------- MODULE RtClockProofs ---------------------------
(***************************************************************************)
(* Proofs about the real-time clock for every clock ratio, second length,  *)
(* counter width and correction that RtClockAssumption admits; the code's  *)
(* 8, 10^9, 2^30, 2^48 and 2^28 are one instance.                          *)
(***************************************************************************)
EXTENDS RtClock, TLAPS

(***************************************************************************)
(* An addition below the modulus stays below it, and is exact as long as it*)
(* does not reach the modulus.                                             *)
(***************************************************************************)
LEMMA WrapAddRange ==
  ASSUME NEW m \in Nat, NEW a \in 0 .. m - 1, NEW b \in Nat, b <= m
  PROVE  /\ WrapAdd(a, b, m) \in 0 .. m - 1
         /\ a + b < m => WrapAdd(a, b, m) = a + b
  BY DEF WrapAdd

\* The accumulator stays within its two bit slices.
LEMMA AccumulateType ==
  ASSUME NEW sum \in Delta, NEW delta \in Delta
  PROVE  Accumulate(sum, delta) \in Delta
<1>1. WrapAdd(sum.frac, delta.frac, FracUnit) \in 0 .. FracUnit - 1
  <2>1. /\ sum.frac \in 0 .. FracUnit - 1
        /\ delta.frac \in 0 .. FracUnit - 1
        /\ FracUnit \in Nat
    BY RtClockAssumption DEF Delta
  <2> QED BY <2>1, WrapAddRange
<1>2. (delta.int + 1) % 16 \in 0 .. 15 /\ delta.int \in 0 .. 15
  BY DEF Delta, MaxStep
<1> QED
  BY <1>1, <1>2 DEF Accumulate, Delta, MaxStep

\* Seconds stay within 48 bits.
LEMMA NextSecType ==
  ASSUME NEW s \in 0 .. SecWrap - 1
  PROVE  NextSec(s) \in 0 .. SecWrap - 1
  BY RtClockAssumption DEF NextSec, WrapAdd

\* The initial state satisfies the inductive invariant.
LEMMA InitIInv == Init => IInv
<1> SUFFICES ASSUME Init PROVE IInv
  OBVIOUS
<1> USE RtClockAssumption DEF Init, MaxStep
<1>1. TypeOK
  <2>1. control_reg \in [enable : BOOLEAN, select : BOOLEAN]
    OBVIOUS
  <2>2. corrected_delta_pps_reg \in Delta /\ corrected_delta_sum_pps \in Delta
    BY DEF Delta, ZeroDelta
  <2>3. ClkToNs \in 0 .. NsecWrap - 1 /\ 0 \in 0 .. NsecWrap - 1
    OBVIOUS
  <2>4. 0 \in 0 .. SecWrap - 1
    OBVIOUS
  <2> QED BY <2>1, <2>2, <2>3, <2>4 DEF TypeOK
<1>2. FreeNsecInRange /\ DisciplinedOvershoot /\ HoldsAtZero
  BY DEF FreeNsecInRange, DisciplinedOvershoot, HoldsAtZero
<1> QED BY <1>1, <1>2 DEF IInv

(***************************************************************************)
(* A register write changes no counter.                                    *)
(***************************************************************************)
LEMMA SoftwareIInv == IInv /\ Software => IInv'
<1> SUFFICES ASSUME IInv, Software PROVE IInv'
  OBVIOUS
<1> USE DEF IInv, TypeOK, FreeNsecInRange, DisciplinedOvershoot, HoldsAtZero,
            free, disciplined, edges
<1>1. CASE \E enable, select \in BOOLEAN : WriteControl(enable, select)
  BY <1>1 DEF WriteControl
<1>2. CASE \E value \in SecConfigs : WriteSecConfig(value)
  BY <1>2, RtClockAssumption DEF WriteSecConfig
<1>3. CASE \E value \in Deltas : WriteCorrectedDelta(value)
  BY <1>3, RtClockAssumption DEF WriteCorrectedDelta
<1> QED BY <1>1, <1>2, <1>3 DEF Software

---------------------------------------------------------------------------
(***************************************************************************)
(* The output multiplexer and the free-running pair keep their ranges: the *)
(* comparison with NsecModulo - ClkToNs is one addition ahead.             *)
(***************************************************************************)
LEMMA FreeRunInv ==
  ASSUME IInv, FreeRun, Outputs
  PROVE  /\ sec' \in 0 .. SecWrap - 1 /\ nsec' \in 0 .. NsecWrap - 1
         /\ sec_next' \in 0 .. SecWrap - 1 /\ nsec_next' \in 0 .. NsecWrap - 1
         /\ FreeNsecInRange'
         /\ nsec' < NsecModulo - ClkToNs + 2 * MaxStep
<1> USE RtClockAssumption DEF IInv, FreeNsecInRange, DisciplinedOvershoot, MaxStep
<1>1. sec_next' \in 0 .. SecWrap - 1
  BY NextSecType DEF FreeRun, TypeOK
<1>2. nsec_next' \in 0 .. NsecWrap - 1 /\ nsec_next' < NsecModulo
  BY DEF FreeRun, Rollover, TypeOK
<1>3. sec' \in 0 .. SecWrap - 1
  BY DEF Outputs, TypeOK
<1>4. nsec' \in 0 .. NsecWrap - 1 /\ nsec' < NsecModulo - ClkToNs + 2 * MaxStep
  BY DEF Outputs, TypeOK
<1> QED BY <1>1, <1>2, <1>3, <1>4

(***************************************************************************)
(* What each branch of the pps section keeps.  The bound needs both halves *)
(* of DisciplinedOvershoot: Advance runs only when sec_inc_pps is low, so  *)
(* it adds at most one step to a value at most one step too large.         *)
(***************************************************************************)
DisciplineKeeps ==
  /\ sec_next_pps' \in 0 .. SecWrap - 1
  /\ nsec_next_pps' \in 0 .. NsecWrap - 1
  /\ nsec_next_total_pps' \in 0 .. NsecWrap - 1
  /\ last_period_pps' \in 0 .. NsecWrap - 1
  /\ corrected_delta_sum_pps' \in Delta
  /\ sec_inc_pps_done' \in BOOLEAN
  /\ nsec_next_pps' < NsecModulo - ClkToNs + 2 * MaxStep
  /\ ~Rollover(nsec_next_pps) =>
       nsec_next_pps' < NsecModulo - ClkToNs + MaxStep
  /\ HoldsAtZero'

\* The count of cycles since the last pulse wraps within its 30 bits.
LEMMA CountTotalType ==
  ASSUME TypeOK, CountTotal
  PROVE  nsec_next_total_pps' \in 0 .. NsecWrap - 1
  BY RtClockAssumption DEF TypeOK, CountTotal, WrapAdd, MaxStep

\* Every branch of the pps section re-establishes the invariant.
LEMMA DisciplineInv ==
  ASSUME IInv, NEW used \in BOOLEAN, Discipline(used)
  PROVE  DisciplineKeeps
<1> USE RtClockAssumption DEF MaxStep
<1>1. CASE LoadConfig
  <2>1. ZeroDelta \in Delta
    BY DEF ZeroDelta, Delta
  <2> QED BY <1>1, <2>1
        DEF LoadConfig, DisciplineKeeps, IInv, TypeOK, HoldsAtZero
<1>2. CASE Pulse
  <2>1. sec_next_pps' \in 0 .. SecWrap - 1
    BY <1>2, NextSecType DEF Pulse, IInv, TypeOK
  <2>2. /\ nsec_next_pps' \in 0 .. NsecWrap - 1
        /\ nsec_next_pps' < NsecModulo - ClkToNs + 2 * MaxStep
        /\ nsec_next_pps' < NsecModulo - ClkToNs + MaxStep
        /\ nsec_next_total_pps' \in 0 .. NsecWrap - 1
    BY <1>2 DEF Pulse
  <2>3. /\ last_period_pps' \in 0 .. NsecWrap - 1
        /\ corrected_delta_sum_pps' \in Delta
        /\ sec_inc_pps_done' \in BOOLEAN
        /\ HoldsAtZero'
    BY <1>2 DEF Pulse, IInv, TypeOK, HoldsAtZero
  <2> QED BY <2>1, <2>2, <2>3 DEF DisciplineKeeps
<1>3. CASE Advance
  <2> DEFINE step == corrected_delta_sum_pps.int
  <2>1. step \in 0 .. 15
    BY DEF IInv, TypeOK, Delta
  <2>2. /\ nsec_next_pps \in 0 .. NsecWrap - 1
        /\ nsec_next_pps < NsecModulo - ClkToNs + MaxStep
    BY <1>3 DEF Advance, IInv, TypeOK, DisciplinedOvershoot
  <2>3. nsec_next_pps' = nsec_next_pps + step
    BY <1>3, <2>1, <2>2 DEF Advance, WrapAdd
  <2>4. corrected_delta_sum_pps' \in Delta
    BY <1>3, AccumulateType DEF Advance, IInv, TypeOK
  <2>5. nsec_next_total_pps' \in 0 .. NsecWrap - 1
    BY <1>3, CountTotalType DEF Advance, IInv
  <2>6. /\ nsec_next_pps' \in 0 .. NsecWrap - 1
        /\ nsec_next_pps' < NsecModulo - ClkToNs + 2 * MaxStep
        /\ ~Rollover(nsec_next_pps) =>
             nsec_next_pps' < NsecModulo - ClkToNs + MaxStep
    BY <2>1, <2>2, <2>3 DEF Rollover
  <2>7. /\ sec_next_pps' \in 0 .. SecWrap - 1
        /\ last_period_pps' \in 0 .. NsecWrap - 1
        /\ sec_inc_pps_done' \in BOOLEAN
        /\ HoldsAtZero'
    BY <1>3 DEF Advance, IInv, TypeOK, HoldsAtZero
  <2> QED BY <2>4, <2>5, <2>6, <2>7 DEF DisciplineKeeps
<1>4. CASE CloseSecond
  <2>1. sec_next_pps' \in 0 .. SecWrap - 1
    BY <1>4, NextSecType DEF CloseSecond, IInv, TypeOK
  <2>2. nsec_next_total_pps' \in 0 .. NsecWrap - 1
    BY <1>4, CountTotalType DEF CloseSecond, IInv
  <2> QED BY <1>4, <2>1, <2>2
        DEF CloseSecond, DisciplineKeeps, IInv, TypeOK, HoldsAtZero
<1>5. CASE AwaitPulse
  <2>1. nsec_next_total_pps' \in 0 .. NsecWrap - 1
    BY <1>5, CountTotalType DEF AwaitPulse, IInv
  <2> QED BY <1>5, <2>1
        DEF AwaitPulse, DisciplineKeeps, IInv, TypeOK, HoldsAtZero,
            DisciplinedOvershoot
<1> QED BY <1>1, <1>2, <1>3, <1>4, <1>5 DEF Discipline

\* A clock cycle preserves the inductive invariant.
LEMMA TickIInv ==
  ASSUME IInv, NEW pps \in BOOLEAN, NEW pps2 \in BOOLEAN, Tick(pps, pps2)
  PROVE  IInv'
<1> DEFINE used == PpsUsed(pps, pps2)
<1>1. used \in BOOLEAN
  BY DEF PpsUsed
<1>2. Discipline(used) /\ FreeRun /\ Outputs /\ UNCHANGED regs
  BY DEF Tick
<1>3. DisciplineKeeps
  BY <1>1, <1>2, DisciplineInv
<1>4. sec_inc_pps' = Rollover(nsec_next_pps) /\ pps_prev' = used
      /\ pps_enabled_prev' = control_reg.enable
  BY <1>2 DEF Discipline
<1>5. sec_inc_pps' \in BOOLEAN /\ pps_prev' \in BOOLEAN
      /\ pps_enabled_prev' \in BOOLEAN
  BY <1>1, <1>4 DEF Rollover, IInv, TypeOK
<1>6. TypeOK'
  BY <1>2, <1>3, <1>5, FreeRunInv DEF TypeOK, IInv, DisciplineKeeps, regs
<1>7. FreeNsecInRange' /\ DisciplinedOvershoot' /\ HoldsAtZero'
  BY <1>2, <1>3, <1>4, FreeRunInv DEF DisciplinedOvershoot, DisciplineKeeps
<1> QED BY <1>6, <1>7 DEF IInv

\* So does every step of the specification.
LEMMA NextIInv == IInv /\ [Next]_vars => IInv'
<1> SUFFICES ASSUME IInv, [Next]_vars PROVE IInv'
  OBVIOUS
<1>1. CASE \E pps, pps2 \in BOOLEAN : Tick(pps, pps2)
  BY <1>1, TickIInv
<1>2. CASE Software
  BY <1>2, SoftwareIInv
<1>3. CASE UNCHANGED vars
  BY <1>3
  DEF vars, regs, free, disciplined, edges, IInv, TypeOK, FreeNsecInRange,
      DisciplinedOvershoot, HoldsAtZero
<1> QED BY <1>1, <1>2, <1>3 DEF Next

(***************************************************************************)
(* The clock keeps its ranges for ever: the free-running nanoseconds never *)
(* reach a full second, the disciplined ones overshoot it by less than two *)
(* steps and hold at zero while a pulse is awaited.                        *)
(***************************************************************************)
THEOREM ClockRanges ==
  Spec => [](TypeOK /\ FreeNsecInRange /\ DisciplinedOvershoot /\ HoldsAtZero)
<1>1. IInv => TypeOK /\ FreeNsecInRange /\ DisciplinedOvershoot /\ HoldsAtZero
  BY DEF IInv
<1> QED BY <1>1, InitIInv, NextIInv, PTL DEF Spec

\* The registers of rtclock.v keep their widths.
THEOREM ClockTypes == Spec => []TypeOK
  BY ClockRanges, PTL

\* The free-running nanoseconds, nsec_next, stay below one second.
THEOREM FreeRunningInRange == Spec => []FreeNsecInRange
  BY ClockRanges, PTL

\* The disciplined counter of rtclock.v stands at zero until the pulse comes
\* when it has closed the second by itself.
THEOREM WaitsAtZero == Spec => []HoldsAtZero
  BY ClockRanges, PTL

---------------------------------------------------------------------------
(***************************************************************************)
(* Free-running time is exact: each cycle adds ClkToNs to                  *)
(* sec_next * NsecModulo + nsec_next, unless the 48-bit second wraps.      *)
(***************************************************************************)
THEOREM FreeRunIsExact == Spec => FreeRunExact
<1> DEFINE Exact == \/ UNCHANGED free
                    \/ FreeTime' = FreeTime + ClkToNs
                    \/ sec_next' < sec_next
<1>1. ASSUME IInv, FreeRun PROVE Exact
  <2> USE RtClockAssumption
  <2>0. sec_next \in Nat /\ nsec_next \in Nat /\ sec_next < SecWrap
    BY <1>1 DEF IInv, TypeOK
  <2>1. CASE ~Rollover(nsec_next)
    BY <1>1, <2>0, <2>1 DEF FreeRun, FreeTime
  <2>2. CASE Rollover(nsec_next) /\ sec_next + 1 >= SecWrap
    BY <1>1, <2>0, <2>2 DEF FreeRun, NextSec, WrapAdd
  <2>3. CASE Rollover(nsec_next) /\ sec_next + 1 < SecWrap
    <3>1. sec_next' = sec_next + 1
      BY <1>1, <2>0, <2>3 DEF FreeRun, NextSec, WrapAdd
    <3>2. nsec_next' = nsec_next - (NsecModulo - ClkToNs)
      BY <1>1, <2>3 DEF FreeRun
    <3>3. (sec_next + 1) * NsecModulo = sec_next * NsecModulo + NsecModulo
      BY <2>0
    <3>4. sec_next * NsecModulo \in Nat
      BY <2>0
    <3> QED BY <2>0, <3>1, <3>2, <3>3, <3>4 DEF FreeTime
  <2> QED BY <2>0, <2>1, <2>2, <2>3
<1>2. ASSUME IInv, [Next]_vars PROVE Exact
  <2>1. CASE \E pps, pps2 \in BOOLEAN : Tick(pps, pps2)
    BY <1>1, <1>2, <2>1 DEF Tick
  <2>2. CASE Software \/ UNCHANGED vars
    BY <2>2 DEF Software, WriteControl, WriteSecConfig, WriteCorrectedDelta,
                vars, free
  <2> QED BY <1>2, <2>1, <2>2 DEF Next
<1>3. IInv /\ [Next]_vars => [Exact]_vars
  BY <1>2
<1> QED BY <1>3, InitIInv, NextIInv, PTL DEF Spec, FreeRunExact

(***************************************************************************)
(* Every pulse counts one second, once: from pulse to pulse the disciplined*)
(* clock advances by exactly one, whoever closed the second, for every     *)
(* timing of pulses, corrections and re-enabling.                          *)
(***************************************************************************)
THEOREM EveryPulseCountsOnce == Spec => PulsesCountedOnce
<1> DEFINE enabled == EnableEdge /\ pps_enabled_prev'
           pulse == ~pps_prev /\ pps_prev'
           Counted ==
             /\ enabled => sec_next_pps' = sec_config_reg
             /\ ~enabled /\ pulse => Pulses' = NextSec(Pulses)
             /\ ~enabled /\ ~pulse => Pulses' = Pulses
<1>1. ASSUME IInv, NEW used \in BOOLEAN, Discipline(used) PROVE Counted
  <2>1. (EnableEdge <=> enabled) /\ (PpsEdge(used) <=> pulse)
    BY <1>1 DEF Discipline, EnableEdge, PpsEdge
  <2>2. CASE EnableEdge /\ LoadConfig
    BY <2>1, <2>2 DEF LoadConfig
  <2>3. CASE ~EnableEdge /\ PpsEdge(used) /\ Pulse
    <3>1. sec_next_pps \in 0 .. SecWrap - 1 /\ SecWrap \in Nat /\ SecWrap > 1
      BY <1>1, RtClockAssumption DEF IInv, TypeOK
    <3>2. sec_inc_pps_done' = FALSE
      BY <2>3 DEF Pulse
    <3>3. CASE sec_inc_pps_done
      <4>1. Pulses = PrevSec(sec_next_pps) /\ Pulses' = sec_next_pps
        BY <2>3, <3>2, <3>3 DEF Pulses, Pulse
      <4>2. NextSec(PrevSec(sec_next_pps)) = sec_next_pps
        BY <3>1 DEF NextSec, PrevSec, WrapAdd
      <4> QED BY <2>1, <2>3, <4>1, <4>2
    <3>4. CASE ~sec_inc_pps_done
      BY <2>1, <2>3, <3>2, <3>4 DEF Pulses, Pulse
    <3> QED BY <3>3, <3>4
  <2>4. CASE ~EnableEdge /\ ~PpsEdge(used) /\ (Advance \/ AwaitPulse)
    BY <2>1, <2>4 DEF Advance, AwaitPulse, Pulses
  <2>5. CASE ~EnableEdge /\ ~PpsEdge(used) /\ CloseSecond
    <3>1. sec_next_pps \in 0 .. SecWrap - 1 /\ SecWrap \in Nat /\ SecWrap > 1
      BY <1>1, RtClockAssumption DEF IInv, TypeOK
    <3>2. PrevSec(NextSec(sec_next_pps)) = sec_next_pps
      BY <3>1 DEF NextSec, PrevSec, WrapAdd
    <3>3. Pulses = sec_next_pps /\ Pulses' = PrevSec(NextSec(sec_next_pps))
      BY <2>5 DEF Pulses, CloseSecond
    <3> QED BY <2>1, <2>5, <3>2, <3>3
  <2> QED BY <1>1, <2>2, <2>3, <2>4, <2>5 DEF Discipline
<1>2. ASSUME IInv, Next PROVE Counted
  <2>1. CASE \E pps, pps2 \in BOOLEAN : Tick(pps, pps2)
    <3>1. PICK pps \in BOOLEAN, pps2 \in BOOLEAN : Tick(pps, pps2)
      BY <2>1
    <3>2. PpsUsed(pps, pps2) \in BOOLEAN
      BY DEF PpsUsed
    <3>3. Discipline(PpsUsed(pps, pps2))
      BY <3>1 DEF Tick
    <3> QED BY <1>1, <1>2, <3>2, <3>3
  <2>2. CASE Software
    BY <2>2 DEF Software, WriteControl, WriteSecConfig, WriteCorrectedDelta,
                disciplined, edges, EnableEdge, Pulses, PrevSec
  <2> QED BY <1>2, <2>1, <2>2 DEF Next
<1>3. IInv /\ [Next]_vars => [Counted]_vars
  BY <1>2
<1> QED BY <1>3, InitIInv, NextIInv, PTL DEF Spec, PulsesCountedOnce
=============================================================================
