----------------------------- MODULE RtClockPps -----------------------------
(***************************************************************************)
(* RtClock with a pulse source as its environment: pulses one cycle wide,  *)
(* PpsPeriods cycles apart (a stable source has one period; a local clock  *)
(* that drifts against it has another).  Software follows rtclock-pps-sync:*)
(* disable, write the current second, enable with pps2 selected.           *)
(***************************************************************************)
EXTENDS RtClock

CONSTANT PpsPeriods \* clk cycles from one pulse to the next, at least 2

VARIABLES
  wait,   \* cycles until the next pulse
  pulses  \* pulses seen since it was enabled: 0, 1, 2, 3 (three or more)

ppsVars == <<vars, wait, pulses>>

PpsInit ==
  /\ Init
  /\ wait \in UNION {0 .. p - 1 : p \in PpsPeriods}
  /\ pulses = 0

\* The pulse source: pps is left unconnected.
Source ==
  /\ Tick(FALSE, wait = 0)
  /\ IF wait = 0 THEN wait' \in {p - 1 : p \in PpsPeriods}
                 ELSE wait' = wait - 1

Observe ==
  pulses' = CASE EnableEdge -> 0
              [] ~EnableEdge /\ ~pps_prev /\ pps_prev' /\ pulses < 3 ->
                   pulses + 1
              [] OTHER -> pulses

\* rtclock-pps-sync: CONTROL 0; SEC_CONFIG; CONTROL 3.
Sync ==
  /\ \/ WriteControl(FALSE, FALSE)
     \/ ~control_reg.enable /\ \E s \in SecConfigs : WriteSecConfig(s)
     \/ ~control_reg.enable /\ ~pps_enabled_prev /\ WriteControl(TRUE, TRUE)
  /\ UNCHANGED <<wait, pulses>>

PpsNext == (Source /\ Observe) \/ Sync

PpsSpec == PpsInit /\ [][PpsNext]_ppsVars

---------------------------------------------------------------------------
(***************************************************************************)
(* Once three pulses have been seen, the local counter closes a second by  *)
(* itself only when a second's worth of cycles has gone by since the last  *)
(* pulse: at no cycle does sec run a second ahead ("1s pps                 *)
(* synchronization").                                                      *)
(***************************************************************************)
SecondNotEarly ==
  [][pulses = 3 /\ ~sec_inc_pps_done /\ sec_inc_pps_done'
       => nsec_next_total_pps >= NsecModulo - ClkToNs]_ppsVars
=============================================================================
