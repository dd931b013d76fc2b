-------------------------- MODULE SilModulesProofs --------------------------
(***************************************************************************)
(* Theorems about SilModules, for any set of outputs and of parameters.    *)
(*                                                                         *)
(* PowerInv says where the difference between the configured outputs and   *)
(* the powered ones is kept at every moment: in the copy of the previous   *)
(* configuration until the callback has run, then in the command at work   *)
(* and those still to run.  PoweredAsConfigured is the case in which       *)
(* nothing is left to do.  A command that outlived its server may do       *)
(* anything to its output; LeftCommands keeps that output in excused.      *)
(***************************************************************************)
EXTENDS SilModules, TLAPS

LEMMA InitTypeOK == Init => TypeOK
<1> SUFFICES ASSUME Init PROVE TypeOK
  OBVIOUS
<1>1. receiver \in Receivers
  BY DEF Init, Receivers, Settings
<1>2. \A c \in switching \cup configuring : c.by <= life
  BY DEF Init
<1> QED BY <1>1, <1>2 DEF Init, TypeOK

\* The types are kept by every step.
LEMMA StepTypeOK ==
  ASSUME TypeOK, Loaded, [Next]_vars PROVE TypeOK'
<1> USE DEF TypeOK
<1>1. ASSUME NEW root \in Roots, Start(root) \/ Commit(root)
      PROVE TypeOK'
  <2>1. root.outputs \subseteq Outputs
    BY DEF Roots
  <2>2. CASE Start(root)
    <3>1. excused' \subseteq Outputs
      BY <2>1, <2>2 DEF Start, Switches
    <3>2. \A c \in switching' \cup configuring' : c.by <= life'
      <4>1. \A c \in switching \cup configuring : c.by \in Nat
        BY DEF Switches, Setups
      <4> QED BY <2>2, <4>1 DEF Start
    <3>3. life' \in Nat /\ clockFailed' \in BOOLEAN
      BY <2>2 DEF Start
    <3> QED BY <2>2, <3>1, <3>2, <3>3 DEF Start, pdu, gnss
  <2>3. CASE Commit(root)
    BY <2>3 DEF Commit, pdu, gnss, power, timing
  <2> QED BY <1>1, <2>2, <2>3
<1>2. CASE Crash
  BY <1>2 DEF Crash, power, timing
<1>3. CASE PduCommitComplete
  <2>1. off' \subseteq Outputs /\ on' \subseteq Outputs
        /\ prev_pdu' \in Roots \cup {NoRoot}
    BY <1>3 DEF PduCommitComplete, SwitchDifference, ConfiguredBefore,
       Loaded, Roots, pdu
  <2> QED BY <2>1, <1>3 DEF PduCommitComplete, gnss, power, timing
<1>4. CASE GnssCommitComplete
  <2>1. ASSUME NEW clock \in [Params -> Settings]
        PROVE serialize_params(clock) \in Arguments
    BY <2>1 DEF serialize_params, Arguments
  <2>2. prev_gnss' \in Roots \cup {NoRoot}
    BY <1>4 DEF GnssCommitComplete, gnss
  <2>3. configure' \in {<<>>} \cup {<<args>> : args \in Arguments}
    <3>1. CASE prev_gnss = running
      BY <1>4, <3>1 DEF GnssCommitComplete, gnss
    <3>2. CASE prev_gnss # running
      <4>1. running.clock = Absent \/ running.clock \in [Params -> Settings]
        BY <1>4, <3>2 DEF GnssCommitComplete, Loaded, Roots, ClockConfigs
      <4>2. Reconfigure(ClockBefore, running.clock)
        BY <1>4, <3>2 DEF GnssCommitComplete
      <4> QED BY <2>1, <4>1, <4>2 DEF Reconfigure
    <3> QED BY <3>1, <3>2
  <2> QED BY <2>2, <2>3, <1>4 DEF GnssCommitComplete, pdu, power, timing
<1>5. CASE ConfigureReceiver
  <2>1. PICK args \in Arguments : configure = <<args>>
    BY <1>5 DEF ConfigureReceiver
  <2>2. [by |-> life, args |-> configure[1], step |-> "revert"] \in Setups
    BY <2>1 DEF Setups
  <2> QED BY <1>5, <2>2 DEF ConfigureReceiver, server, pdu, power
<1>6. ASSUME NEW o \in Outputs, SwitchOff(o) \/ SwitchOn(o)
      PROVE TypeOK'
  <2>1. ASSUME NEW enable \in BOOLEAN,
               power_distribution_unit_config(o, enable)
        PROVE /\ switching' \subseteq Switches
              /\ \A c \in switching' \cup configuring' : c.by <= life'
    BY <2>1 DEF power_distribution_unit_config, Switches, server, timing
  <2> QED
    BY <1>6, <2>1 DEF SwitchOff, SwitchOn, power_distribution_unit_config,
                      server, gnss, timing
<1>7. ASSUME NEW c \in switching, WriteDirection(c) \/ WriteValue(c)
      PROVE TypeOK'
  <2>1. /\ c \in Switches /\ [c EXCEPT !.step = "value"] \in Switches
        /\ [c EXCEPT !.step = "value"].by = c.by
    BY DEF Switches
  <2>2. CASE WriteDirection(c)
    BY <2>1, <2>2 DEF WriteDirection, server, pdu, gnss, timing
  <2>3. CASE WriteValue(c)
    <3>1. c.output \in Outputs
      BY <2>1 DEF Switches
    <3>2. powered' \subseteq Outputs /\ excused' \subseteq Outputs
      BY <2>3, <3>1 DEF WriteValue
    <3> QED BY <2>3, <3>2 DEF WriteValue, server, pdu, gnss, timing
  <2> QED BY <1>7, <2>2, <2>3
<1>8. ASSUME NEW c \in configuring, RevertReceiver(c) \/ SetParameters(c)
      PROVE TypeOK'
  <2>1. /\ c \in Setups /\ [c EXCEPT !.step = "set"] \in Setups
        /\ [c EXCEPT !.step = "set"].by = c.by
    BY DEF Setups
  <2>2. [p \in Params |-> "default"] \in Receivers
    BY DEF Receivers, Settings
  <2>3. Applied(c.args) \in Receivers
    BY <2>1 DEF Applied, Setups, Arguments, Receivers, ToolDefault, Settings
  <2>4. CASE RevertReceiver(c)
    BY <2>1, <2>2, <2>4 DEF RevertReceiver, server, pdu, gnss, power
  <2>5. CASE SetParameters(c)
    BY <2>3, <2>5 DEF SetParameters, server, pdu, gnss, power
  <2> QED BY <1>8, <2>4, <2>5
<1>9. CASE UNCHANGED vars
  BY <1>9 DEF vars, server, pdu, gnss, power, timing
<1> QED BY <1>1, <1>2, <1>3, <1>4, <1>5, <1>6, <1>7, <1>8, <1>9 DEF Next

\* The account of the outputs, apart from types.
Account ==
  /\ Loaded /\ DownForgets /\ BeforeCallback /\ AfterCallback
  /\ OwnCommands /\ LeftCommands /\ Dark

\* A step that concerns neither the server nor the outputs keeps it.
LEMMA ElsewhereKeeps ==
  ASSUME Account, UNCHANGED <<up, life, running, committed, pdu, power>>,
         "pdu" \in callbacks' <=> "pdu" \in callbacks
  PROVE  Account'
<1>1. Own(switching)' = Own(switching) /\ InProgress' = InProgress
  BY DEF Own, InProgress, power
<1> QED
  BY <1>1 DEF Account, pdu, power, Loaded, DownForgets, BeforeCallback,
              AfterCallback, OwnCommands, LeftCommands, Dark

\* The account while the server calls callbacks and runs commands.
LEMMA ServerKeeps ==
  ASSUME TypeOK, Account,
         \/ \E root \in Roots : Start(root) \/ Commit(root)
         \/ Crash \/ PduCommitComplete
         \/ \E o \in Outputs : SwitchOff(o) \/ SwitchOn(o)
  PROVE  Account'
<1> USE DEF Account, InProgress
<1>1. ASSUME NEW root \in Roots, Start(root) PROVE Account'
  <2>1. Own(switching)' = {}
    <3>1. \A c \in switching : c.by <= life /\ c.by \in Nat /\ life \in Nat
      BY DEF TypeOK, Switches
    <3>2. \A c \in switching : c.by # life + 1
      BY <3>1
    <3> QED BY <1>1, <3>2 DEF Own, Start
  <2> QED
    BY <1>1, <2>1, SilAssumption
       DEF Start, pdu, TypeOK, Loaded, DownForgets, BeforeCallback,
           AfterCallback, OwnCommands, LeftCommands, Dark
<1>2. ASSUME NEW root \in Roots, Commit(root) PROVE Account'
  <2>1. Own(switching) = {} /\ off = {} /\ on = {} /\ up /\ callbacks = {}
    BY <1>2 DEF Commit, Settled, Idle, Busy
  <2>2. Own(switching)' = Own(switching)
    BY <1>2 DEF Commit, Own, power
  <2>3. root # NoRoot /\ running # NoRoot /\ prev_pdu = running
    BY <2>1, SilAssumption DEF Loaded, AfterCallback
  <2> QED
    BY <1>2, <2>1, <2>2, <2>3
       DEF Commit, pdu, power, TypeOK, Loaded, DownForgets, BeforeCallback,
           AfterCallback, OwnCommands, LeftCommands, Dark
<1>3. CASE Crash
  <2>1. Own(switching)' = {}
    BY <1>3 DEF Crash, Own
  <2> QED
    BY <1>3, <2>1 DEF Crash, Loaded, DownForgets, BeforeCallback,
       AfterCallback, OwnCommands, LeftCommands, Dark
<1>4. CASE PduCommitComplete
  <2>1. /\ Own(switching) = {} /\ off = {} /\ on = {}
        /\ up /\ "pdu" \in callbacks /\ running # NoRoot
    BY <1>4 DEF PduCommitComplete, Idle, Busy, Loaded
  <2>2. /\ Own(switching)' = Own(switching) /\ switching' = switching
        /\ powered' = powered /\ excused' = excused /\ up' = up
        /\ running' = running /\ committed' = committed
        /\ "pdu" \notin callbacks'
    BY <1>4 DEF PduCommitComplete, Own, power
  <2>3. CASE prev_pdu = running
    BY <1>4, <2>1, <2>2, <2>3
       DEF PduCommitComplete, pdu, Loaded, DownForgets, BeforeCallback,
           AfterCallback, OwnCommands, LeftCommands, Dark
  <2>4. CASE prev_pdu # running
    <3>1. /\ prev_pdu' = running /\ off' = ConfiguredBefore \ running.outputs
          /\ on' = running.outputs \ ConfiguredBefore
      BY <1>4, <2>4 DEF PduCommitComplete, SwitchDifference
    <3>2. AfterCallback' /\ BeforeCallback'
      BY <2>1, <2>2, <3>1
         DEF BeforeCallback, AfterCallback, ConfiguredBefore
    <3>3. Dark'
      BY <2>1, <2>2, <3>1, SMT
         DEF Dark, BeforeCallback, ConfiguredBefore, TypeOK
    <3> QED
      BY <2>1, <2>2, <3>2, <3>3 DEF Loaded, DownForgets, OwnCommands,
         LeftCommands
  <2> QED BY <2>3, <2>4
<1>5. ASSUME NEW o \in Outputs, NEW enable \in BOOLEAN,
             power_distribution_unit_config(o, enable),
             IF enable THEN o \in on /\ on' = on \ {o} /\ off' = off
                       ELSE o \in off /\ off' = off \ {o} /\ on' = on
      PROVE Account'
  <2> DEFINE c == [by |-> life, output |-> o, enable |-> enable,
                   step |-> "direction"]
  <2>1. up /\ "pdu" \notin callbacks
    BY <1>5 DEF DownForgets, BeforeCallback
  <2>2. /\ Own(switching) = {} /\ switching' = switching \cup {c}
        /\ UNCHANGED <<server, prev_pdu, powered, excused>>
    BY <1>5 DEF power_distribution_unit_config, Busy
  <2>3. Own(switching)' = {c}
    BY <2>1, <2>2 DEF Own, server
  <2>4. InProgress' = {o}
    BY <2>3
  <2>5. enable <=> o \in running.outputs
    BY <1>5, <2>1 DEF AfterCallback
  <2>6. o \notin off' \cup on'
    BY <1>5, <2>1 DEF AfterCallback
  <2>7. AfterCallback'
    BY <1>5, <2>1, <2>2, <2>4 DEF AfterCallback, server
  <2>8. OwnCommands'
    BY <2>1, <2>2, <2>3, <2>5, <2>6 DEF OwnCommands, server
  <2>9. LeftCommands'
    BY <2>1, <2>2, <2>3 DEF LeftCommands, server
  <2>10. Dark'
    BY <1>5, <2>1, <2>2, <2>3 DEF Dark, server
  <2> QED
    BY <2>1, <2>2, <2>7, <2>8, <2>9, <2>10
       DEF Loaded, DownForgets, BeforeCallback, server
<1>6. ASSUME NEW o \in Outputs, SwitchOff(o) \/ SwitchOn(o) PROVE Account'
  <2>1. CASE SwitchOff(o)
    BY <2>1, <1>5 DEF SwitchOff
  <2>2. CASE SwitchOn(o)
    BY <2>2, <1>5 DEF SwitchOn
  <2> QED BY <1>6, <2>1, <2>2
<1> QED BY <1>1, <1>2, <1>3, <1>4, <1>6

\* The account while the scripts run, whoever started them.
LEMMA ScriptKeeps ==
  ASSUME TypeOK, Account, NEW c \in switching,
         WriteDirection(c) \/ WriteValue(c)
  PROVE  Account'
<1> USE DEF Account, InProgress
<1>1. /\ c.by \in Nat /\ c.output \in Outputs /\ c.enable \in BOOLEAN
      /\ c \in Switches
  BY DEF TypeOK, Switches
<1>2. /\ UNCHANGED <<server, pdu, gnss>>
      /\ UNCHANGED <<up, life, running, callbacks, committed>>
      /\ UNCHANGED <<prev_pdu, off, on>>
  BY DEF WriteDirection, WriteValue, server, pdu
<1>3. CASE WriteDirection(c)
  <2> DEFINE d == [c EXCEPT !.step = "value"]
  <2>1. /\ d.by = c.by /\ d.output = c.output /\ d.enable = c.enable
        /\ d.step = "value"
    BY <1>1 DEF Switches
  <2>2. /\ switching' = (switching \ {c}) \cup {d} /\ excused' = excused
        /\ powered' \in {powered, powered \ {c.output}}
    BY <1>3 DEF WriteDirection
  <2> HIDE DEF d
  <2>3. CASE c \in Own(switching)
    <3>1. Own(switching) = {c} /\ Own(switching)' = {d}
      <4>1. Own(switching) = {c}
        BY <1>2, <2>3 DEF OwnCommands
      <4>2. c.by = life /\ d.by = life /\ life' = life
        BY <1>2, <2>1, <2>3 DEF Own
      <4>3. d \in Own(switching)'
        BY <1>2, <2>2, <2>3, <4>2 DEF Own
      <4>4. ASSUME NEW x \in Own(switching)' PROVE x = d
        BY <1>2, <2>2, <4>1, <4>4 DEF Own
      <4> QED BY <4>1, <4>3, <4>4
    <3>2. InProgress' = InProgress /\ InProgress = {c.output}
      BY <2>1, <3>1
    <3>3. switching' \ Own(switching)' \subseteq switching \ Own(switching)
      BY <2>2, <3>1
    <3>4. up /\ "pdu" \notin callbacks
      BY <3>1 DEF OwnCommands, Own
    <3>5. AfterCallback'
      BY <1>2, <2>2, <3>2 DEF AfterCallback
    <3>6. OwnCommands'
      BY <1>2, <2>1, <3>1, <3>4 DEF OwnCommands
    <3>7. LeftCommands'
      BY <1>2, <2>2, <3>3 DEF LeftCommands
    <3>8. Dark'
      BY <1>2, <2>1, <2>2, <3>1 DEF Dark
    <3> QED
      BY <1>2, <3>4, <3>5, <3>6, <3>7, <3>8
         DEF Loaded, DownForgets, BeforeCallback
  <2>4. CASE c \notin Own(switching)
    <3>1. Own(switching)' = Own(switching) /\ InProgress' = InProgress
      BY <1>2, <2>1, <2>2, <2>4 DEF Own
    <3>2. up => c.output \in excused
      BY <2>4 DEF LeftCommands
    <3>3. LeftCommands'
      BY <1>2, <2>1, <2>2, <3>1, <3>2 DEF LeftCommands
    <3>4. AfterCallback' /\ BeforeCallback'
      BY <1>2, <2>2, <3>1, <3>2 DEF AfterCallback, BeforeCallback
    <3>5. OwnCommands' /\ Dark'
      BY <1>2, <2>2, <3>1 DEF OwnCommands, Dark
    <3> QED
      BY <1>2, <3>3, <3>4, <3>5 DEF Loaded, DownForgets
  <2> QED BY <2>3, <2>4
<1>4. CASE WriteValue(c)
  <2>1. /\ switching' = switching \ {c}
        /\ \A o \in Outputs \ {c.output} :
             (o \in powered' <=> o \in powered) /\ (o \in excused' <=> o \in excused)
    BY <1>1, <1>4 DEF WriteValue
  <2>2. \/ c.output \in excused'
        \/ Undisturbed(c) /\ (c.output \in powered' <=> c.enable)
    BY <1>4 DEF WriteValue
  <2>3. Own(switching)' = Own(switching) \ {c}
    BY <1>2, <2>1 DEF Own
  <2>4. \A d \in switching : d.output \in Outputs
    BY DEF TypeOK, Switches
  <2>5. LeftCommands'
    <3> SUFFICES ASSUME up, NEW d \in switching' \ Own(switching)'
                 PROVE d.output \in excused'
      BY <1>2 DEF LeftCommands
    <3>1. d \in switching \ Own(switching) /\ d # c
      BY <2>1, <2>3
    <3>2. d.output \in excused
      BY <3>1 DEF LeftCommands
    <3>3. CASE d.output = c.output
      BY <2>2, <3>1, <3>3 DEF Undisturbed
    <3>4. CASE d.output # c.output
      BY <2>1, <2>4, <3>1, <3>2, <3>4
    <3> QED BY <3>3, <3>4
  <2>6. CASE c \in Own(switching)
    <3>1. Own(switching) = {c} /\ Own(switching)' = {}
      BY <2>3, <2>6 DEF OwnCommands
    <3>2. /\ up /\ "pdu" \notin callbacks /\ c.output \notin off \cup on
          /\ c.enable <=> c.output \in running.outputs
      BY <3>1 DEF OwnCommands, Own
    <3>3. InProgress = {c.output} /\ InProgress' = {}
      BY <3>1
    <3>4. AfterCallback'
      <4>1. ASSUME NEW o \in Outputs \ (excused' \cup off \cup on)
            PROVE o \in powered' <=> o \in running.outputs
        <5>1. CASE o = c.output
          BY <2>2, <3>2, <4>1, <5>1
        <5>2. CASE o # c.output
          BY <2>1, <3>2, <3>3, <4>1, <5>2 DEF AfterCallback
        <5> QED BY <5>1, <5>2
      <4> QED BY <1>2, <3>2, <3>3, <4>1 DEF AfterCallback
    <3>5. Dark'
      BY <1>2, <2>1, <3>1, <3>2 DEF Dark, TypeOK
    <3> QED
      BY <1>2, <2>5, <3>1, <3>2, <3>4, <3>5
         DEF Loaded, DownForgets, BeforeCallback, OwnCommands
  <2>7. CASE c \notin Own(switching)
    <3>1. c.output \in excused' /\ (up => c.output \in excused)
      BY <2>2, <2>7 DEF Undisturbed, LeftCommands
    <3>2. Own(switching)' = Own(switching) /\ InProgress' = InProgress
      BY <2>3, <2>7
    <3>3. AfterCallback'
      BY <1>2, <2>1, <3>1, <3>2 DEF AfterCallback
    <3>4. BeforeCallback'
      <4>1. powered' \subseteq Outputs
        BY <1>1, <1>4 DEF WriteValue, TypeOK
      <4> QED BY <1>2, <2>1, <3>1, <4>1 DEF BeforeCallback, TypeOK
    <3>5. Dark'
      <4>1. \A d \in Own(switching) : d.output \in Outputs
        BY <2>4 DEF Own
      <4>2. on \subseteq Outputs
        BY DEF TypeOK
      <4> QED BY <1>2, <2>1, <3>1, <3>2, <4>1, <4>2 DEF Dark
    <3> QED
      BY <1>2, <2>5, <3>2, <3>3, <3>4, <3>5
         DEF Loaded, DownForgets, OwnCommands
  <2> QED BY <2>6, <2>7
<1> QED BY <1>3, <1>4

\* Every step keeps the account of the outputs.
LEMMA StepPowerInv ==
  ASSUME PowerInv, [Next]_vars PROVE PowerInv'
<1>1. TypeOK /\ Account
  BY DEF PowerInv, Account
<1>2. TypeOK'
  BY <1>1, StepTypeOK DEF Account
<1>3. Account'
  <2>1. CASE \/ \E root \in Roots : Start(root) \/ Commit(root)
             \/ Crash \/ PduCommitComplete
             \/ \E o \in Outputs : SwitchOff(o) \/ SwitchOn(o)
    BY <1>1, <2>1, ServerKeeps
  <2>2. CASE \E c \in switching : WriteDirection(c) \/ WriteValue(c)
    BY <1>1, <2>2, ScriptKeeps
  <2>3. CASE \/ GnssCommitComplete \/ ConfigureReceiver \/ UNCHANGED vars
             \/ \E c \in configuring : RevertReceiver(c) \/ SetParameters(c)
    <3>1. /\ UNCHANGED <<up, life, running, committed, pdu, power>>
          /\ "pdu" \in callbacks' <=> "pdu" \in callbacks
      <4>1. CASE GnssCommitComplete
        BY <4>1 DEF GnssCommitComplete
      <4>2. CASE ~GnssCommitComplete
        <5>1. UNCHANGED <<server, pdu, power>>
          BY <2>3, <4>2
             DEF ConfigureReceiver, RevertReceiver, SetParameters, vars
        <5> QED BY <5>1 DEF server
      <4> QED BY <4>1, <4>2
    <3> QED BY <1>1, <3>1, ElsewhereKeeps
  <2> QED BY <2>1, <2>2, <2>3 DEF Next
<1> QED BY <1>2, <1>3 DEF PowerInv, Account

THEOREM PowerInvariant == Spec => []PowerInv
<1>1. Init => PowerInv
  BY InitTypeOK DEF Init, PowerInv, Loaded, DownForgets, BeforeCallback,
                    AfterCallback, OwnCommands, LeftCommands, Dark, Own
<1>2. PowerInv /\ [Next]_vars => PowerInv'
  BY StepPowerInv
<1> QED BY <1>1, <1>2, PTL DEF Spec

(***************************************************************************)
(* After the commit-complete callbacks of lsi-power-distribution-unit.c    *)
(* are done, exactly the configured outputs have power, for any number of  *)
(* outputs, commits, crashes, restarts and failed commands, the outputs of *)
(* the failed commands excepted.                                           *)
(***************************************************************************)
THEOREM OutputsPoweredAsConfigured == Spec => []PoweredAsConfigured
<1>1. PowerInv => PoweredAsConfigured
  BY DEF PowerInv, AfterCallback, PoweredAsConfigured, Settled, Idle, Busy,
         InProgress
<1> QED BY <1>1, PowerInvariant, PTL

(***************************************************************************)
(* Once a server has seen a commit, nothing it does cuts the power of an   *)
(* output that is configured, although the command that switches an output *)
(* on cuts its power first: commits run it only for outputs without power. *)
(***************************************************************************)
THEOREM CommitsKeepOutputs == Spec => CommitsKeepPower
<1> DEFINE Kept == \A o \in powered \ powered' :
                     up /\ committed /\ o \in running.outputs => o \in excused
<1>1. ASSUME PowerInv, [Next]_vars PROVE Kept
  <2> USE DEF PowerInv
  <2>1. ASSUME NEW c \in switching, WriteDirection(c) PROVE Kept
    <3> SUFFICES ASSUME up, committed, c.output \in powered,
                        c.output \in running.outputs
                 PROVE c.output \in excused
      BY <2>1 DEF WriteDirection
    <3>1. CASE c \in Own(switching)
      BY <1>1, <2>1, <3>1 DEF WriteDirection, OwnCommands, Dark
    <3>2. CASE c \notin Own(switching)
      BY <1>1, <3>2 DEF LeftCommands
    <3> QED BY <3>1, <3>2
  <2>2. ASSUME NEW c \in switching, WriteValue(c) PROVE Kept
    <3> SUFFICES ASSUME up, committed, c.output \in powered,
                        c.output \notin powered', c.output \in running.outputs
                 PROVE c.output \in excused
      BY <2>2 DEF WriteValue
    <3>1. ~c.enable
      BY <2>2 DEF WriteValue
    <3>2. c \notin Own(switching)
      BY <1>1, <3>1 DEF OwnCommands
    <3> QED BY <1>1, <3>2 DEF LeftCommands
  <2>3. ASSUME powered' = powered PROVE Kept
    BY <2>3
  <2> QED
    BY <1>1, <2>1, <2>2, <2>3
       DEF Next, Start, Commit, Crash, PduCommitComplete, GnssCommitComplete,
           SwitchOff, SwitchOn, power_distribution_unit_config,
           ConfigureReceiver, RevertReceiver, SetParameters, power, vars
<1>2. PowerInv /\ [Next]_vars => [Kept]_vars
  BY <1>1
<1> QED BY <1>2, PowerInvariant, PTL DEF Spec, CommitsKeepPower

---------------------------------------------------------------------------
\* The account of the receiver, apart from types.
ClockAccount ==
  /\ Loaded /\ ClockLeft
  /\ ClockForgets /\ ClockBeforeCallback /\ ClockAfterCallback

\* Every step keeps it.
LEMMA StepClockAccount ==
  ASSUME TypeOK, ClockAccount, [Next]_vars PROVE ClockAccount'
<1> USE DEF ClockAccount
<1>1. ASSUME NEW root \in Roots, Start(root) PROVE ClockAccount'
  <2>1. Own(configuring)' = {}
    <3>1. \A c \in configuring : c.by <= life /\ c.by \in Nat /\ life \in Nat
      BY DEF TypeOK, Setups
    <3>2. \A c \in configuring : c.by # life + 1
      BY <3>1
    <3> QED BY <1>1, <3>2 DEF Own, Start
  <2>2. prev_gnss = NoRoot /\ configure = <<>> /\ root # NoRoot
    BY <1>1, SilAssumption DEF Start, ClockForgets
  <2>3. ClockLeft'
    BY <1>1, <2>1 DEF Start, ClockLeft
  <2> QED
    BY <1>1, <2>1, <2>2, <2>3
       DEF Start, gnss, Loaded, ClockForgets, ClockBeforeCallback,
           ClockAfterCallback
<1>2. ASSUME NEW root \in Roots, Commit(root) PROVE ClockAccount'
  <2>1. Own(configuring) = {} /\ configure = <<>> /\ up /\ callbacks = {}
    BY <1>2 DEF Commit, Settled, Idle, Busy
  <2>2. Own(configuring)' = Own(configuring)
    BY <1>2 DEF Commit, Own, timing
  <2>3. root # NoRoot /\ prev_gnss = running /\ Matches(running.clock)
    BY <2>1, SilAssumption DEF ClockAfterCallback
  <2> QED
    BY <1>2, <2>1, <2>2, <2>3
       DEF Commit, gnss, timing, Loaded, ClockLeft, ClockForgets,
           ClockBeforeCallback, ClockAfterCallback, Matches
<1>3. CASE Crash
  BY <1>3 DEF Crash, Loaded, ClockLeft, ClockForgets, ClockBeforeCallback,
              ClockAfterCallback
<1>4. ASSUME UNCHANGED <<up, life, running, gnss, timing>>,
             "gnss" \in callbacks' <=> "gnss" \in callbacks
      PROVE ClockAccount'
  <2>1. Own(configuring)' = Own(configuring)
    BY <1>4 DEF Own, timing
  <2> QED
    BY <1>4, <2>1 DEF gnss, timing, Loaded, ClockLeft, ClockForgets,
                      ClockBeforeCallback, ClockAfterCallback, Matches
<1>5. CASE GnssCommitComplete
  <2>1. /\ Own(configuring) = {} /\ configure = <<>>
        /\ up /\ "gnss" \in callbacks /\ running # NoRoot
    BY <1>5 DEF GnssCommitComplete, Idle, Busy, Loaded
  <2>2. /\ UNCHANGED <<up, life, running, configuring, receiver, clockFailed>>
        /\ "gnss" \notin callbacks'
    BY <1>5 DEF GnssCommitComplete, timing
  <2>3. Own(configuring)' = {}
    BY <2>1, <2>2 DEF Own
  <2>4. Loaded' /\ ClockForgets' /\ ClockBeforeCallback' /\ ClockLeft'
    BY <2>1, <2>2, <2>3 DEF Loaded, ClockForgets, ClockBeforeCallback, ClockLeft
  <2>5. CASE prev_gnss = running
    BY <1>5, <2>1, <2>2, <2>3, <2>4, <2>5
       DEF GnssCommitComplete, gnss, ClockBeforeCallback, ClockAfterCallback,
           Matches
  <2>6. CASE prev_gnss # running
    <3>1. Reconfigure(ClockBefore, running.clock) /\ prev_gnss' = running
      BY <1>5, <2>6 DEF GnssCommitComplete
    <3>2. configure' = <<>> => Matches(running.clock)
      BY <2>1, <3>1
         DEF Reconfigure, ClockBefore, ClockBeforeCallback, Matches
    <3>3. configure' # <<>> => configure' = <<serialize_params(running.clock)>>
      BY <3>1 DEF Reconfigure
    <3> QED
      BY <2>2, <2>3, <2>4, <3>1, <3>2, <3>3
         DEF ClockAfterCallback, Matches, serialize_params
  <2> QED BY <2>5, <2>6
<1>6. CASE ConfigureReceiver
  <2> DEFINE c == [by |-> life, args |-> configure[1], step |-> "revert"]
  <2>1. /\ configure # <<>> /\ Own(configuring) = {}
        /\ configure' = <<>> /\ configuring' = configuring \cup {c}
        /\ UNCHANGED <<up, life, running, callbacks, prev_gnss, receiver,
                       clockFailed>>
    BY <1>6 DEF ConfigureReceiver, Busy, server
  <2>2. /\ up /\ "gnss" \notin callbacks /\ running # NoRoot
        /\ configure = <<serialize_params(running.clock)>>
    BY <2>1 DEF ClockForgets, ClockBeforeCallback, ClockAfterCallback, Loaded
  <2>3. Own(configuring)' = {c}
    BY <2>1, <2>2 DEF Own
  <2>4. c.args = serialize_params(running.clock)
    BY <2>2
  <2>5. ClockLeft'
    BY <2>1, <2>2, <2>3 DEF ClockLeft
  <2>6. serialize_params(running.clock)' = serialize_params(running.clock)
    BY <2>1 DEF serialize_params
  <2>7. ClockAfterCallback'
    BY <2>1, <2>2, <2>3, <2>4, <2>6 DEF ClockAfterCallback
  <2> QED
    BY <2>1, <2>2, <2>5, <2>7 DEF Loaded, ClockForgets, ClockBeforeCallback
<1>7. ASSUME NEW c \in configuring, RevertReceiver(c) \/ SetParameters(c)
      PROVE ClockAccount'
  <2>1. /\ UNCHANGED <<up, life, running, callbacks, prev_gnss, configure>>
        /\ serialize_params(running.clock)' = serialize_params(running.clock)
    BY <1>7 DEF RevertReceiver, SetParameters, server, gnss, serialize_params
  <2> DEFINE d == [c EXCEPT !.step = "set"]
  <2>2. d.by = c.by /\ d.args = c.args
    BY DEF TypeOK, Setups
  <2>3. \/ configuring' = configuring \ {c}
        \/ configuring' = (configuring \ {c}) \cup {d} /\ RevertReceiver(c)
    BY <1>7 DEF RevertReceiver, SetParameters
  <2>4. CASE c \in Own(configuring)
    <3>1. /\ up /\ "gnss" \notin callbacks /\ configure = <<>>
          /\ c.args = serialize_params(running.clock)
          /\ prev_gnss = running /\ running # NoRoot
      BY <2>4 DEF Own, ClockBeforeCallback, ClockAfterCallback, Loaded
    <3>2. \A e \in Own(configuring)' :
            e.args = serialize_params(running.clock)
      BY <2>1, <2>2, <2>3, <3>1 DEF Own, ClockAfterCallback
    <3>3. ClockLeft'
      <4>1. configuring # Own(configuring) => clockFailed
        BY <3>1 DEF ClockLeft
      <4>2. \A e : e \in configuring' \ Own(configuring)'
                   => e \in configuring \ Own(configuring)
        BY <2>1, <2>2, <2>3, <2>4 DEF Own
      <4>3. configuring' # Own(configuring)' => configuring # Own(configuring)
        BY <4>2 DEF Own
      <4>4. configuring # Own(configuring) => clockFailed'
        <5> SUFFICES ASSUME configuring # Own(configuring)
                     PROVE clockFailed'
          OBVIOUS
        <5>1. configuring # {c}
          BY <2>4 DEF Own
        <5>2. clockFailed
          BY <4>1
        <5>3. CASE RevertReceiver(c)
          BY <5>2, <5>3 DEF RevertReceiver
        <5>4. CASE SetParameters(c)
          BY <5>1, <5>4 DEF SetParameters
        <5> QED BY <1>7, <5>3, <5>4
      <4> QED BY <4>3, <4>4 DEF ClockLeft
    <3>4. Own(configuring)' = {} => Matches(running.clock)'
      <4> SUFFICES ASSUME Own(configuring)' = {}, ~clockFailed',
                          running.clock # Absent,
                          NEW p \in Params \ {Antenna}
                   PROVE receiver'[p] = running.clock[p]
        BY <2>1 DEF Matches
      <4>1. SetParameters(c)
        <5>1. CASE RevertReceiver(c)
          <6>1. configuring' = (configuring \ {c}) \cup {d}
            BY <5>1 DEF RevertReceiver
          <6>2. d \in Own(configuring)'
            BY <2>1, <2>2, <2>4, <6>1 DEF Own
          <6> QED BY <6>2
        <5> QED BY <1>7, <5>1
      <4>2. receiver' = Applied(c.args)
        BY <4>1 DEF SetParameters
      <4> QED BY <3>1, <4>2 DEF Applied, serialize_params
    <3> QED
      BY <2>1, <3>1, <3>2, <3>3, <3>4
         DEF Loaded, ClockForgets, ClockBeforeCallback, ClockAfterCallback
  <2>5. CASE c \notin Own(configuring)
    <3>1. Own(configuring)' = Own(configuring)
      BY <2>1, <2>2, <2>3, <2>5 DEF Own
    <3>2. up => clockFailed /\ clockFailed'
      <4>1. up => clockFailed
        BY <2>5 DEF ClockLeft
      <4>2. CASE RevertReceiver(c)
        BY <4>1, <4>2 DEF RevertReceiver
      <4>3. CASE SetParameters(c)
        BY <2>5, <4>1, <4>3 DEF SetParameters
      <4> QED BY <1>7, <4>2, <4>3
    <3> QED
      BY <2>1, <3>1, <3>2
         DEF Loaded, ClockForgets, ClockBeforeCallback, ClockAfterCallback,
             ClockLeft, Matches
  <2> QED BY <2>4, <2>5
<1>8. CASE \/ PduCommitComplete \/ UNCHANGED vars
           \/ \E o \in Outputs : SwitchOff(o) \/ SwitchOn(o)
           \/ \E c \in switching : WriteDirection(c) \/ WriteValue(c)
  <2>1. CASE PduCommitComplete
    BY <1>4, <2>1 DEF PduCommitComplete
  <2>2. CASE ~PduCommitComplete
    <3>1. UNCHANGED <<server, gnss, timing>>
      BY <1>8, <2>2 DEF SwitchOff, SwitchOn, power_distribution_unit_config,
                        WriteDirection, WriteValue, vars
    <3> QED BY <1>4, <3>1 DEF server
  <2> QED BY <2>1, <2>2
<1> QED BY <1>1, <1>2, <1>3, <1>5, <1>6, <1>7, <1>8 DEF Next

LEMMA StepClockInv ==
  ASSUME ClockInv, [Next]_vars PROVE ClockInv'
<1>1. TypeOK /\ ClockAccount /\ Loaded
  BY DEF ClockInv, ClockAccount
<1>2. TypeOK' /\ ClockAccount'
  BY <1>1, StepTypeOK, StepClockAccount
<1> QED BY <1>2 DEF ClockInv, ClockAccount

(***************************************************************************)
(* After the commit-complete callbacks of lsi-gnss-clock.c are done, the   *)
(* receiver has every configured parameter but the antenna's delay, for    *)
(* any sequence of commits, deletions, crashes and restarts, as long as    *)
(* the last gnss-clock-config did not fail.                                *)
(***************************************************************************)
THEOREM ReceiverAsConfigured == Spec => []TimingAsConfigured
<1>1. Init => ClockInv
  BY InitTypeOK DEF Init, ClockInv, Loaded, ClockLeft, ClockForgets,
                    ClockBeforeCallback, ClockAfterCallback, Own
<1>2. ClockInv /\ [Next]_vars => ClockInv'
  BY StepClockInv
<1>3. ClockInv => TimingAsConfigured
  BY DEF ClockInv, ClockAfterCallback, Matches, TimingAsConfigured, Settled,
         Idle, Busy
<1> QED BY <1>1, <1>2, <1>3, PTL DEF Spec
=============================================================================
