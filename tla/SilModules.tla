----------------------------- MODULE SilModules -----------------------------
(***************************************************************************)
(* The two modules of the NETCONF server's instrumentation library:        *)
(* lib/sw/lsi/cores/power-distribution-unit/lsi-power-distribution-unit.c  *)
(* and lib/sw/lsi/cores/gnss-clock/lsi-gnss-clock.c.                       *)
(*                                                                         *)
(* The server loads the startup configuration, calls the modules' init2,   *)
(* and calls their commit-complete callbacks after every commit.  Each     *)
(* callback compares the running configuration with the copy it keeps of   *)
(* the last one and runs shell commands for the difference, one after the  *)
(* other, and ignores their results; the server has one thread.  It may    *)
(* crash at any time; a command that it was waiting for then goes on, and  *)
(* may meet the commands of the server that is started next.               *)
(*                                                                         *)
(* An output has no property but its index, so that an entry is there or   *)
(* not.  A parameter of the receiver is at the default or at one other     *)
(* value; gnss-clock-config takes its own default for one that is missing. *)
(***************************************************************************)
EXTENDS Naturals

CONSTANTS
  Outputs,
  Params,   \* the leafs of the container gnss-clock
  Antenna,  \* antenna-cable-delay, one of them
  NoRoot,   \* prev_root_val == NULL
  Crashes   \* a bound: how often the server crashes

Absent == [p \in {} |-> "default"] \* no container in the configuration
Settings == {"default", "other"}
\* gnss-clock-config: "antenna_cable_delay = 50", unlike the module's 0.
ToolDefault(p) == IF p = Antenna THEN "tool" ELSE "default"
Arguments == [Params \ {Antenna} -> Settings]
Receivers == [Params -> Settings \cup {"tool"}]

ClockConfigs == {Absent} \cup [Params -> Settings]
Roots == [outputs : SUBSET Outputs, clock : ClockConfigs]

ASSUME SilAssumption ==
  Antenna \in Params /\ NoRoot \notin Roots /\ Crashes \in Nat

\* The shells at work, each by the server that started it and at its next
\* step: power-distribution-unit and gnss-clock-config.
Switches == [by : Nat, output : Outputs, enable : BOOLEAN,
             step : {"direction", "value"}]
Setups == [by : Nat, args : Arguments, step : {"revert", "set"}]

VARIABLES
  up,        \* the server runs
  life,      \* how many times it was started
  running,   \* the running configuration
  prev_pdu,  \* prev_root_val of each module
  prev_gnss,
  callbacks, \* modules whose callback the server still has to call
  off, on,   \* outputs that the callback in progress still has to switch
  configure, \* <<>>, or <<arguments>> of a gnss-clock-config to run
  switching, \* commands power-distribution-unit at work
  configuring, \* commands gnss-clock-config at work
  powered,   \* outputs that have power
  receiver,  \* parameters of the receiver
  committed, \* history: there was a commit since the server came up
  excused,   \* history: outputs whose command failed or met one that outlived
             \* its server, or that were on when the server came up without
             \* them in its configuration
  clockFailed \* history: the last gnss-clock-config failed or met another

server == <<up, life, running, callbacks, committed>>
pdu == <<prev_pdu, off, on>>
gnss == <<prev_gnss, configure>>
power == <<switching, powered, excused>>
timing == <<configuring, receiver, clockFailed>>
vars == <<server, pdu, gnss, power, timing>>

\* The commands among some that the server waits for; the others outlived
\* the server that started them.
Own(commands) == {c \in commands : up /\ c.by = life}
Busy == Own(switching) # {} \/ Own(configuring) # {}

Idle == off = {} /\ on = {} /\ configure = <<>> /\ ~Busy
Settled == up /\ callbacks = {} /\ Idle

Init ==
  /\ up = FALSE /\ life = 0 /\ running = NoRoot /\ callbacks = {}
  /\ prev_pdu = NoRoot /\ off = {} /\ on = {}
  /\ prev_gnss = NoRoot /\ configure = <<>>
  /\ switching = {} /\ configuring = {}
  /\ powered = {} /\ receiver = [p \in Params |-> "default"]
  /\ committed = FALSE /\ excused = {} /\ clockFailed = FALSE

---------------------------------------------------------------------------
\* The server: init loads a module and registers its callback, init2 calls
\* it for the startup configuration.
Start(startup) ==
  /\ ~up
  /\ up' = TRUE /\ life' = life + 1
  /\ running' = startup /\ callbacks' = {"pdu", "gnss"}
  /\ committed' = FALSE
  /\ excused' = (powered \ startup.outputs) \cup {c.output : c \in switching}
  /\ clockFailed' = (clockFailed \/ configuring # {})
  /\ UNCHANGED <<pdu, gnss, switching, powered, configuring, receiver>>

Commit(root) ==
  /\ Settled
  /\ running' = root /\ callbacks' = {"pdu", "gnss"} /\ committed' = TRUE
  /\ UNCHANGED <<up, life, pdu, gnss, power, timing>>

\* What the process knew is lost; the hardware and a command it waits for stay
\* as they are.
Crash ==
  /\ up /\ life <= Crashes
  /\ up' = FALSE /\ running' = NoRoot /\ callbacks' = {}
  /\ prev_pdu' = NoRoot /\ off' = {} /\ on' = {}
  /\ prev_gnss' = NoRoot /\ configure' = <<>>
  /\ UNCHANGED <<life, committed, power, timing>>

---------------------------------------------------------------------------
\* Mutant: every output is switched off and on again.
SwitchEverything(cur, new) ==
  /\ off' = cur /\ on' = new

\* update_config: outputs that are gone, then outputs that are new.
SwitchDifference(cur, new) ==
  /\ off' = cur \ new /\ on' = new \ cur

ConfiguredBefore == IF prev_pdu = NoRoot THEN {} ELSE prev_pdu.outputs

\* Mutant: the copy of the last configuration is never replaced.
PduKeepsFirst ==
  /\ up /\ Idle /\ "pdu" \in callbacks
  /\ callbacks' = callbacks \ {"pdu"}
  /\ IF prev_pdu = running
       THEN UNCHANGED pdu
       ELSE /\ SwitchDifference(ConfiguredBefore, running.outputs)
            /\ prev_pdu' = IF prev_pdu = NoRoot THEN running ELSE prev_pdu
  /\ UNCHANGED <<up, life, running, committed, gnss, power, timing>>

PduCommitComplete ==
  /\ up /\ Idle /\ "pdu" \in callbacks
  /\ callbacks' = callbacks \ {"pdu"}
  /\ IF prev_pdu = running
       THEN UNCHANGED pdu
       ELSE /\ SwitchDifference(ConfiguredBefore, running.outputs)
            /\ prev_pdu' = running
  /\ UNCHANGED <<up, life, running, committed, gnss, power, timing>>

\* system("power-distribution-unit ..."), whatever comes of it.
power_distribution_unit_config(o, enable) ==
  /\ ~Busy
  /\ switching' = switching \cup
       {[by |-> life, output |-> o, enable |-> enable, step |-> "direction"]}
  /\ UNCHANGED <<server, prev_pdu, gnss, powered, excused, timing>>

SwitchOff(o) ==
  /\ o \in off /\ off' = off \ {o} /\ UNCHANGED on
  /\ power_distribution_unit_config(o, FALSE)

SwitchOn(o) ==
  /\ off = {} /\ o \in on /\ on' = on \ {o} /\ UNCHANGED off
  /\ power_distribution_unit_config(o, TRUE)

\* The script: "echo out > direction || true" makes the pin an output that is
\* low, also when it was an output that is high ...
WriteDirection(c) ==
  /\ c.step = "direction"
  /\ switching' = (switching \ {c}) \cup {[c EXCEPT !.step = "value"]}
  /\ powered' \in {powered, powered \ {c.output}}
  /\ UNCHANGED <<server, pdu, gnss, excused, timing>>

\* ... and "echo $1 > value" switches it.  Whether it worked is known only of
\* a command that met no other one on its output.
Undisturbed(c) ==
  c \in Own(switching) /\ \A d \in switching \ {c} : d.output # c.output

WriteValue(c) ==
  /\ c.step = "value" /\ switching' = switching \ {c}
  /\ \/ /\ powered' = IF c.enable THEN powered \cup {c.output}
                                  ELSE powered \ {c.output}
        /\ excused' = IF Undisturbed(c) THEN excused \ {c.output}
                                        ELSE excused \cup {c.output}
     \/ UNCHANGED powered /\ excused' = excused \cup {c.output}
  /\ UNCHANGED <<server, pdu, gnss, timing>>

---------------------------------------------------------------------------
\* serialize_params: the antenna's delay is looked up next to the container
\* and not found.
serialize_params(clock) == [p \in Params \ {Antenna} |-> clock[p]]

\* Mutant: a changed container is not noticed.
ReconfigureIfNew(cur, new) ==
  configure' = IF new = Absent \/ cur # Absent THEN <<>>
               ELSE <<serialize_params(new)>>

\* update_config: configured anew if the container appears or changes; the
\* first test returns when it is gone.
Reconfigure(cur, new) ==
  configure' = IF new = Absent \/ cur = new THEN <<>>
               ELSE <<serialize_params(new)>>

ClockBefore == IF prev_gnss = NoRoot THEN Absent ELSE prev_gnss.clock

GnssCommitComplete ==
  /\ up /\ Idle /\ "gnss" \in callbacks
  /\ callbacks' = callbacks \ {"gnss"}
  /\ IF prev_gnss = running
       THEN UNCHANGED gnss
       ELSE Reconfigure(ClockBefore, running.clock) /\ prev_gnss' = running
  /\ UNCHANGED <<up, life, running, committed, pdu, power, timing>>

\* gnss_clock_config: system("gnss-clock-config ...").
ConfigureReceiver ==
  /\ configure # <<>> /\ ~Busy /\ configure' = <<>>
  /\ configuring' = configuring \cup
       {[by |-> life, args |-> configure[1], step |-> "revert"]}
  /\ UNCHANGED <<server, pdu, prev_gnss, power, receiver, clockFailed>>

\* The command reverts the receiver to its defaults ...
RevertReceiver(c) ==
  /\ c.step = "revert"
  /\ \/ /\ receiver' = [p \in Params |-> "default"]
        /\ configuring' = (configuring \ {c}) \cup {[c EXCEPT !.step = "set"]}
        /\ UNCHANGED clockFailed
     \/ configuring' = configuring \ {c} /\ clockFailed' = TRUE
        /\ UNCHANGED receiver
  /\ UNCHANGED <<server, pdu, gnss, power>>

\* ... and sets the parameters, which may be refused, or set but not saved.
Applied(args) ==
  [p \in Params |-> IF p \in DOMAIN args THEN args[p] ELSE ToolDefault(p)]

SetParameters(c) ==
  /\ c.step = "set" /\ configuring' = configuring \ {c}
  /\ \/ /\ receiver' = Applied(c.args)
        /\ clockFailed' = (configuring # {c} \/ c \notin Own(configuring))
     \/ receiver' \in {receiver, Applied(c.args)} /\ clockFailed' = TRUE
  /\ UNCHANGED <<server, pdu, gnss, power>>

Next ==
  \/ \E root \in Roots : Start(root) \/ Commit(root)
  \/ Crash
  \/ PduCommitComplete \/ GnssCommitComplete \/ ConfigureReceiver
  \/ \E o \in Outputs : SwitchOff(o) \/ SwitchOn(o)
  \/ \E c \in switching : WriteDirection(c) \/ WriteValue(c)
  \/ \E c \in configuring : RevertReceiver(c) \/ SetParameters(c)

Spec == Init /\ [][Next]_vars

---------------------------------------------------------------------------
TypeOK ==
  /\ up \in BOOLEAN /\ life \in Nat /\ committed \in BOOLEAN
  /\ running \in Roots \cup {NoRoot}
  /\ prev_pdu \in Roots \cup {NoRoot} /\ prev_gnss \in Roots \cup {NoRoot}
  /\ callbacks \subseteq {"pdu", "gnss"}
  /\ off \subseteq Outputs /\ on \subseteq Outputs
  /\ powered \subseteq Outputs /\ excused \subseteq Outputs
  /\ configure \in {<<>>} \cup {<<args>> : args \in Arguments}
  /\ switching \subseteq Switches /\ configuring \subseteq Setups
  /\ \A c \in switching \cup configuring : c.by <= life
  /\ receiver \in Receivers /\ clockFailed \in BOOLEAN

(***************************************************************************)
(* lsi-power-distribution-unit.c: once the callbacks are done, an output   *)
(* has power if and only if it is configured, after any sequence of        *)
(* commits, crashes and restarts, except where a command failed (no commit *)
(* repeats it as long as the entry stays) or met one that a crashed server *)
(* had left at work, or where an output that was on before a restart is no *)
(* longer configured (nobody switches it off).                             *)
(***************************************************************************)
PoweredAsConfigured ==
  Settled => \A o \in Outputs \ excused :
               o \in powered <=> o \in running.outputs

(***************************************************************************)
(* lsi-power-distribution-unit.c: the command that switches an output on   *)
(* first cuts its power.  Commits, of whatever else they concern, never    *)
(* run it for an output that has power: only the first callback after the  *)
(* start of the server, which remembers nothing, interrupts an output that *)
(* is configured, failed and disturbed commands excepted.                  *)
(***************************************************************************)
CommitsKeepPower ==
  [][\A o \in powered \ powered' :
       up /\ committed /\ o \in running.outputs => o \in excused]_vars

(***************************************************************************)
(* lsi-gnss-clock.c: once the callbacks are done, the receiver has the     *)
(* configured delays and frequency, the antenna's delay excepted, as long  *)
(* as the container is configured and the last command worked.             *)
(***************************************************************************)
TimingAsConfigured ==
  Settled /\ running.clock # Absent /\ ~clockFailed =>
    \A p \in Params \ {Antenna} : receiver[p] = running.clock[p]

(***************************************************************************)
(* lsi-gnss-clock.yang: a configured "leaf antenna-cable-delay", with its  *)
(* default "0", is the one of the receiver.                                *)
(***************************************************************************)
AntennaAsConfigured ==
  Settled /\ running.clock # Absent /\ ~clockFailed =>
    receiver[Antenna] = running.clock[Antenna]

---------------------------------------------------------------------------
\* The invariant behind PoweredAsConfigured: what the callback remembers, and
\* what it has still to do, account for the difference.
Loaded == up => running # NoRoot

DownForgets == ~up => prev_pdu = NoRoot /\ off = {} /\ on = {}

InProgress == {c.output : c \in Own(switching)}

BeforeCallback ==
  up /\ "pdu" \in callbacks =>
    /\ off = {} /\ on = {}
    /\ prev_pdu = NoRoot => powered \ excused \subseteq running.outputs
    /\ prev_pdu # NoRoot => \A o \in Outputs \ excused :
                             o \in powered <=> o \in prev_pdu.outputs

AfterCallback ==
  up /\ "pdu" \notin callbacks =>
    /\ prev_pdu = running
    /\ off \cap running.outputs = {} /\ on \subseteq running.outputs
    /\ \A o \in Outputs \ (excused \cup off \cup on \cup InProgress) :
         o \in powered <=> o \in running.outputs

\* A command of the server is one that the callback no longer has to run.
OwnCommands ==
  /\ \A c, d \in Own(switching) : c = d
  /\ Own(switching) # {} => "pdu" \notin callbacks
  /\ \A c \in Own(switching) :
       /\ c.enable <=> c.output \in running.outputs
       /\ c.output \notin off \cup on

LeftCommands ==
  up => \A c \in switching \ Own(switching) : c.output \in excused

\* After a commit, outputs that are to be switched on have no power.
Dark ==
  up /\ committed =>
    /\ prev_pdu # NoRoot
    /\ on \cap powered \subseteq excused
    /\ \A c \in Own(switching) :
         c.enable /\ c.step = "direction" /\ c.output \in powered
           => c.output \in excused

PowerInv ==
  /\ TypeOK /\ Loaded /\ DownForgets /\ BeforeCallback /\ AfterCallback
  /\ OwnCommands /\ LeftCommands /\ Dark

\* The same for the receiver: it has the parameters of the last container the
\* callback saw, or a command that brings them is still to run.
Matches(clock) ==
  clock # Absent /\ ~clockFailed =>
    \A p \in Params \ {Antenna} : receiver[p] = clock[p]

ClockBeforeCallback ==
  up /\ "gnss" \in callbacks =>
    /\ configure = <<>> /\ Own(configuring) = {}
    /\ prev_gnss # NoRoot => Matches(prev_gnss.clock)

ClockAfterCallback ==
  up /\ "gnss" \notin callbacks =>
    /\ prev_gnss = running
    /\ configure = <<>> /\ Own(configuring) = {} => Matches(running.clock)
    /\ configure # <<>> => configure = <<serialize_params(running.clock)>>
    /\ \A c \in Own(configuring) :
         configure = <<>> /\ c.args = serialize_params(running.clock)

ClockForgets == ~up => prev_gnss = NoRoot /\ configure = <<>>

ClockLeft == up /\ configuring # Own(configuring) => clockFailed

ClockInv ==
  /\ TypeOK /\ Loaded /\ ClockLeft
  /\ ClockForgets /\ ClockBeforeCallback /\ ClockAfterCallback
=============================================================================
