# A verification project for network-interconnect-tester-cores

The repository holds Verilog cores that send, forward and measure Ethernet
frames octet by octet on GMII lines, the Linux tools that program them through
memory-mapped registers, and the systems built from them.  This directory holds
TLA+ modules of the cores and of the software above them, the TLC
configurations that check them on small instances, and TLAPS proofs for all
values of their parameters.  Source paths
below are relative to the repository; `HW` is `lib/hw/lsi/cores`, `SW` is
`lib/sw/lsi`.

## 1. Inventory

| part | state | operations | interacts with |
|---|---|---|---|
| **rtclock** (`HW/rtclock/hdl`) | free-running and pulse-disciplined second/nanosecond counters, correction accumulator, edge registers | a clk cycle; writes of control, second and correction | time to generator and analyzer; pulse inputs; `rtclock-pps-sync`, `rtclock-pps-correction` |
| **traffic_generator_gmii** (`HW/traffic_generator_gmii/hdl`) | registers, frame buffer, seven-state machine, buffer read pipeline, CRC unit | a clk cycle in each state; eight register writes and the buffer | GMII out; time in; the tool `traffic-generator-gmii` |
| **traffic_analyzer_gmii** (`HW/traffic_analyzer_gmii/hdl`) | CRC checker and testframe parser, running and published statistics, cycle counters, capture buffer, latency pipeline | a clk cycle with its input; writes of control | GMII in; time in; the tool `traffic-analyzer-gmii` |
| **filter_gmii** (`HW/filter_gmii/hdl`) | input register, pass/block state, gap counter | a clk cycle with its input; write of the minimum gap | GMII in and out; stands for a device under test |
| **gmii_mux** (`HW/gmii_mux/hdl`) | selection, registered inputs | a clk cycle; write of the selection | between generators, ports and the network; `gmii-mux-tool`, `loopback.c` |
| **AXI-Lite slave** (in every `*_cpu_regs.v`) | ready/valid flags, latched address | the five channel handshakes | register access of all tools |
| **ethernet_crc_8** | 32-bit CRC, output octet | init, fold an octet, shift | generator, analyzer |
| **traffic_generator** (AXI-stream) | counters of an earlier generator | a clk cycle | AXI stream without back-pressure |
| **register access** (`SW/common/ioreg.c`, `sim-ioreg.c`, `get-core-offset`) | `/tmp/result`, shared by all tools; the mapped window or a socket | init, read, write, close | all tools; the simulation server |
| **traffic-generator-gmii** (`SW/cores/traffic-generator-gmii`, `SW/common/hexstr.c`) | none of its own | options, then a fixed order of register writes | the generator core |
| **traffic-analyzer-gmii** (`SW/cores/traffic-analyzer-gmii`, `SW/common/yang-date-and-time.c`) | none of its own | start; per input character freeze, read, report, unfreeze | the analyzer core |
| **SIL modules** (`SW/cores/gnss-clock`, `SW/cores/power-distribution-unit`) | the previous configuration, in memory | commit-complete callbacks that run shell commands | the NETCONF server; the receiver; the power outputs |
| **simulation server** (`systems/simulation/tester_loop.py`) | a listening socket, one connection | accept, run, read, write, finish | `sim-ioreg.c`, `sim-run.c`, `sim-finish.c`, `sim-devmem32.c` |
| boot loader hooks (`systems/spark/petalinux/xfsbl_hooks.c`), `loopback.c`, `devmem32.c` | none | fixed register accesses | PHYs, memory |
| clocking, block designs, images (`gig_ethernet_pcs_pma_shared`, `systems/*`) | vendor primitives and configuration | none | |

What is hard about this system:

* **Two clock domains.** Software writes registers on the AXI clock; the cores
  sample them on their own.  A write falls between any two cycles, also in the
  middle of a frame, and a 64-bit register changes in two halves.
* **Pipelines.** Octets are fetched, folded into a CRC, stamped and sent in
  different cycles.  Counters carry offsets (`-3`, `-9`, `+8`) that account
  for the stages; off by one is a wrong frame or a wrong gap.
* **Overlap.** A frame is accounted for while the next one begins; latency is
  computed over three cycles while other frames arrive; software freezes the
  statistics in between.
* **Races against the outside.** A pulse may come before, with or after the
  local end of the second.
* **No locks.** Tools that nobody coordinates share one file for the addresses
  of their cores, one socket, and the registers of a core, and may be killed
  between any two accesses.  Callbacks keep what they configured in memory and
  ignore whether a command worked.
* **Widths.** 30-, 32-, 48- and 64-bit counters are compared with each other.

What makes each part correct:

* rtclock: time advances by the clock period; each pulse counts one second.
* generator: frames are whole and carry the octets, numbers, timestamps and CRC
  they should; gaps, bursts and totals are those configured; it stops.
* analyzer: every frame is counted once under the right heading; what software
  reads belongs to one moment; latencies are exact.
* filter: frames pass whole, the gap is kept and nothing is dropped needlessly.
* mux: an output frame comes from one input.  AXI-Lite: each write is answered
  once.  CRC: the parallel equations are the serial CRC-32.
* register access and server: a tool reaches the core it named; whoever waits
  for a connection or an answer gets on.
* tools: the generator starts with the whole stream that was asked for or not
  at all; a report is one picture of the analyzer.
* SIL modules: hardware is as configured after every commit, whatever crashed
  or failed before; commits do not interrupt an output that stays on.

## 2. Plan

In order of importance; 1 to 8 are built, the rest is ahead.

1. `RtClock`, its pulse environment `RtClockPps`, `RtClockProofs`.
2. `TrafficGenerator`, its line `GeneratorLine`, `GeneratorProofs`.
3. `TrafficAnalyzer`, its line `AnalyzerLine`, `AnalyzerProofs`.
4. `FilterGmii`, `FilterGmiiProofs`.
5. `CoreOffset`, `SimIoreg`, `CoreOffsetProofs`: register access and the
   simulation server.
6. `GeneratorService` (abstract) and `GeneratorTool`, which implements it,
   `GeneratorToolProofs`.
7. `AnalyzerTool`: the tool composed with 3, `DateAndTime`, `AnalyzerToolProofs`.
8. `SilModules`, `SilModulesProofs`.
9. `GmiiMux`; `AxiLiteSlave`, the handshake that all cores repeat, as a
   refinement of the atomic register access that the modules above assume;
   `EthernetCrc`, the XOR equations against the serial definition.

## 3. Modules

One step of a core is one rising edge of its clk, with the inputs of that cycle
as parameters; one step of software is one register write.  Non-blocking
assignments become primed variables, blocking ones local definitions.  Register
writes are atomic and take effect between two cycles.  Variables keep the names
of the Verilog registers.  Each definition's source lines are in `PROJECT.json`.

**RtClock** models `rtclock.v` completely but for the flip register (a loopback
for tests).  `Tick` = `Outputs` (the multiplexer), `FreeRun` ("1/2 - no external
pps sync") and `Discipline` ("2/2 - with pps sync": `LoadConfig`, `Pulse`,
`Advance`, `CloseSecond`, `AwaitPulse`, in the code's order of precedence).
Registers that reset leaves alone (`pps_prev`, `pps_enabled_prev`,
`nsec_next_total_pps`) start with any contents.  The correction's 32 bits are
its two slices, whole nanoseconds `[31:28]` and fraction `[27:0]`.
**RtClockPps** adds a pulse source of given periods, the register sequence of
`rtclock-pps-sync`, and observers.

**TrafficGenerator** models `traffic_generator_gmii.v` with one action per
branch: `StartFrame`, `TotalReached`, `Stopped` (state 0), `SendData` (1),
`WaitGap` (2), `SendSeqNum` (3), `SendTimestamp` (4), `SendCrc` (5),
`SendLastStatic` (6).  `Clocked` is what happens in every cycle: sampling of
control, the buffer read, the CRC unit.  Octets are symbols that say where they
come from (buffer word and lane, octet of a number, of a time, of the CRC over
a given sequence of octets), so that an octet from the wrong place, or a CRC
over the wrong octets, is visible.  **GeneratorLine** observes the output.

**TrafficAnalyzer** models `traffic_analyzer_gmii.v` with
`ethernet_crc_8_check.v`, `testframe_parser.v` and the write side of the capture
buffer.  `Receiver` is checker and parser; `Account` the end of a frame in
state 0, with `Publish`; `InFrame` state 1 with the capture; `MeasureLatency`
and `CompareLatency` the second process.  A frame is a record of its preamble,
its length, whether its CRC is right, and the fields of a testframe; the CRC
check succeeds after the last octet of a frame with a right CRC and nowhere
else.  **AnalyzerLine** supplies frames and defines every statistic directly
from the list of frames that arrived.

**FilterGmii** models `filter_gmii.v`: `Forward` (state 1), `Block` (the other),
with octets named by their position.  Two observers count idle output cycles and
remember the gap in force.

**CoreOffset** models `get_core_offset` of `ioreg.c` and `sim-ioreg.c`.  `Truncate`
is the shell's redirection, `WritePiece` one write of `get-core-offset` (two on
the target, `0x` and the digits; one in simulation), `ReadBack` and `ReadFails`
the two outcomes of `fgets` and `sscanf`.  `system()` runs the script in a shell
of its own, which a tool that is killed meanwhile may leave behind
(`LeaveShell`); it goes on to open or write the file, whoever uses it by then
(`LeftShell`).  A core that does not exist, for which the script prints nothing,
is left out.  The history variable `raced` marks tools whose resolution another
one overlapped, or met a write of a shell left behind: for those anything may
come out, and the properties except them.

**SimIoreg** runs whole tools as sequences of calls on top of it:
`ioreg_init` (`GetCoreOffset` or `NoResolution`, then `Connect` or
`ConnectRefused`), the commands (`Send`, `Recv` with its assertion), `Close`,
the wait of the analyzer's tool for input, and the server (`Accept`, `Serve`,
`LeaveConnection`, `Finish`).  `Kill` ends a tool at any point, together with the
shell that resolves its core or without it, in which case `ShellStep` goes on;
`BrokenPipe` is the server's uncaught exception when it answers a tool that is
gone.

**GeneratorTool** translates the options into the list of register writes of
`traffic_generator_common`, which `IoregWrite` carries out one by one on the
registers and the frame buffer of `traffic_generator_gmii_cpu_regs.v`; `Killed`
ends a call between two writes.  **GeneratorService** is the abstract
specification: a generator offers nothing, a stream that was asked for, or a
mixture while it is reconfigured.  The refinement mapping computes the offered
stream from registers and buffer the way the core does, preamble, octets,
dynamic fields, gaps and total.

**AnalyzerTool** puts `traffic-analyzer-gmii.c` in the place of the arbitrary
software of `AnalyzerLine`: `StartTool`, `RunAnalyzer`, then per report `Freeze`,
`ReadRegister` in the code's order, `ReadCapture` through the buffer's
auto-incrementing address, `Unfreeze`.  Frames arrive between any two steps and
the tool may be killed.  Times pass through **DateAndTime**, the two
conversions of `yang-date-and-time.c`.

**SilModules** models both callbacks: `PduCommitComplete` and
`GnssCommitComplete` compare the running configuration with the copy that each
module keeps; `SwitchOff`, `SwitchOn` and `ConfigureReceiver` start the commands
and wait for them; `Crash` and `Start` lose and rebuild the copies.  A command
takes two steps, either of which may fail unnoticed: `power-distribution-unit`
makes the pin an output, which drives it low, and then sets it
(`WriteDirection`, `WriteValue`); `gnss-clock-config` reverts the receiver and
then sets its parameters (`RevertReceiver`, `SetParameters`).  A command goes on
when its server crashes, and may meet those of the next one.  `excused` and
`clockFailed` remember what failed or met another command until an undisturbed
one puts it right; `committed` tells the first callback of a server, which
remembers nothing, from those of commits.  The copy is replaced when the callback decides rather than after its commands;
nothing can tell, since the server has one thread and a crash loses it.

The `MC*` modules give small values to constants that a `.cfg` cannot express.
Definitions that stand just before another and are used nowhere (`RolloverLate`,
`GapLongByOne`, `FreezeKept`, ...) are plausible mistakes in the definition that
follows; each breaks the property `PROJECT.json` pairs it with.

## 4. Runs

| run | checks | what it shows |
|---|---|---|
| `clock` | `TypeOK` `FreeNsecInRange` `DisciplinedOvershoot` `HoldsAtZero` `FreeRunExact` `PulsesCountedOnce` | with pulses, enabling, input selection and corrections at any time, ranges hold, free-running time is exact and a second is counted once per pulse |
| `pps_on_time` | violates `SecondNotEarly` | finding 1 |
| `generator_frames` | `TypeOK` `BufferOctets` `SequenceNumbers` `TimestampOfFirstOctet` `CrcCoversFrame` `FramesAreWhole` | with real field lengths, each octet on the line is the right one under any three writes |
| `generator_pacing` | `GapExact` `GapNeverShort` `TotalRespected` `StopsQuiet` `SendsAll` | gaps, bursts, totals; stopping and completing |
| `filter` | `TypeOK` `IInv` `WholeFrames` `OutputGapKept` `NoNeedlessDrop` | the filter's contract, and the invariant its proofs use |
| `analyzer_counts` | `TypeOK` `CountsExact` | every sequence of three frames of nine kinds, with a stop and a restart |
| `analyzer_freeze` | `PublishedTogether` `LatencyTogether` `LatencyExact` `CaptureWhole` `CyclesAccounted` `FrozenHolds` | what software reads belongs together; minimum and maximum latency are exact, with and without borrow |
| `analyzer_report` | `ReportTogether` `CaptureReported` | a report begun while the frozen core holds still, and read in dozens of steps while frames arrive, is one picture; its capture is the last frame it counts |
| `sim_tools` | `OwnCore` `AbortsForAReason` `NobodyWaitsForEver` | three tools and the server, with kills, shells that outlive them, and a finish at any time |
| `generator_tool` | `DataAsGiven` `ImplementsService` | any sequence of complete and killed calls implements `GeneratorService` |
| `sil` | `PoweredAsConfigured` `TimingAsConfigured` `CommitsKeepPower` | commits, failing commands, a crash at any step and commands that outlive it: the hardware ends up as configured, and commits do not interrupt an output that stays on |
| `gnss_antenna` | violates `AntennaAsConfigured` | finding 2 |

### Bounds, and why they are enough

* *Clock.* `NsecModulo = 20` with `ClkToNs = 8` is not a multiple of the period,
  so the rest at the end of a second matters; `NsecWrap = 48` is just above the
  largest overshoot, so that a larger one would wrap; corrections are the
  nominal one and the largest with a fraction.  `SecWrap = 3` wraps.  The
  pulse run uses a second of six cycles and a source of exactly six.
* *Generator.* The run of octets uses the field lengths of the code (8, 8, 10
  and 4) and frames of 9 and 11 octets, which cross a buffer word at every lane
  boundary and wrap the four-word buffer with reading ahead; the run of gaps
  scales the fields to 1 or 2, since no counter of a gap depends on them.
  `Mod32 = 8` or `16` makes the subtraction of three wrap for the gap 2.  Bursts
  of two, totals in two halves of one bit each.  Every configuration of these
  values is an initial state; three writes then allow start, stop and start, or
  a start and two changes within one frame.  `MaxIdle` exceeds every
  gap.
* *Filter.* `Mod32 = 16`, gaps below, at and above nine, frames of up to four
  octets, and idle counts above any delay.  The proofs remove these bounds.
* *Analyzer.* The start delimiter is accepted at index 2 or 3 (6 or 7 in the
  code), the testframe type at octet 1 (37), which keeps the order of events
  and shortens the frames.  Nine kinds of frames: testframes with two numbers,
  ordinary, damaged, and five malformed preambles; three frames of them follow
  each other with any gap, so that accounting overlaps with the next frame.
  `ExpectedWrap = 4` stands for 2^32.  The capture buffer holds the longest
  frame.
* *Analyzer's tool.* Two frames, two starts of the tool and the line's any-time
  frames: a report while nothing, one or both have arrived, a second report in
  the same run, and one after a restart or a kill with the registers frozen.
  The fraction of the second has two digits and the received time begins with
  a zero.
* *Register access in simulation.* One generator tool, one analyzer tool, one
  shell that runs `sim-run`, `sim-devmem32` or `sim-finish`; a waiting place in
  the listening socket, one unserved connection per tool.  With three tools all
  orders of holding, queueing and waiting for the queue occur.  One shell at a
  time outlives its tool (`Shells`), and meets one later tool at a time
  (`FewAtOnce`, a constraint that keeps tools from being started or killed and
  blocks nothing that is assumed to be fair); the file has one piece.  The
  proofs of the safety properties have none of these bounds.
* *Generator's tool.* Lengths are those of the code; `Mod32 = 256` stands for 2^32.
  The four calls cover defaults, static and dynamic frames of different and
  odd sizes, data shorter and longer than the static part of the frame, a
  burst, a total that needs both halves of its register, and a stop; they
  follow each other in any order, each complete or killed at any write.
* *SIL modules.* Two outputs, a parameter and the antenna's delay; one crash
  (`Crashes`), so that two servers follow each other and a command of the first
  meets those of the second.  The proofs remove these bounds.

### Fairness

`generator_pacing` assumes weak fairness of the clock cycle: the clk input of the
core never stops.  `sim_tools` assumes weak fairness of the server and of each
tool (the operating system runs what is ready) and strong fairness of
connecting (places in the listen queue are handed out in turn); nobody has to
start a tool, type a character or kill anything.  Nothing else is
assumed of software.  "Left stopped" and "left running" are conditions of the
properties.

### Findings

1. **A pulse exactly on time counts twice** (`rtclock.v:173`).  `sec_inc_pps` is
   computed in the cycle of the pulse from the counter's old value and is still
   set in the next cycle, which closes the second that has just begun: `sec` is
   a second ahead and `nsec` stands at 0 until the next pulse.
2. **The delay of the antenna's cable is not passed on**
   (`lsi-gnss-clock.c:41`).  The leaf is looked up in the container's parent and
   not found, so that `gnss-clock-config` applies its own default of 50.

The models show more of the kind, noted with the hazards in `PROJECT.json`: a stale
`sec_inc_pps_done` makes the first pulse after `rtclock-pps-sync` keep its second
(`rtclock.v:176`); a frame in progress is still published after the freeze,
while the tool is already reading (`traffic_analyzer_gmii.v:394`, which is why
`ReportTogether` speaks of reports begun while the core held still); beyond
2^32 every testframe is a sequence error (`traffic_analyzer_gmii.v:127`); the
latencies of a testframe that arrived while frozen are published only with the
next testframe, later than the counters that include it; deleting the
container `gnss-clock` leaves the receiver as it was (`lsi-gnss-clock.c:113`);
a restart of the server switches on every configured output again, which cuts
the power of those that are on for a moment, or for good if the second write
fails (`power-distribution-unit:16`, run from `lsi-power-distribution-unit.c:100`);
and a command that outlived its server may undo what the next server's
command did (`lsi-gnss-clock.c:86`).  These are not findings: no document of the
repository promises the contrary.

## 5. Proofs

`RtClockProofs` proves, for every clock period of up to 15 ns, second length, counter
width, correction and schedule of pulses and writes that `RtClockAssumption`
allows:

* `ClockRanges`: `Spec => []IInv`.  `DisciplinedOvershoot` is not inductive by
  itself: the counter may take one more step because `sec_inc_pps` lags, so the
  invariant bounds it by one accumulator step while the flag is down and two
  in general; `HoldsAtZero` is what keeps it there while the pulse is awaited.
* `FreeRunIsExact`: every tick adds exactly the clock period, from
  `FreeNsecInRange`.
* `EveryPulseCountsOnce`: the count of seconds, less the one closed ahead of its
  pulse, moves by one at a pulse and at no other cycle but the enabling one.

`FilterGmiiProofs` proves, for every register width above nine, gap and frame
length:

* `FilterInvariant`: `Spec => []IInv`.  `DelayInv` says that the idle count and the
  delay counter together make up the gap: equal to it for gaps of nine or more
  until the counter is zero.  `PipeInv` relates the octet in the input register
  to the one on the output.  Neither half holds without types and the other's
  case distinction on `state`.
* `FramesPassWhole`, `MinimumGapKept` and `DroppedOnlyForTheGap`: the action
  properties, from that invariant.

`GeneratorProofs` proves, for every width of the registers, number of buffer words,
length of preamble and fields, frame size of at least two, gap, burst and total,
and writes at any time:

* `GeneratorTypes`, from `CoreInv`: `TypeOK` is not inductive, because each state
  counts to a limit that an earlier state sampled.  `FieldInv` bounds every
  counter by the field its state sends, and says in which states `gmii_en` is up.
* `LineBufferOctets`, `LineSequenceNumbers`, `LineTimestamp`, `LineCrcCoversFrame`,
  `LineFramesAreWhole`, `LineGapNeverShort` and `LineTotalRespected`, from one more
  invariant, `LineInv`.  `LengthInv` ties the number of octets on the line to
  the state and its counter, which makes positions known; `PipeInv` says what
  the address, the word just read and the word being sent hold in each cycle of
  the read pipeline, provided the gap before the frame let word 0 through
  (`Fetched`); `OctetInv` says the same of `data_t0`, one octet ahead of the line,
  as of the line; `CrcInv` that the unit has folded what is on the line after
  the preamble; `GapInv` what the rest of the gap will still add; `NumberInv`,
  `TotalInv` and `TimeInv` relate the counters and the time to what was sent.
* `LineGapExact`, from `BurstInv` and `PaceInv`, which give the exact idle count in
  every state of a gap.  It assumes `[]FewFrames`, that fewer than 2^64 - 1 frames
  have been sent since the start: `GapExact` tells bursts apart by the number
  of the frame, which no longer says where in its burst a frame is once it
  has wrapped.

`AnalyzerProofs` proves, for every set of frames, position of the start delimiter
and of the testframe type, width, buffer size, spacing of frames and sequence of
stops, starts and freezes:

* `AnalyzerTypes`, from `TypeInv`; `FrozenHoldsAlways`, from `SettleInv` (what may
  still be under way so many cycles after a frame) and `HoldInv`;
  `CyclesAccountedAlways`, from `CycleInv`.
* `CountsExactAlways` and `PublishedTogetherAlways`.  `TrackInv` ties the state
  machine to the list of frames that arrived; `ReceiverInv` gives checker and
  parser after any octet of any frame, and their verdict in the cycle after the
  last; `SizeInv` both sizes; `CountInv` says that the counters are the tally of
  all frames but the one complete and not yet accounted for.  They assume
  `Countable`: no frame ends with its start delimiter (`NoneEmpty`), since the
  histories are not cleared and it would get the verdict of an earlier frame
  (a hazard in `PROJECT.json`), and sequence numbers fit in the 32 bits of the
  expected one (`NumbersFit`).
* `CaptureWholeAlways`, from `BufferInv`, `WordInv` and `KeptInv`: which octets are in
  the buffer, which are in the word being collected, and that a held capture is
  left alone.  It assumes `BufferHolds`: frames fit in the buffer.
* `LatencyExactAlways` and `LatencyTogetherAlways`, from `StampInv`, `MeasureInv` and
  `ReportInv`, over the cycles between the end of a frame and its comparison.
  They assume `NoneEmpty` and `Causal`: a testframe arrives no earlier than it was
  sent.

The lemmas of each step are stated for a `CoreStep`, a cycle of the core under any
value of its control register, so that they hold whatever software does.  The
frames of both analyzer configurations satisfy these hypotheses.  The sums
in `AnalyzerLine` are written as numbers of elements of sets of octets, so that
one frame more is one disjoint set more and the library's theorems on
cardinality apply.

`AnalyzerToolProofs` proves, for the same frames and for any number of calls and
reports of the tool, complete or killed:

* `StatisticsAndLatenciesTogether`, under any software.  `PictureInv` says that what
  is published is the tally of the first frames seen and the latencies of as
  many or fewer of them, the same number a cycle after publishing; the
  sequence error needs `ErrorInv`, the last number that did not follow.  It
  assumes `Countable` and `Causal`.
* `ReportTogetherAlways` and `CaptureReportedAlways`.  Every step of the tool and its
  line is a `CoreStep` or leaves the core alone, so that the invariants of
  `AnalyzerProofs` and `PictureInv` carry over to `ToolSpec`.  `ToolInv` adds where the
  tool is: if the core held still at the first read (`steady`), then the control
  register still freezes it, what was read so far is what the registers hold
  (`ReadingInv`), and the words read so far are the buffer's from address 0 on
  (`CapturingInv`).  Neither property is inductive, since both speak of a
  complete report only.
* A report shows times as text.  That a date gives back its day and second is
  proved (`CalendarExact`); that a fraction survives its nine digits is the
  hypothesis `DigitsSurvive(Times)` of both theorems, which TLC evaluates as the
  assumption `EveryFraction` of `MCAnalyzerTool`.  The others are `Countable` and `Causal`
  for the first, `BufferHolds` for the second; the frames of `MCAnalyzerTool`
  satisfy them.

`CoreOffsetProofs` proves, for any sets of tools, cores and shells left behind and
any number of pieces:

* `OwnCoreOnTarget` for `get_core_offset` alone and `OwnCoreInSimulation` for the whole
  of `SimIoreg`.  The invariant `CoreInv` adds `FileIsMine`: while a tool that is not `raced` resolves, the file holds its own pieces up to the next one
  to be written and nothing else.  Nothing is known of a shell left behind:
  whatever it does to the file, every tool that resolves at that moment counts
  as raced, and a later one begins with an empty file.  Every step of `SimIoreg` is a step of
  `CoreOffset` or leaves its variables alone, so that the second theorem follows
  from the same lemma.
* `ToolsAbortForAReason`: no assertion of a tool fails while the server runs,
  but after a race for the file; also for any number of connections and any
  programs.  `SimInv` adds where each tool is in its program (`ProgramInv`), and
  that a tool between `ioreg_init` and `ioreg_close` has a connection the server
  knows, on which a command or its own answer is under way and nothing else
  (`LinkInv`).  Programs access registers while they are connected (`Orderly`),
  as all tools of the repository do.

`GeneratorToolProofs` proves, for every register width, buffer size and set of
options of the right types (`WellTyped`) that the code's arithmetic takes for
granted (`Acceptable`):

* `ToolImplementsService`: `Spec => Service!Spec`.  `WriteList` gives the list of
  writes of a call by position, for a frame of any size.  `ToolInv` says that
  what is pending is the rest of that list, and that registers and buffer hold
  what the part already written says; nothing is assumed of what earlier
  calls left.  A write other than the last is then invisible or disturbs a
  running stream; the last one finds registers and buffer complete, so that it
  starts the stream asked for or settles a disturbed one.
* `FrameAsGiven`: `DataAsGiven`, from the same invariant and `DigitPrinted`, the round
  trip of one digit through `hexchar2byte` and `byte2hexchar`.

`SilModulesProofs` proves, for any outputs, parameters and number of crashes:

* `OutputsPoweredAsConfigured` and `CommitsKeepOutputs`, from `PowerInv`.
  `PoweredAsConfigured` speaks of the moment at which everything is done; the
  invariant says where the difference is kept before: in the copy of the
  previous configuration until the callback has run (`BeforeCallback`), then in
  the commands that are left and the one at work (`AfterCallback`, `OwnCommands`);
  `DownForgets` makes a restart begin with nothing, and `LeftCommands` says that
  commands of an earlier server work on excused outputs only.  `Dark` is what
  commits add: an output that is to be switched on has no power, so that the
  command cuts none.
* `ReceiverAsConfigured`, from `ClockInv`, the same account for the receiver.

The assumptions are the named `ASSUME`s of the modules, which TLC evaluates in
the runs.

Only model-checked: `EveryFraction`, that is `DigitsSurvive` at the times of
`MCAnalyzerTool` (the value of a digit string is recursive, and induction over it
is out of the prover's reach); `StopsQuiet`, `SendsAll` and `NobodyWaitsForEver`,
which are liveness under fairness; and everything about the pulse source of
`RtClockPps`.

## 6. Not modelled

* Reset after power-up: behaviours start after reset.
* Metastability and tearing between clock domains: a register write is seen
  whole, except that 64-bit registers are written in halves.  The 64-bit
  second of rtclock is written as one value; the script writes it only while
  the discipline is off.
* The arithmetic of the CRC, `gmii_er`, collisions.
* Frame sizes 0 and 1 of the generator, whose comparison underflows; frames that
  end right after a good preamble in the analyzer; frames longer than the
  capture buffer or than 8 KiB, where the parser's octet index wraps; overflow
  of 64-bit counters other than the cycle counters.
* The testframe filter registers of the analyzer: the comparison that would use
  them is commented out in `testframe_parser.v`.
* The flip, id and version registers.
* Of the tools: option syntax, the XML around the numbers, options that are
  parsed and never used, and arguments that the code takes for granted to be
  sensible (gaps below 8 wrap, data longer than the frame overruns its buffer).  The
  conversions of times are modelled for the well-formed text that they produce
  themselves, not for text that they would reject or overrun.
* `gmii_mux`, the AXI-Lite handshake and the AXI-stream generator: see the plan.
  Register access is atomic in all modules; `ioreg.c` pauses after each access
  because the handshake does not support bursts.
* `xfsbl_hooks.c`, `loopback.c`, `devmem32.c`: straight-line accesses without
  state; vendor primitives; block designs.
