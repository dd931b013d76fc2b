-------------------------- MODULE TrafficAnalyzer --------------------------
(***************************************************************************)
(* The GMII traffic analyzer core:                                         *)
(* lib/hw/lsi/cores/traffic_analyzer_gmii/hdl/traffic_analyzer_gmii.v with *)
(* its CRC checker (ethernet_crc_8_check.v), testframe parser              *)
(* (testframe_parser.v), capture buffer (bram_io.v) and control register   *)
(* (traffic_analyzer_gmii_cpu_regs.v).                                     *)
(*                                                                         *)
(* A step is one rising edge of clk with the GMII input of that cycle, or  *)
(* one write of the control register, which belongs to the AXI clock.      *)
(*                                                                         *)
(* A frame on the wire is a record: its preamble, a sequence of "55", "d5" *)
(* and "other" octets that ends with the first "d5", if there is one; the  *)
(* number of octets that follow it, which no longer steer it; whether the  *)
(* last four of these are the CRC of the others (good); whether octets 36  *)
(* and 37 are those of a testframe (test); and the sequence number and     *)
(* transmission time that a testframe carries.  An input cycle is Quiet or *)
(* [en, frame, number, pos]: octet pos of the number-th frame.  The        *)
(* arithmetic of the CRC is left out: comparing crc_history[3] with        *)
(* d_history succeeds after the last octet of a good frame and after no    *)
(* other octet.                                                            *)
(***************************************************************************)
EXTENDS Integers, Sequences

CONSTANTS
  EarliestSfd,  \* 6: first preamble index at which 0xd5 is accepted
  LatestSfd,    \* 7: preamble index from which 0x55 is refused
  TypeOctet,    \* 37: index of the octet that makes a frame a testframe
  NsecModulo,   \* 10^9
  SecWrap,      \* 2^48
  ExpectedWrap, \* 2^32: modulus of expected_sequence_num
  CycleWrap,    \* 2^64: modulus of the cycle counters
  Words,        \* words of the capture buffer
  Frames,       \* the frames that may arrive
  Times         \* the times the real-time clock may show

Time == [sec : 0 .. SecWrap - 1, nsec : 0 .. NsecModulo - 1]
Octet == {"55", "d5", "other"}
Lanes == 4
Zero == [sec |-> 0, nsec |-> 0]
FarOff == [sec |-> SecWrap - 1, nsec |-> NsecModulo] \* all ones

ASSUME AnalyzerAssumption ==
  /\ EarliestSfd \in Nat \ {0} /\ LatestSfd \in Nat
  /\ EarliestSfd < LatestSfd /\ TypeOctet \in Nat
  /\ NsecModulo \in Nat \ {0} /\ SecWrap \in Nat \ {0}
  /\ ExpectedWrap \in Nat \ {0} /\ CycleWrap \in Nat \ {0}
  /\ Words \in Nat \ {0}
  /\ \A f \in Frames :
       /\ f.preamble \in Seq(Octet) /\ f.preamble # <<>>
       /\ \A i \in 1 .. Len(f.preamble) - 1 : f.preamble[i] # "d5"
       /\ f.octets \in Nat /\ f.good \in BOOLEAN /\ f.test \in BOOLEAN
       /\ f.good => f.octets > 0
       /\ f.test => f.octets > TypeOctet
       /\ f.seq \in Nat /\ f.sent \in Time
  /\ Times \subseteq Time

VARIABLES
  control_reg,
  run, freeze_stats,                       \* sampled from control_reg
  \* ethernet_crc_8_check and testframe_parser
  rx_state, preamble_index, preamble_ok, crc_ok, history,
  data_index, testframe_match, parsed,
  \* the main state machine
  state, freeze_stats_sync, frame_complete, timestamp,
  frame_size, l2_frame_size, expected_sequence_num,
  counts, last_sequence_error,             \* the running statistics
  stats_reg,                               \* those that software reads
  octets_idle, octets_total, cycles_reg,   \* cycle counters, and as read
  \* capture
  data, frame_buf_in_data, frame_buf_in_address, frame_buf_in_wr, mem,
  \* latency
  latency, latency_min, latency_max, update_latency, update_latency_regs,
  latency_reg

receiver == <<rx_state, preamble_index, preamble_ok, crc_ok, history,
              data_index, testframe_match, parsed>>
machine == <<state, freeze_stats_sync, frame_complete, timestamp, frame_size,
             l2_frame_size>>
statistics == <<expected_sequence_num, counts, last_sequence_error, stats_reg>>
cycles == <<octets_idle, octets_total, cycles_reg>>
capture == <<data, frame_buf_in_data, frame_buf_in_address, frame_buf_in_wr,
             mem>>
latencies == <<latency, latency_min, latency_max, update_latency,
               update_latency_regs, latency_reg>>
sampled == <<run, freeze_stats>>
vars == <<control_reg, sampled, receiver, machine, statistics, cycles, capture,
          latencies>>

Counters == {"pkts", "octets", "bad_crc_pkts", "bad_crc_octets",
             "bad_preamble_pkts", "bad_preamble_octets", "testframe_pkts",
             "sequence_errors"}
NoCounts == [c \in Counters |-> 0]
NoError == [expected |-> 0, received |-> 0, at |-> Zero]
NoStats == [counts |-> NoCounts, error |-> NoError, at |-> Zero, size |-> 0]
NoLatency == [last |-> [sec |-> 0, nsec |-> 2], min |-> FarOff, max |-> Zero]
NoOctet == <<0, 0>>

\* The octet of frame f at position p, and the positions of f.
OctetAt(f, p) == IF p < Len(f.preamble) THEN f.preamble[p + 1] ELSE "other"
Last(f) == Len(f.preamble) + f.octets - 1

Quiet == [en |-> FALSE]

TypeOK ==
  /\ control_reg \in [run : BOOLEAN, freeze : BOOLEAN]
  /\ run \in BOOLEAN /\ freeze_stats \in BOOLEAN
  /\ rx_state \in 0 .. 3 /\ preamble_index \in 1 .. LatestSfd + 1
  /\ preamble_ok \in BOOLEAN /\ crc_ok \in BOOLEAN
  /\ history \in [crc : BOOLEAN, seq : Nat, sent : Time]
  /\ data_index \in Nat /\ testframe_match \in BOOLEAN
  /\ parsed \in [seq : Nat, sent : Time]
  /\ state \in {0, 1} /\ freeze_stats_sync \in BOOLEAN
  /\ frame_complete \in BOOLEAN /\ timestamp \in Time
  /\ frame_size \in Nat /\ l2_frame_size \in Nat
  /\ expected_sequence_num \in 0 .. ExpectedWrap - 1
  /\ counts \in [Counters -> Nat]
  /\ last_sequence_error \in [expected : Nat, received : Nat, at : Time]
  /\ stats_reg \in [counts : [Counters -> Nat], at : Time, size : Nat,
                    error : [expected : Nat, received : Nat, at : Time]]
  /\ octets_idle \in 0 .. CycleWrap - 1 /\ octets_total \in 0 .. CycleWrap - 1
  /\ cycles_reg \in [idle : 0 .. CycleWrap - 1, total : 0 .. CycleWrap - 1]
  /\ frame_buf_in_address \in 0 .. Words - 1 /\ frame_buf_in_wr \in BOOLEAN
  /\ latency_min \in Time \cup {FarOff} /\ latency_max \in Time
  /\ update_latency \in BOOLEAN /\ update_latency_regs \in BOOLEAN
  /\ latency_reg.min \in Time \cup {FarOff} /\ latency_reg.max \in Time

\* Reset; control_reg comes up running.
Init ==
  /\ control_reg = [run |-> TRUE, freeze |-> FALSE]
  /\ run = TRUE /\ freeze_stats = FALSE
  /\ rx_state = 0 /\ preamble_index = 1
  /\ preamble_ok = FALSE /\ crc_ok = FALSE
  /\ history = [crc |-> FALSE, seq |-> 0, sent |-> Zero]
  /\ data_index = 0 /\ testframe_match = FALSE
  /\ parsed = [seq |-> 0, sent |-> Zero]
  /\ state = 0 /\ freeze_stats_sync = FALSE /\ frame_complete = FALSE
  /\ timestamp = Zero /\ frame_size = 0 /\ l2_frame_size = 0
  /\ expected_sequence_num = 0
  /\ counts = NoCounts /\ last_sequence_error = NoError /\ stats_reg = NoStats
  /\ octets_idle = 0 /\ octets_total = 0
  /\ cycles_reg = [idle |-> 0, total |-> 0]
  /\ data = NoOctet
  /\ frame_buf_in_data = [l \in 0 .. Lanes - 1 |-> NoOctet]
  /\ frame_buf_in_address = 0 /\ frame_buf_in_wr = FALSE
  /\ mem = [a \in 0 .. Words - 1 |-> frame_buf_in_data]
  /\ latency = [sec |-> 0, nsec |-> 1]
  /\ latency_min = FarOff /\ latency_max = Zero
  /\ update_latency = FALSE /\ update_latency_regs = FALSE
  /\ latency_reg = NoLatency

---------------------------------------------------------------------------
WriteControl(go, freeze) ==
  /\ control_reg' = [run |-> go, freeze |-> freeze]
  /\ UNCHANGED <<sampled, receiver, machine, statistics, cycles, capture,
                 latencies>>

---------------------------------------------------------------------------
\* The CRC checker and the parser.  Their state machines make the same
\* transitions on the same input, so one rx_state stands for both.

ParserClear ==
  /\ data_index' = 0 /\ testframe_match' = FALSE
  /\ parsed' = [seq |-> 0, sent |-> Zero]

RxIdle(in) ==
  /\ rx_state = 0
  /\ rx_state' = IF ~in.en THEN 0
                 ELSE IF OctetAt(in.frame, in.pos) = "55" THEN 1 ELSE 3
  /\ preamble_index' = 1 /\ preamble_ok' = FALSE /\ crc_ok' = FALSE
  /\ ParserClear
  /\ UNCHANGED history

SfdAccepted(in) == /\ in.en /\ OctetAt(in.frame, in.pos) = "d5"
                   /\ preamble_index >= EarliestSfd

PreambleGoesOnUnlimited(in) == in.en /\ OctetAt(in.frame, in.pos) = "55"
PreambleGoesOn(in) == /\ in.en /\ OctetAt(in.frame, in.pos) = "55"
                      /\ preamble_index < LatestSfd

RxPreamble(in) ==
  /\ rx_state = 1
  /\ rx_state' = CASE ~in.en -> 0
                   [] SfdAccepted(in) -> 2
                   [] PreambleGoesOn(in) -> 1
                   [] OTHER -> 3
  /\ preamble_ok' = (preamble_ok \/ SfdAccepted(in))
  /\ preamble_index' = preamble_index + 1
  /\ UNCHANGED <<crc_ok, history, data_index, testframe_match, parsed>>

ParserOctet(in) ==
  /\ data_index' = data_index + 1
  /\ testframe_match' =
       (testframe_match \/ (data_index = TypeOctet /\ in.frame.test))
  /\ UNCHANGED parsed

RxOctet(in) ==
  /\ rx_state = 2 /\ in.en
  /\ history' = [crc |-> in.frame.good /\ in.pos = Last(in.frame),
                 seq |-> in.frame.seq, sent |-> in.frame.sent]
  /\ ParserOctet(in)
  /\ UNCHANGED <<rx_state, preamble_index, preamble_ok, crc_ok>>

ParserEnd ==
  /\ parsed' = [seq |-> history.seq, sent |-> history.sent]
  /\ UNCHANGED <<data_index, testframe_match>>

\* The histories are not cleared between frames.
RxEnd(in) ==
  /\ rx_state = 2 /\ ~in.en
  /\ rx_state' = 0
  /\ crc_ok' = (crc_ok \/ history.crc)
  /\ ParserEnd
  /\ UNCHANGED <<preamble_index, preamble_ok, history>>

RxSkip(in) ==
  /\ rx_state = 3
  /\ rx_state' = IF in.en THEN 3 ELSE 0
  /\ UNCHANGED <<preamble_index, preamble_ok, crc_ok, history, data_index,
                 testframe_match, parsed>>

Receiver(in) ==
  RxIdle(in) \/ RxPreamble(in) \/ RxOctet(in) \/ RxEnd(in) \/ RxSkip(in)

---------------------------------------------------------------------------
\* Accounting for a complete frame.

SequenceError == parsed.seq # expected_sequence_num

\* What the frame adds to each counter.
CountDelta ==
  CASE ~preamble_ok ->
         [NoCounts EXCEPT !.bad_preamble_pkts = 1,
                          !.bad_preamble_octets = frame_size]
    [] preamble_ok /\ crc_ok ->
         [NoCounts EXCEPT !.pkts = 1, !.octets = l2_frame_size,
           !.testframe_pkts = IF testframe_match THEN 1 ELSE 0,
           !.sequence_errors =
             IF testframe_match /\ SequenceError THEN 1 ELSE 0]
    [] OTHER ->
         [NoCounts EXCEPT !.bad_crc_pkts = 1, !.bad_crc_octets = l2_frame_size]

GoodTestframe == preamble_ok /\ crc_ok /\ testframe_match

\* The registers that software reads, unless frozen when the frame began.
PublishTimeAlways(total, error) ==
  IF freeze_stats_sync
    THEN [stats_reg EXCEPT !.at = timestamp, !.size = frame_size]
    ELSE [counts |-> total, error |-> error, at |-> timestamp,
          size |-> frame_size]
Publish(total, error) ==
  IF freeze_stats_sync THEN stats_reg
  ELSE [counts |-> total, error |-> error, at |-> timestamp,
        size |-> frame_size]

Account ==
  LET total == [c \in Counters |-> counts[c] + CountDelta[c]]
      error == IF GoodTestframe /\ SequenceError
                 THEN [expected |-> expected_sequence_num,
                       received |-> parsed.seq, at |-> timestamp]
                 ELSE last_sequence_error
  IN /\ counts' = total
     /\ last_sequence_error' = error
     /\ expected_sequence_num' = IF GoodTestframe
                                   THEN (parsed.seq + 1) % ExpectedWrap
                                   ELSE expected_sequence_num
     /\ stats_reg' = Publish(total, error)

---------------------------------------------------------------------------
\* The main state machine.

\* run = 0 clears everything but the receiver, also in the middle of a frame.
Clear ==
  /\ ~run
  /\ state' = 0 /\ freeze_stats_sync' = FALSE /\ frame_complete' = FALSE
  /\ frame_size' = 0 /\ l2_frame_size' = 0
  /\ expected_sequence_num' = 0
  /\ counts' = NoCounts /\ last_sequence_error' = NoError
  /\ stats_reg' = NoStats
  /\ octets_idle' = 0 /\ octets_total' = 0
  /\ cycles_reg' = [idle |-> 0, total |-> 0]
  /\ frame_buf_in_wr' = FALSE /\ frame_buf_in_address' = 0
  /\ UNCHANGED <<timestamp, data, frame_buf_in_data>>

IdleBetweenFrames(in) == state = 0 /\ ~in.en
IdleCycle(in) == ~in.en

CountCycle(in) ==
  /\ octets_total' = (octets_total + 1) % CycleWrap
  /\ octets_idle' = IF IdleCycle(in) THEN (octets_idle + 1) % CycleWrap
                                     ELSE octets_idle
  /\ cycles_reg' = IF freeze_stats THEN cycles_reg
                   ELSE [idle |-> octets_idle, total |-> octets_total]

\* Freezing takes effect at frame boundaries.
FreezeKept == freeze_stats_sync
FreezeAtFrameStart == freeze_stats

\* State 0: a frame may begin in the very cycle that accounts for the last.
BetweenFrames(in, now) ==
  /\ run /\ state = 0
  /\ IF in.en
       THEN /\ state' = 1
            /\ timestamp' = now
            /\ data' = <<in.number, in.pos>>
            /\ frame_size' = 0 /\ l2_frame_size' = 0
            /\ freeze_stats_sync' = FreezeAtFrameStart
       ELSE UNCHANGED <<state, timestamp, data, frame_size, l2_frame_size,
                        freeze_stats_sync>>
  /\ frame_complete' = FALSE
  /\ IF frame_complete
       THEN /\ frame_buf_in_wr' = FALSE /\ frame_buf_in_address' = 0
            /\ Account
       ELSE UNCHANGED <<frame_buf_in_wr, frame_buf_in_address, statistics>>
  /\ UNCHANGED frame_buf_in_data
  /\ CountCycle(in)

L2OctetOrEnd(in) == preamble_ok
L2Octet(in) == preamble_ok /\ in.en

CaptureUnlessFrozenNow == ~freeze_stats
Captures == ~freeze_stats_sync

\* State 1: count and capture the octet of the previous cycle.
InFrame(in) ==
  /\ run /\ state = 1
  /\ frame_size' = frame_size + 1
  /\ l2_frame_size' = IF L2Octet(in) THEN l2_frame_size + 1
                                      ELSE l2_frame_size
  /\ IF in.en
       THEN /\ data' = <<in.number, in.pos>>
            /\ UNCHANGED <<state, frame_complete>>
       ELSE state' = 0 /\ frame_complete' = TRUE /\ UNCHANGED data
  /\ frame_buf_in_data' = [frame_buf_in_data EXCEPT ![frame_size % Lanes] = data]
  /\ frame_buf_in_address' = (frame_size \div Lanes) % Words
  /\ frame_buf_in_wr' = Captures
  /\ UNCHANGED <<timestamp, freeze_stats_sync, statistics>>
  /\ CountCycle(in)

\* bram_io: the write side.
BufferWrite ==
  mem' = IF frame_buf_in_wr
           THEN [mem EXCEPT ![frame_buf_in_address] = frame_buf_in_data]
           ELSE mem

---------------------------------------------------------------------------
\* Latency: measured when a frame is complete, compared a cycle later.

Before(s, t) == s.sec < t.sec \/ (s.sec = t.sec /\ s.nsec < t.nsec)
SecMinus(a, b) == (a - b) % SecWrap

ElapsedNoBorrow(rx, tx) ==
  [sec |-> SecMinus(rx.sec, tx.sec),
   nsec |-> IF rx.nsec < tx.nsec THEN NsecModulo - tx.nsec + rx.nsec
                                 ELSE rx.nsec - tx.nsec]
Elapsed(rx, tx) ==
  IF rx.nsec < tx.nsec
    THEN [sec |-> SecMinus(rx.sec, tx.sec + 1),
          nsec |-> NsecModulo - tx.nsec + rx.nsec]
    ELSE [sec |-> SecMinus(rx.sec, tx.sec), nsec |-> rx.nsec - tx.nsec]

ClearLatency ==
  /\ ~run
  /\ latency' = [sec |-> 0, nsec |-> 1]
  /\ latency_min' = FarOff /\ latency_max' = Zero
  /\ latency_reg' = NoLatency
  /\ update_latency' = FALSE /\ update_latency_regs' = FALSE

Measures == state = 0 /\ frame_complete /\ crc_ok /\ testframe_match

MeasureLatency ==
  /\ run /\ Measures
  /\ latency' = Elapsed(timestamp, parsed.sent)
  /\ update_latency' = TRUE
  /\ update_latency_regs' = (update_latency_regs \/ ~freeze_stats_sync)
  /\ UNCHANGED <<latency_min, latency_max, latency_reg>>

PublishedLatencyLate(min, max) ==
  [last |-> latency, min |-> latency_min, max |-> latency_max]
PublishedLatency(min, max) == [last |-> latency, min |-> min, max |-> max]

CompareLatency ==
  LET max == IF Before(latency_max, latency) THEN latency ELSE latency_max
      min == IF Before(latency, latency_min) THEN latency ELSE latency_min
  IN /\ run /\ ~Measures
     /\ latency_max' = IF update_latency THEN max ELSE latency_max
     /\ latency_min' = IF update_latency THEN min ELSE latency_min
     /\ latency_reg' = IF update_latency_regs
                         THEN PublishedLatency(min, max)
                         ELSE latency_reg
     /\ update_latency' = FALSE /\ update_latency_regs' = FALSE
     /\ UNCHANGED latency

---------------------------------------------------------------------------
Tick(in, now) ==
  /\ run' = control_reg.run
  /\ freeze_stats' = control_reg.freeze
  /\ Receiver(in)
  /\ Clear \/ BetweenFrames(in, now) \/ InFrame(in)
  /\ BufferWrite
  /\ ClearLatency \/ MeasureLatency \/ CompareLatency
  /\ UNCHANGED control_reg
=============================================================================
