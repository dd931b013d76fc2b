--------------------------- MODULE AnalyzerProofs ---------------------------
(***************************************************************************)
(* Proofs about the GMII traffic analyzer for every set of frames, every   *)
(* register width and every size of the capture buffer.                    *)
(***************************************************************************)
EXTENDS AnalyzerLine, FiniteSetTheorems, SequenceTheorems,
  WellFoundedInduction, TLAPS

---------------------------------------------------------------------------
\* The parts of TypeOK, with what they need to be inductive.
SampledTypes ==
  /\ control_reg \in [run : BOOLEAN, freeze : BOOLEAN]
  /\ run \in BOOLEAN /\ freeze_stats \in BOOLEAN
ReceiverTypes ==
  /\ rx_state \in 0 .. 3 /\ preamble_index \in 1 .. LatestSfd + 1
  /\ preamble_ok \in BOOLEAN /\ crc_ok \in BOOLEAN
  /\ history \in [crc : BOOLEAN, seq : Nat, sent : Time]
  /\ data_index \in Nat /\ testframe_match \in BOOLEAN
  /\ parsed \in [seq : Nat, sent : Time]
  /\ rx_state = 1 => preamble_index <= LatestSfd
MachineTypes ==
  /\ state \in {0, 1} /\ freeze_stats_sync \in BOOLEAN
  /\ frame_complete \in BOOLEAN /\ timestamp \in Time
  /\ frame_size \in Nat /\ l2_frame_size \in Nat
  /\ frame_buf_in_address \in 0 .. Words - 1 /\ frame_buf_in_wr \in BOOLEAN
Errors == [expected : Nat, received : Nat, at : Time]
StatisticsTypes ==
  /\ expected_sequence_num \in 0 .. ExpectedWrap - 1
  /\ counts \in [Counters -> Nat]
  /\ last_sequence_error \in Errors
  /\ stats_reg \in [counts : [Counters -> Nat], at : Time, size : Nat,
                    error : Errors]
CycleTypes ==
  /\ octets_idle \in 0 .. CycleWrap - 1 /\ octets_total \in 0 .. CycleWrap - 1
  /\ cycles_reg \in [idle : 0 .. CycleWrap - 1, total : 0 .. CycleWrap - 1]
LatencyTypes ==
  /\ latency_min \in Time \cup {FarOff} /\ latency_max \in Time
  /\ update_latency \in BOOLEAN /\ update_latency_regs \in BOOLEAN
  /\ latency_reg.min \in Time \cup {FarOff} /\ latency_reg.max \in Time
  /\ update_latency => latency \in Time
  /\ update_latency_regs => update_latency
WireTypes ==
  /\ wire = Quiet
     \/ /\ wire.en = TRUE /\ wire.frame \in Frames /\ wire.number \in Nat
        /\ wire.pos \in 0 .. Last(wire.frame)
  /\ number \in Nat /\ rise \in Time
  /\ heard \in BOOLEAN /\ partial \in BOOLEAN /\ holding \in BOOLEAN
  /\ quiet \in 0 .. 3

TypeInv ==
  /\ SampledTypes /\ ReceiverTypes /\ MachineTypes /\ StatisticsTypes
  /\ CycleTypes /\ LatencyTypes /\ WireTypes

---------------------------------------------------------------------------
(***************************************************************************)
(* When nothing is under way: the buffer is written, statistics and        *)
(* latencies are published only in and shortly after a frame.              *)
(***************************************************************************)
UnderWay == state = 1 \/ frame_complete
SettleInv ==
  /\ state = 1 => wire.en
  /\ quiet > 0 => ~wire.en
  /\ frame_complete => state = 0 /\ quiet < 2
  /\ frame_buf_in_wr => UnderWay
  /\ update_latency_regs => quiet < 3
  /\ wire.en => quiet = 0
  /\ frame_complete => ~update_latency

\* While the statistics are held, no frame that is under way was begun unfrozen.
HoldInv ==
  holding => /\ UnderWay => freeze_stats_sync
             /\ ~frame_buf_in_wr /\ ~update_latency_regs

---------------------------------------------------------------------------
(***************************************************************************)
(* The record of what arrived, and the state machine's position in it.     *)
(***************************************************************************)
Arrival == [frame : Frames, at : Time, number : Nat]
Newest == seen[Len(seen)]

TrackInv ==
  /\ seen \in Seq(Arrival)
  /\ heard <=> state = 1
  /\ state = 1 /\ ~partial =>
       /\ frame_size = wire.pos /\ timestamp = rise
       /\ data = <<wire.number, wire.pos>>
  /\ frame_complete => Len(seen) > 0
  /\ frame_complete /\ ~partial =>
       timestamp = Newest.at /\ frame_size = Last(Newest.frame) + 1

(***************************************************************************)
(* The receiver in the middle of a frame f whose octet p it saw last, and  *)
(* its verdict in the cycle after the frame.                               *)
(***************************************************************************)
Fives(f, p) ==
  p < Len(f.preamble) /\ \A i \in 1 .. p + 1 : f.preamble[i] = "55"

ReceiverAt(f, p) ==
  /\ rx_state # 0
  /\ rx_state = 1 => /\ Fives(f, p) /\ p < LatestSfd
                     /\ preamble_index = p + 1 /\ data_index = 0
  /\ rx_state = 3 => ~PreambleGood(f)
  /\ rx_state # 2 => ~preamble_ok /\ ~crc_ok /\ ~testframe_match
  /\ rx_state = 2 =>
       /\ PreambleGood(f) /\ preamble_ok /\ ~crc_ok
       /\ p + 1 >= Len(f.preamble) /\ data_index = p + 1 - Len(f.preamble)
       /\ data_index > 0 =>
            history = [crc |-> f.good /\ p = Last(f), seq |-> f.seq,
                       sent |-> f.sent]
       /\ testframe_match <=> f.test /\ data_index > TypeOctet

Verdict(f) ==
  /\ preamble_ok <=> PreambleGood(f)
  /\ crc_ok <=> PreambleGood(f) /\ f.good
  /\ testframe_match <=> PreambleGood(f) /\ f.test
  /\ PreambleGood(f) => parsed = [seq |-> f.seq, sent |-> f.sent]

ReceiverInv ==
  /\ ~wire.en => rx_state = 0
  /\ wire.en => ReceiverAt(wire.frame, wire.pos)
  /\ frame_complete => Verdict(Newest.frame)

SizeInv ==
  ~partial =>
    /\ state = 1 =>
         l2_frame_size = IF rx_state = 2 THEN data_index ELSE 0
    /\ frame_complete /\ PreambleGood(Newest.frame) =>
         l2_frame_size = Newest.frame.octets

(***************************************************************************)
(* The statistics are those of the frames seen, but for the frame that is  *)
(* complete and not yet accounted for.                                     *)
(***************************************************************************)
Follows(s) == IF Test(s) = {} THEN 0 ELSE s[Max(Test(s))].frame.seq + 1
Earlier == SubSeq(seen, 1, Len(seen) - 1)
Counted(s) == counts = Tally(s) /\ expected_sequence_num = Follows(s)
CountInv ==
  ~partial => Counted(IF frame_complete THEN Earlier ELSE seen)

---------------------------------------------------------------------------
\* The inputs.

LEMMA FrameFacts ==
  ASSUME NEW f \in Frames
  PROVE  /\ f.preamble \in Seq(Octet) /\ Len(f.preamble) \in Nat
         /\ Len(f.preamble) > 0 /\ f.octets \in Nat
         /\ f.seq \in Nat /\ f.sent \in Time
         /\ f.good \in BOOLEAN /\ f.test \in BOOLEAN
         /\ Last(f) = Len(f.preamble) + f.octets - 1 /\ Last(f) \in Nat
<1>1. /\ f.preamble \in Seq(Octet) /\ f.preamble # <<>> /\ f.octets \in Nat
      /\ f.seq \in Nat /\ f.sent \in Time
      /\ f.good \in BOOLEAN /\ f.test \in BOOLEAN
  BY AnalyzerAssumption
<1>2. Len(f.preamble) \in Nat /\ Len(f.preamble) > 0
  BY <1>1, EmptySeq, LenProperties
<1> QED BY <1>1, <1>2 DEF Last

\* A frame arrives octet by octet, and whole.
LEMMA InputFacts ==
  ASSUME TypeInv, NEW in \in Inputs
  PROVE  /\ \/ in = Quiet /\ ~in.en
            \/ /\ in.en = TRUE /\ in.frame \in Frames /\ in.number \in Nat
               /\ in.pos \in 0 .. Last(in.frame)
         /\ in.en /\ ~wire.en => in.pos = 0
         /\ in.en /\ wire.en => /\ in.frame = wire.frame /\ in.number = wire.number
                                /\ in.pos = wire.pos + 1
         /\ ~in.en /\ wire.en => wire.pos = Last(wire.frame)
<1>1. WireTypes
  BY DEF TypeInv
<1>2. ~Quiet.en
  BY DEF Quiet
<1>3. CASE wire.en /\ wire.pos < Last(wire.frame)
  <2>1. in = Beat(wire.frame, wire.number, wire.pos + 1)
    BY <1>3 DEF Inputs
  <2>2. /\ wire.frame \in Frames /\ wire.number \in Nat
        /\ wire.pos \in 0 .. Last(wire.frame)
    BY <1>1, <1>2, <1>3 DEF WireTypes
  <2>3. Last(wire.frame) \in Nat
    BY <2>2, FrameFacts
  <2>4. /\ in.en = TRUE /\ in.frame = wire.frame /\ in.number = wire.number
        /\ in.pos = wire.pos + 1
    BY <2>1 DEF Beat
  <2>5. in.pos \in 0 .. Last(in.frame)
    BY <1>3, <2>2, <2>3, <2>4
  <2> QED BY <1>3, <2>2, <2>4, <2>5
<1>4. CASE ~wire.en /\ number < MaxFrames
  <2>1. in = Quiet \/ \E f \in Frames : in = Beat(f, number + 1, 0)
    BY <1>4 DEF Inputs
  <2>2. CASE in = Quiet
    BY <1>2, <1>4, <2>2
  <2>3. ASSUME NEW f \in Frames, in = Beat(f, number + 1, 0)
        PROVE  /\ in.en = TRUE /\ in.frame \in Frames /\ in.number \in Nat
               /\ in.pos \in 0 .. Last(in.frame) /\ in.pos = 0
    <3>1. /\ in.en = TRUE /\ in.frame = f /\ in.number = number + 1
          /\ in.pos = 0
      BY <2>3 DEF Beat
    <3>2. number \in Nat /\ Last(f) \in Nat
      BY <1>1, FrameFacts DEF WireTypes
    <3> QED BY <3>1, <3>2
  <2> QED BY <1>4, <2>1, <2>2, <2>3
<1>5. CASE /\ ~(wire.en /\ wire.pos < Last(wire.frame))
           /\ ~(~wire.en /\ number < MaxFrames)
  <2>1. in = Quiet
    BY <1>5 DEF Inputs
  <2>2. wire.en => wire.pos = Last(wire.frame)
    <3>1. SUFFICES ASSUME wire.en PROVE wire.pos = Last(wire.frame)
      OBVIOUS
    <3>2. wire.frame \in Frames /\ wire.pos \in 0 .. Last(wire.frame)
      BY <1>1, <1>2, <3>1 DEF WireTypes
    <3>3. Last(wire.frame) \in Nat /\ ~(wire.pos < Last(wire.frame))
      BY <1>5, <3>1, <3>2, FrameFacts
    <3> QED BY <3>2, <3>3
  <2> QED BY <1>2, <2>1, <2>2
<1> QED BY <1>3, <1>4, <1>5

---------------------------------------------------------------------------
\* Types.

LEMMA TimeFacts ==
  /\ Zero \in Time /\ FarOff.sec \in Nat /\ FarOff.nsec \in Nat
  /\ Times \subseteq Time
  BY AnalyzerAssumption DEF Zero, Time, FarOff

LEMMA InitTypes == LineInit => TypeInv
<1> SUFFICES ASSUME LineInit PROVE TypeInv OBVIOUS
<1> USE AnalyzerAssumption, TimeFacts DEF LineInit, Init
<1>1. SampledTypes
  BY DEF SampledTypes
<1>2. /\ preamble_ok \in BOOLEAN /\ crc_ok \in BOOLEAN
      /\ testframe_match \in BOOLEAN /\ freeze_stats_sync \in BOOLEAN
      /\ frame_complete \in BOOLEAN /\ frame_buf_in_wr \in BOOLEAN
      /\ heard \in BOOLEAN /\ partial \in BOOLEAN /\ holding \in BOOLEAN
  OBVIOUS
<1>3. ReceiverTypes
  BY <1>2 DEF ReceiverTypes
<1>4. MachineTypes
  BY <1>2 DEF MachineTypes
<1>5. NoCounts \in [Counters -> Nat]
  BY DEF NoCounts
<1>6. StatisticsTypes
  BY <1>5 DEF StatisticsTypes, NoStats, NoError, Errors
<1>7. CycleTypes
  BY DEF CycleTypes
<1>8. WireTypes
  BY <1>2 DEF WireTypes
<1>9. LatencyTypes
  BY DEF LatencyTypes, NoLatency
<1> QED BY <1>4, <1>6, <1>7, <1>9, <1>1, <1>3, <1>8 DEF TypeInv

LEMMA TickReceiverTypes ==
  ASSUME TypeInv, NEW in \in Inputs, Receiver(in)
  PROVE  ReceiverTypes'
<1> USE AnalyzerAssumption, TimeFacts
<1>1. ReceiverTypes
  BY DEF TypeInv
<1>2. CASE RxIdle(in)
  <2>1. /\ preamble_ok' \in BOOLEAN /\ crc_ok' \in BOOLEAN
        /\ testframe_match' \in BOOLEAN
    BY <1>2 DEF RxIdle, ParserClear
  <2>2. /\ rx_state' \in 0 .. 3 /\ preamble_index' = 1 /\ history' = history
        /\ data_index' = 0 /\ parsed' = [seq |-> 0, sent |-> Zero]
    BY <1>2 DEF RxIdle, ParserClear
  <2> QED BY <1>1, <2>1, <2>2 DEF ReceiverTypes
<1>3. CASE RxPreamble(in)
  <2>1. rx_state' \in 0 .. 3
    BY <1>3 DEF RxPreamble
  <2>2. /\ preamble_index' \in 1 .. LatestSfd + 1
        /\ rx_state' = 1 => preamble_index' <= LatestSfd
    <3>1. /\ preamble_index \in Nat /\ preamble_index >= 1
          /\ preamble_index <= LatestSfd
      BY <1>1, <1>3 DEF RxPreamble, ReceiverTypes
    <3>2. preamble_index' = preamble_index + 1
      BY <1>3 DEF RxPreamble
    <3>3. rx_state' = 1 => PreambleGoesOn(in)
      BY <1>3 DEF RxPreamble
    <3>4. PreambleGoesOn(in) => preamble_index < LatestSfd
      BY DEF PreambleGoesOn
    <3>5. LatestSfd \in Nat
      OBVIOUS
    <3> QED BY <3>1, <3>2, <3>3, <3>4, <3>5
  <2>3. preamble_ok' \in BOOLEAN
    BY <1>3 DEF RxPreamble
  <2> QED BY <1>1, <1>3, <2>1, <2>2, <2>3 DEF RxPreamble, ReceiverTypes
<1>4. CASE RxOctet(in)
  <2>1. in.frame \in Frames
    BY <1>4, InputFacts DEF RxOctet
  <2>2. history' \in [crc : BOOLEAN, seq : Nat, sent : Time]
    <3>1. in.frame.seq \in Nat /\ in.frame.sent \in Time
      BY <2>1, FrameFacts
    <3>2. (in.frame.good /\ in.pos = Last(in.frame)) \in BOOLEAN
      OBVIOUS
    <3> QED BY <1>4, <3>1, <3>2 DEF RxOctet
  <2>3. testframe_match' \in BOOLEAN /\ data_index' \in Nat
    BY <1>1, <1>4 DEF RxOctet, ParserOctet, ReceiverTypes
  <2> QED BY <1>1, <1>4, <2>2, <2>3 DEF RxOctet, ParserOctet, ReceiverTypes
<1>5. CASE RxEnd(in)
  <2>1. crc_ok' \in BOOLEAN /\ parsed' \in [seq : Nat, sent : Time]
    BY <1>1, <1>5 DEF RxEnd, ParserEnd, ReceiverTypes
  <2> QED BY <1>1, <1>5, <2>1 DEF RxEnd, ParserEnd, ReceiverTypes
<1>6. CASE RxSkip(in)
  BY <1>1, <1>6 DEF RxSkip, ReceiverTypes
<1> QED BY <1>2, <1>3, <1>4, <1>5, <1>6 DEF Receiver

\* The main state machine, in the words of its three branches.
LEMMA TickMachineTypes ==
  ASSUME TypeInv, NEW in \in Inputs, NEW now \in Times,
         Clear \/ BetweenFrames(in, now) \/ InFrame(in)
  PROVE  MachineTypes'
<1> USE AnalyzerAssumption, TimeFacts
<1>1. MachineTypes /\ freeze_stats \in BOOLEAN
  BY DEF TypeInv, SampledTypes
<1>2. CASE Clear
  <2>1. /\ freeze_stats_sync' \in BOOLEAN /\ frame_complete' \in BOOLEAN
        /\ frame_buf_in_wr' \in BOOLEAN
    BY <1>2 DEF Clear
  <2> QED BY <1>1, <1>2, <2>1 DEF Clear, MachineTypes
<1>3. CASE BetweenFrames(in, now)
  <2>1. /\ freeze_stats_sync' \in BOOLEAN /\ frame_complete' \in BOOLEAN
        /\ frame_buf_in_wr' \in BOOLEAN
    BY <1>1, <1>3 DEF BetweenFrames, MachineTypes, FreezeAtFrameStart
  <2> QED BY <1>1, <1>3, <2>1 DEF BetweenFrames, MachineTypes
<1>4. CASE InFrame(in)
  <2>1. /\ freeze_stats_sync' \in BOOLEAN /\ frame_buf_in_wr' \in BOOLEAN
    BY <1>1, <1>4 DEF InFrame, MachineTypes, Captures
  <2>2. frame_complete' \in BOOLEAN /\ state' \in {0, 1}
    BY <1>1, <1>4 DEF InFrame, MachineTypes
  <2>3. frame_buf_in_address' \in 0 .. Words - 1
    <3>1. frame_size \div Lanes \in Int
      BY <1>1 DEF MachineTypes, Lanes
    <3>2. frame_buf_in_address' = (frame_size \div Lanes) % Words
      BY <1>4 DEF InFrame
    <3> DEFINE q == frame_size \div Lanes
    <3> HIDE DEF q
    <3>3. q \in Int /\ frame_buf_in_address' = q % Words
      BY <3>1, <3>2 DEF q
    <3> QED BY <3>3
  <2>4. frame_size' \in Nat /\ l2_frame_size' \in Nat /\ timestamp' \in Time
    <3>1. /\ frame_size \in Nat /\ l2_frame_size \in Nat /\ timestamp \in Time
      BY <1>1 DEF MachineTypes
    <3>2. /\ frame_size' = frame_size + 1 /\ timestamp' = timestamp
          /\ \/ l2_frame_size' = l2_frame_size + 1
             \/ l2_frame_size' = l2_frame_size
      BY <1>4 DEF InFrame
    <3> QED BY <3>1, <3>2
  <2> QED BY <2>1, <2>2, <2>3, <2>4 DEF MachineTypes
<1> QED BY <1>2, <1>3, <1>4

LEMMA DeltaTypes ==
  ASSUME TypeInv
  PROVE  CountDelta \in [Counters -> Nat]
<1>1. NoCounts \in [Counters -> Nat]
  BY DEF NoCounts
<1>2. frame_size \in Nat /\ l2_frame_size \in Nat
  BY DEF TypeInv, MachineTypes
<1> QED BY <1>1, <1>2 DEF CountDelta, Counters

LEMMA AccountTypes ==
  ASSUME TypeInv, Account
  PROVE  StatisticsTypes'
<1> USE AnalyzerAssumption
<1>1. /\ StatisticsTypes /\ timestamp \in Time /\ frame_size \in Nat
      /\ parsed.seq \in Nat
  BY DEF TypeInv, MachineTypes, ReceiverTypes
<1>2. counts' \in [Counters -> Nat]
  <2>1. CountDelta \in [Counters -> Nat] /\ counts \in [Counters -> Nat]
    BY <1>1, DeltaTypes DEF StatisticsTypes
  <2>2. counts' = [c \in Counters |-> counts[c] + CountDelta[c]]
    BY DEF Account
  <2> QED BY <2>1, <2>2
<1>3. expected_sequence_num' \in 0 .. ExpectedWrap - 1
  BY <1>1 DEF Account, StatisticsTypes
<1>4. last_sequence_error' \in Errors
  BY <1>1 DEF Account, StatisticsTypes, Errors
<1>5. stats_reg' \in {stats_reg, [counts |-> counts', error |-> last_sequence_error',
                                  at |-> timestamp, size |-> frame_size]}
  BY DEF Account, Publish
<1> QED BY <1>1, <1>2, <1>3, <1>4, <1>5 DEF StatisticsTypes

LEMMA TickStatisticsTypes ==
  ASSUME TypeInv, NEW in \in Inputs, NEW now \in Times,
         Clear \/ BetweenFrames(in, now) \/ InFrame(in)
  PROVE  StatisticsTypes'
<1>1. StatisticsTypes
  BY DEF TypeInv
<1>2. CASE Clear
  <2>1. NoCounts \in [Counters -> Nat] /\ NoError \in Errors
    BY TimeFacts DEF NoCounts, NoError, Errors
  <2> QED BY <1>2, <2>1, TimeFacts, AnalyzerAssumption
          DEF Clear, StatisticsTypes, NoStats
<1>3. CASE UNCHANGED statistics
  BY <1>1, <1>3 DEF StatisticsTypes, statistics
<1> QED BY <1>2, <1>3, AccountTypes DEF BetweenFrames, InFrame

LEMMA TickCycleTypes ==
  ASSUME TypeInv, NEW in \in Inputs, NEW now \in Times,
         Clear \/ BetweenFrames(in, now) \/ InFrame(in)
  PROVE  CycleTypes'
<1> USE AnalyzerAssumption
<1>1. CycleTypes
  BY DEF TypeInv
<1>2. CASE Clear
  BY <1>2 DEF Clear, CycleTypes
<1>3. CASE CountCycle(in)
  BY <1>1, <1>3 DEF CountCycle, CycleTypes
<1> QED BY <1>2, <1>3 DEF BetweenFrames, InFrame

\* The difference of two times is a time.
LEMMA ElapsedTypes ==
  ASSUME NEW rx \in Time, NEW tx \in Time
  PROVE  Elapsed(rx, tx) \in Time
<1>1. \A a, b \in Int : SecMinus(a, b) \in 0 .. SecWrap - 1
  BY AnalyzerAssumption DEF SecMinus
<1>2. /\ rx.sec \in Int /\ tx.sec \in Int
      /\ rx.nsec \in 0 .. NsecModulo - 1 /\ tx.nsec \in 0 .. NsecModulo - 1
  BY AnalyzerAssumption DEF Time
<1>3. tx.sec + 1 \in Int
  BY <1>2
<1>4. /\ SecMinus(rx.sec, tx.sec) \in 0 .. SecWrap - 1
      /\ SecMinus(rx.sec, tx.sec + 1) \in 0 .. SecWrap - 1
  BY <1>1, <1>2, <1>3
<1>5. /\ rx.nsec < tx.nsec => NsecModulo - tx.nsec + rx.nsec \in 0 .. NsecModulo - 1
      /\ ~(rx.nsec < tx.nsec) => rx.nsec - tx.nsec \in 0 .. NsecModulo - 1
  <2>1. NsecModulo \in Nat
    BY AnalyzerAssumption
  <2>2. \A m, n \in 0 .. NsecModulo - 1 :
          /\ m < n => NsecModulo - n + m \in 0 .. NsecModulo - 1
          /\ ~(m < n) => m - n \in 0 .. NsecModulo - 1
    BY <2>1
  <2> QED BY <1>2, <2>2
<1> QED BY <1>4, <1>5 DEF Elapsed, Time

LEMMA TickLatencyTypes ==
  ASSUME TypeInv, ClearLatency \/ MeasureLatency \/ CompareLatency
  PROVE  LatencyTypes'
<1>1. /\ LatencyTypes /\ timestamp \in Time /\ parsed.sent \in Time
      /\ Zero \in Time
  BY TimeFacts DEF TypeInv, MachineTypes, ReceiverTypes
<1>2. update_latency' \in BOOLEAN /\ update_latency_regs' \in BOOLEAN
  BY DEF ClearLatency, MeasureLatency, CompareLatency
<1>3. CASE ClearLatency
  BY <1>1, <1>2, <1>3 DEF ClearLatency, LatencyTypes, NoLatency
<1>4. CASE MeasureLatency
  <2>1. latency' \in Time
    BY <1>1, <1>4, ElapsedTypes DEF MeasureLatency
  <2> QED BY <1>1, <1>2, <1>4, <2>1 DEF MeasureLatency, LatencyTypes
<1>5. CASE CompareLatency
  <2>1. latency_max' \in Time /\ latency_min' \in Time \cup {FarOff}
    BY <1>1, <1>5 DEF CompareLatency, LatencyTypes
  <2>2. latency_reg'.min \in Time \cup {FarOff} /\ latency_reg'.max \in Time
    BY <1>1, <1>5 DEF CompareLatency, LatencyTypes, PublishedLatency
  <2>3. ~update_latency' /\ ~update_latency_regs'
    BY <1>5 DEF CompareLatency
  <2> QED BY <1>2, <2>1, <2>2, <2>3 DEF LatencyTypes
<1> QED BY <1>3, <1>4, <1>5

LEMMA TickWireTypes ==
  ASSUME TypeInv, NEW in \in Inputs, NEW now \in Times, Observe(in, now)
  PROVE  WireTypes'
<1>1. WireTypes /\ now \in Time
  BY TimeFacts DEF TypeInv
<1>2. /\ wire' = in /\ heard' \in BOOLEAN /\ partial' \in BOOLEAN
      /\ holding' \in BOOLEAN
  BY DEF Observe
<1>3. quiet' \in 0 .. 3
  BY <1>1 DEF Observe, WireTypes
<1>4. rise' \in Time
  BY <1>1 DEF Observe, WireTypes
<1>5. number' \in Nat
  BY <1>1, InputFacts DEF Observe, WireTypes
<1>6. in = Quiet \/ /\ in.en = TRUE /\ in.frame \in Frames /\ in.number \in Nat
                    /\ in.pos \in 0 .. Last(in.frame)
  BY InputFacts
<1>7. wire' = Quiet \/ /\ wire'.en = TRUE /\ wire'.frame \in Frames
                       /\ wire'.number \in Nat
                       /\ wire'.pos \in 0 .. Last(wire'.frame)
  BY <1>2, <1>6
<1> QED BY <1>2, <1>3, <1>4, <1>5, <1>7 DEF WireTypes, Quiet, Last

\* A step that is not a cycle of clk changes nothing but control_reg.
Still == UNCHANGED <<sampled, receiver, machine, statistics, cycles, capture,
                     latencies, observers>>
Controls == [run : BOOLEAN, freeze : BOOLEAN]

\* The steps of the analyzer on its line, whatever software writes.
CoreStep == LineTick \/ (Still /\ control_reg' \in Controls)

LEMMA CoreSteps ==
  ASSUME CoreStep
  PROVE  \/ \E in \in Inputs, now \in Times : Tick(in, now) /\ Observe(in, now)
         \/ Still
BY DEF CoreStep, LineTick

LEMMA LineSteps ==
  ASSUME TypeInv, [LineNext]_lineVars
  PROVE  CoreStep
<1>1. CASE UNCHANGED lineVars
  BY <1>1 DEF lineVars, vars, Still, CoreStep, TypeInv, SampledTypes, Controls
<1>2. ASSUME NEW go \in BOOLEAN, NEW freeze \in BOOLEAN,
             WriteControl(go, freeze), UNCHANGED observers
      PROVE  CoreStep
  BY <1>2 DEF WriteControl, Still, CoreStep, Controls
<1> QED BY <1>1, <1>2 DEF LineNext, CoreStep

LEMMA StepTypes ==
  ASSUME TypeInv, CoreStep
  PROVE  TypeInv'
<1>1. ASSUME NEW in \in Inputs, NEW now \in Times, Tick(in, now),
             Observe(in, now)
      PROVE  TypeInv'
  <2>1. SampledTypes'
    BY <1>1 DEF TypeInv, SampledTypes, Tick
  <2>2. ReceiverTypes' /\ MachineTypes'
    BY <1>1, TickReceiverTypes, TickMachineTypes DEF Tick
  <2>3. StatisticsTypes' /\ CycleTypes'
    BY <1>1, TickStatisticsTypes, TickCycleTypes DEF Tick
  <2>4. LatencyTypes' /\ WireTypes'
    BY <1>1, TickLatencyTypes, TickWireTypes DEF Tick
  <2> QED BY <2>1, <2>2, <2>3, <2>4 DEF TypeInv
<1>2. CASE Still /\ control_reg' \in Controls
  <2>1. SampledTypes' /\ ReceiverTypes'
    BY <1>2 DEF Still, Controls, TypeInv, SampledTypes, ReceiverTypes, sampled,
       receiver
  <2>2. MachineTypes' /\ StatisticsTypes' /\ CycleTypes'
    BY <1>2 DEF Still, TypeInv, MachineTypes, StatisticsTypes, CycleTypes,
       machine, statistics, cycles, capture
  <2>3. LatencyTypes' /\ WireTypes'
    BY <1>2 DEF Still, TypeInv, LatencyTypes, WireTypes, latencies, observers
  <2> QED BY <2>1, <2>2, <2>3 DEF TypeInv
<1> QED BY <1>1, <1>2 DEF CoreStep, LineTick

LEMMA TypeInvariant == LineSpec => []TypeInv
<1>1. TypeInv /\ [LineNext]_lineVars => TypeInv'
  BY LineSteps, StepTypes
<1> QED BY <1>1, InitTypes, PTL DEF LineSpec

(***************************************************************************)
(* The registers and counters of traffic_analyzer_gmii.v and of its        *)
(* receiver keep their types, whatever arrives and whenever software       *)
(* writes.                                                                 *)
(***************************************************************************)
THEOREM AnalyzerTypes == LineSpec => []TypeOK
<1>1. TypeInv => TypeOK
  BY DEF TypeInv, TypeOK, SampledTypes, ReceiverTypes, MachineTypes,
     StatisticsTypes, CycleTypes, LatencyTypes, Errors
<1> QED BY <1>1, TypeInvariant, PTL

---------------------------------------------------------------------------
\* Freezing.

LEMMA TickSettle ==
  ASSUME TypeInv, SettleInv, NEW in \in Inputs, NEW now \in Times,
         Tick(in, now), Observe(in, now)
  PROVE  SettleInv'
<1>1. /\ state \in {0, 1} /\ quiet \in 0 .. 3 /\ wire' = in
      /\ quiet' = CASE in.en -> 0
                    [] ~in.en /\ quiet < 3 -> quiet + 1
                    [] OTHER -> quiet
  BY DEF TypeInv, MachineTypes, WireTypes, Observe
<1>2. /\ in.en => quiet' = 0
      /\ quiet' > 0 => ~in.en
      /\ quiet' <= quiet + 1
  BY <1>1
<1>3. /\ state' = 1 => in.en
      /\ frame_complete' => state' = 0 /\ state = 1
      /\ frame_buf_in_wr' => state' = 1 \/ frame_complete'
  <2>1. CASE Clear
    BY <2>1 DEF Clear
  <2>2. CASE BetweenFrames(in, now)
    BY <1>1, <2>2 DEF BetweenFrames, SettleInv, UnderWay
  <2>3. CASE InFrame(in)
    <3>1. ~frame_complete
      BY <2>3 DEF SettleInv, InFrame
    <3> QED BY <1>1, <2>3, <3>1 DEF InFrame
  <2> QED BY <2>1, <2>2, <2>3 DEF Tick
<1>4. frame_complete' => quiet' < 2
  <2>1. state = 1 => quiet = 0
    BY <1>1 DEF SettleInv
  <2>2. state = 1 => quiet' <= 1
    BY <1>1, <2>1
  <2>3. quiet' \in 0 .. 3
    BY <1>1
  <2> QED BY <1>3, <2>2, <2>3
<1>5. /\ update_latency' => frame_complete /\ state = 0
      /\ update_latency_regs' => frame_complete
  <2>1. update_latency_regs => update_latency
    BY DEF TypeInv, LatencyTypes
  <2> QED BY <2>1 DEF Tick, ClearLatency, MeasureLatency, CompareLatency,
             SettleInv, Measures
<1>6. update_latency_regs' => quiet' < 3
  BY <1>1, <1>2, <1>5 DEF SettleInv
<1>7. frame_complete' => ~update_latency'
  BY <1>3, <1>5
<1> QED BY <1>1, <1>2, <1>3, <1>4, <1>6, <1>7 DEF SettleInv, UnderWay

LEMMA TickHold ==
  ASSUME TypeInv, SettleInv, HoldInv, NEW in \in Inputs, NEW now \in Times,
         Tick(in, now), Observe(in, now)
  PROVE  HoldInv'
<1> SUFFICES ASSUME holding'
             PROVE  /\ UnderWay' => freeze_stats_sync'
                    /\ ~frame_buf_in_wr' /\ ~update_latency_regs'
  BY DEF HoldInv
<1>1. run /\ freeze_stats /\ (holding \/ quiet' = 3)
  BY DEF Observe
<1>2. SettleInv'
  BY TickSettle
<1>3. CASE quiet' = 3
  <2>1. ~UnderWay' /\ ~update_latency_regs'
    BY <1>2, <1>3 DEF SettleInv, UnderWay
  <2> QED BY <1>2, <2>1 DEF SettleInv
<1>4. CASE holding
  <2>1. /\ UnderWay => freeze_stats_sync
        /\ ~frame_buf_in_wr /\ ~update_latency_regs
    BY <1>4 DEF HoldInv
  <2>2. CASE BetweenFrames(in, now)
    <3>1. ~frame_complete' /\ (state' = 1 => in.en)
      BY <2>2 DEF BetweenFrames
    <3>2. in.en => freeze_stats_sync' = freeze_stats
      BY <2>2 DEF BetweenFrames, FreezeAtFrameStart
    <3>3. UnderWay' => freeze_stats_sync'
      BY <1>1, <3>1, <3>2 DEF UnderWay
    <3>4. ~frame_buf_in_wr'
      BY <2>1, <2>2 DEF BetweenFrames
    <3> QED BY <1>1, <2>1, <3>3, <3>4
            DEF Tick, ClearLatency, MeasureLatency, CompareLatency, Measures,
                UnderWay
  <2>3. CASE InFrame(in)
    <3>1. freeze_stats_sync /\ freeze_stats_sync' /\ ~frame_buf_in_wr'
      <4>1. freeze_stats_sync
        BY <2>1, <2>3 DEF InFrame, UnderWay
      <4> QED BY <2>3, <4>1 DEF InFrame, Captures
    <3> QED BY <1>1, <2>1, <3>1
            DEF Tick, ClearLatency, MeasureLatency, CompareLatency
  <2> QED BY <1>1, <2>2, <2>3 DEF Tick, Clear
<1> QED BY <1>1, <1>3, <1>4

LEMMA StepSettleHold ==
  ASSUME TypeInv, SettleInv, HoldInv, CoreStep
  PROVE  SettleInv' /\ HoldInv'
<1>1. CASE Still
  BY <1>1 DEF Still, SettleInv, HoldInv, UnderWay, sampled, machine, capture,
     latencies, observers
<1> QED BY <1>1, CoreSteps, TickSettle, TickHold

LEMMA InitSettleHold == LineInit => SettleInv /\ HoldInv
  BY DEF LineInit, Init, SettleInv, HoldInv, UnderWay, Quiet

LEMMA SettleHold == LineSpec => [](TypeInv /\ SettleInv /\ HoldInv)
<1>1. TypeInv /\ SettleInv /\ HoldInv /\ [LineNext]_lineVars
      => SettleInv' /\ HoldInv'
  BY LineSteps, StepSettleHold
<1> QED BY <1>1, InitSettleHold, TypeInvariant, PTL DEF LineSpec

\* What software reads does not change while the core holds still.
LEMMA StepHolds ==
  ASSUME TypeInv, SettleInv, HoldInv, CoreStep, holding, run, freeze_stats
  PROVE  UNCHANGED <<stats_reg, latency_reg, cycles_reg, mem>>
<1>1. CASE Still
  BY <1>1 DEF Still, statistics, capture, cycles, latencies
<1>2. ASSUME NEW in \in Inputs, NEW now \in Times, Tick(in, now)
      PROVE  UNCHANGED <<stats_reg, latency_reg, cycles_reg, mem>>
  <2>1. /\ UnderWay => freeze_stats_sync
        /\ ~frame_buf_in_wr /\ ~update_latency_regs
    BY DEF HoldInv
  <2>2. stats_reg' = stats_reg
    BY <1>2, <2>1 DEF Tick, Clear, BetweenFrames, InFrame, Account, Publish,
       statistics, UnderWay
  <2>3. latency_reg' = latency_reg
    BY <1>2, <2>1 DEF Tick, ClearLatency, MeasureLatency, CompareLatency
  <2>4. cycles_reg' = cycles_reg
    BY <1>2 DEF Tick, Clear, BetweenFrames, InFrame, CountCycle
  <2>5. mem' = mem
    BY <1>2, <2>1 DEF Tick, BufferWrite
  <2> QED BY <2>2, <2>3, <2>4, <2>5
<1> QED BY <1>1, <1>2, CoreSteps

(***************************************************************************)
(* Once freeze_stats is set and the frame under way is complete, no frame  *)
(* that arrives changes what software reads, until it unfreezes or stops   *)
(* the analyzer: freeze_stats_sync stays set for every new frame, nothing  *)
(* is left in the latency pipeline, and the buffer's write enable is off.  *)
(***************************************************************************)
THEOREM FrozenHoldsAlways == LineSpec => FrozenHolds
<1> DEFINE Holds == holding /\ run /\ freeze_stats => UNCHANGED published
<1>1. TypeInv /\ SettleInv /\ HoldInv /\ [LineNext]_lineVars
      => [Holds]_lineVars
  BY LineSteps, StepHolds DEF published
<1> QED BY <1>1, SettleHold, PTL DEF FrozenHolds, LineSpec

---------------------------------------------------------------------------
\* The record of what arrived.

\* What a cycle makes of the record: it is cleared, extended or kept.
LEMMA TickSeen ==
  ASSUME TypeInv, SettleInv, TrackInv, NEW in \in Inputs, NEW now \in Times,
         Tick(in, now), Observe(in, now)
  PROVE  /\ ~run => seen' = <<>> /\ ~partial' /\ state' = 0 /\ ~frame_complete'
         /\ run /\ state = 1 /\ ~in.en =>
              /\ seen' = Append(seen, [frame |-> wire.frame, at |-> rise,
                                       number |-> wire.number])
              /\ state' = 0 /\ frame_complete'
         /\ run /\ ~(state = 1 /\ ~in.en) => seen' = seen /\ ~frame_complete'
         /\ run => (state' = 1 <=> in.en) /\ (partial => partial')
<1>1. state \in {0, 1} /\ (heard <=> state = 1) /\ (state = 1 => wire.en)
  BY DEF TypeInv, MachineTypes, TrackInv, SettleInv
<1>2. CASE ~run
  BY <1>2 DEF Tick, Clear, BetweenFrames, InFrame, Observe
<1>3. CASE run
  <2>1. /\ state = 1 /\ ~in.en =>
             seen' = Append(seen, [frame |-> wire.frame, at |-> rise,
                                   number |-> wire.number])
        /\ ~(state = 1 /\ ~in.en) => seen' = seen
        /\ partial => partial'
    BY <1>1, <1>3 DEF Observe
  <2>2. CASE BetweenFrames(in, now)
    BY <1>1, <1>3, <2>1, <2>2 DEF BetweenFrames
  <2>3. CASE InFrame(in)
    <3>1. ~frame_complete
      BY <2>3 DEF InFrame, SettleInv
    <3> QED BY <1>1, <1>3, <2>1, <2>3, <3>1 DEF InFrame
  <2> QED BY <1>3, <2>2, <2>3 DEF Tick, Clear
<1> QED BY <1>2, <1>3

\* Appending an arrival.
LEMMA AppendArrival ==
  ASSUME NEW s \in Seq(Arrival), NEW e \in Arrival
  PROVE  LET a == Append(s, e)
             n == Len(s) + 1
         IN  /\ a \in Seq(Arrival) /\ Len(a) = n /\ n \in Nat /\ n > 0
             /\ DOMAIN a = (DOMAIN s) \cup {n} /\ n \notin DOMAIN s
             /\ DOMAIN s = 1 .. Len(s) /\ DOMAIN a = 1 .. n
             /\ \A i \in DOMAIN s : a[i] = s[i] /\ s[i] \in Arrival
             /\ a[n] = e
<1> DEFINE a == Append(s, e)
           n == Len(s) + 1
<1>1. /\ a \in Seq(Arrival) /\ Len(a) = n /\ Len(s) \in Nat
      /\ \A i \in 1 .. Len(s) : a[i] = s[i]
      /\ a[n] = e
  BY AppendProperties, LenProperties
<1>2. DOMAIN s = 1 .. Len(s) /\ DOMAIN a = 1 .. Len(a)
  BY <1>1, LenProperties
<1>3. \A i \in 1 .. Len(s) : s[i] \in Arrival
  BY ElementOfSeq
<1> HIDE DEF a
<1>4. /\ DOMAIN a = (DOMAIN s) \cup {n} /\ n \notin DOMAIN s
      /\ DOMAIN a = 1 .. n /\ n \in Nat /\ n > 0
  BY <1>1, <1>2
<1> QED BY <1>1, <1>2, <1>3, <1>4 DEF a

LEMMA NewArrival ==
  ASSUME TypeInv, wire.en
  PROVE  /\ [frame |-> wire.frame, at |-> rise, number |-> wire.number] \in Arrival
         /\ wire.frame \in Frames
         /\ wire.pos \in 0 .. Last(wire.frame) /\ Last(wire.frame) \in Nat
<1>1. /\ wire.frame \in Frames /\ wire.number \in Nat /\ rise \in Time
      /\ wire.pos \in 0 .. Last(wire.frame)
  BY DEF TypeInv, WireTypes, Quiet
<1>2. Last(wire.frame) \in Nat
  BY <1>1, FrameFacts
<1> QED BY <1>1, <1>2 DEF Arrival

LEMMA TickTrack ==
  ASSUME TypeInv, SettleInv, TrackInv, NEW in \in Inputs, NEW now \in Times,
         Tick(in, now), Observe(in, now)
  PROVE  TrackInv'
<1> DEFINE e == [frame |-> wire.frame, at |-> rise, number |-> wire.number]
<1>1. /\ seen \in Seq(Arrival) /\ state \in {0, 1} /\ wire' = in
      /\ (heard <=> state = 1) /\ (state = 1 => wire.en)
      /\ frame_size \in Nat
  BY DEF TypeInv, MachineTypes, TrackInv, SettleInv, Observe
<1>2. heard' <=> state' = 1
  <2>1. heard' <=> run /\ in.en
    BY DEF Observe
  <2>2. /\ ~run => state' # 1
        /\ run => (state' = 1 <=> in.en)
    BY TickSeen
  <2> QED BY <2>1, <2>2
<1>3. seen' \in Seq(Arrival) /\ (frame_complete' => Len(seen') > 0)
  <2>1. CASE ~run
    BY <2>1, TickSeen, EmptySeq
  <2>2. CASE run /\ state = 1 /\ ~in.en
    BY <1>1, <2>2, TickSeen, NewArrival, AppendArrival
  <2>3. CASE run /\ ~(state = 1 /\ ~in.en)
    BY <1>1, <2>3, TickSeen
  <2> QED BY <2>1, <2>2, <2>3
<1>4. state' = 1 /\ ~partial' =>
        /\ frame_size' = wire'.pos /\ timestamp' = rise'
        /\ data' = <<wire'.number, wire'.pos>>
  <2> SUFFICES ASSUME state' = 1, ~partial'
               PROVE  /\ frame_size' = in.pos /\ timestamp' = rise'
                      /\ data' = <<in.number, in.pos>>
    BY <1>1
  <2>1. run /\ in.en /\ ~partial
    BY TickSeen
  <2>2. wire.en => heard
    BY <2>1 DEF Observe
  <2>3. CASE BetweenFrames(in, now)
    <3>1. ~wire.en
      BY <1>1, <2>2, <2>3 DEF BetweenFrames
    <3>2. in.pos = 0 /\ rise' = now
      BY <2>1, <3>1, InputFacts DEF Observe
    <3> QED BY <2>1, <2>3, <3>2 DEF BetweenFrames
  <2>4. CASE InFrame(in)
    <3>1. state = 1 /\ wire.en
      BY <1>1, <2>4 DEF InFrame
    <3>2. /\ frame_size = wire.pos /\ timestamp = rise
      BY <2>1, <3>1 DEF TrackInv
    <3>3. in.pos = wire.pos + 1 /\ rise' = rise
      BY <2>1, <3>1, InputFacts DEF Observe
    <3> QED BY <1>1, <2>1, <2>4, <3>2, <3>3 DEF InFrame
  <2> QED BY <2>1, <2>3, <2>4 DEF Tick, Clear
<1>5. frame_complete' /\ ~partial' =>
        timestamp' = Newest'.at /\ frame_size' = Last(Newest'.frame) + 1
  <2> SUFFICES ASSUME frame_complete', ~partial'
               PROVE  timestamp' = Newest'.at /\ frame_size' = Last(Newest'.frame) + 1
    OBVIOUS
  <2>1. run /\ state = 1 /\ ~in.en /\ wire.en /\ ~partial
    BY <1>1, TickSeen
  <2>2. seen' = Append(seen, e)
    BY <2>1, TickSeen
  <2>3. Newest' = e
    BY <1>1, <2>1, <2>2, NewArrival, AppendArrival DEF Newest
  <2>4. frame_size = wire.pos /\ timestamp = rise /\ wire.pos = Last(wire.frame)
    BY <2>1, InputFacts DEF TrackInv
  <2>5. frame_size' = frame_size + 1 /\ timestamp' = timestamp
    BY <2>1 DEF Tick, Clear, BetweenFrames, InFrame
  <2> QED BY <2>3, <2>4, <2>5
<1> QED BY <1>2, <1>3, <1>4, <1>5 DEF TrackInv, Last

---------------------------------------------------------------------------
\* Counting octets.

\* A frame adds its octets to a set of octets that has none of them.
LEMMA Row ==
  ASSUME NEW n, NEW a \in Int, NEW b \in Int, b >= a - 1
  PROVE  /\ IsFiniteSet({n} \X (a .. b))
         /\ Cardinality({n} \X (a .. b)) = b - a + 1
<1> DEFINE I == a .. b
           N == {n}
<1>1. IsFiniteSet(N) /\ Cardinality(N) = 1
  BY FS_Singleton
<1>2. /\ IsFiniteSet(I)
      /\ Cardinality(I) = IF a > b THEN 0 ELSE b - a + 1
  BY FS_Interval
<1>3. Cardinality(I) = b - a + 1
  BY <1>2
<1> HIDE DEF I, N
<1>4. IsFiniteSet(N \X I) /\ Cardinality(N \X I) = Cardinality(N) * Cardinality(I)
  BY <1>1, <1>2, FS_Product
<1>5. Cardinality(N \X I) = b - a + 1
  BY <1>1, <1>3, <1>4
<1> QED BY <1>4, <1>5 DEF I, N

LEMMA AddOctets ==
  ASSUME NEW S, IsFiniteSet(S), NEW P, IsFiniteSet(P), S \cap P = {}
  PROVE  Cardinality(S \cup P) = Cardinality(S) + Cardinality(P)
<1>1. Cardinality(S \cup P) = Cardinality(S) + Cardinality(P) - Cardinality({})
  BY FS_Union
<1>2. Cardinality({}) = 0
  BY FS_EmptySet
<1>3. Cardinality(S) \in Nat /\ Cardinality(P) \in Nat
  BY FS_CardinalityType
<1> QED BY <1>1, <1>2, <1>3

\* The octets of finitely many frames.
LEMMA ArrivalsOf ==
  ASSUME NEW s \in Seq(Arrival)
  PROVE  /\ DOMAIN s = 1 .. Len(s) /\ Len(s) \in Nat
         /\ \A i \in DOMAIN s : s[i] \in Arrival /\ s[i].frame \in Frames
                                /\ s[i].at \in Time
<1>1. DOMAIN s = 1 .. Len(s) /\ Len(s) \in Nat
  BY LenProperties
<1>2. \A i \in DOMAIN s : s[i] \in Arrival
  BY <1>1, ElementOfSeq
<1>3. \A x \in Arrival : x.frame \in Frames /\ x.at \in Time
  BY DEF Arrival
<1> QED BY <1>1, <1>2, <1>3

LEMMA FiniteOctets ==
  ASSUME NEW s \in Seq(Arrival), NEW S \in SUBSET DOMAIN s
  PROVE  /\ IsFiniteSet(S)
         /\ IsFiniteSet(Octets(s, S)) /\ IsFiniteSet(L2Octets(s, S))
<1>1. IsFiniteSet(S)
  <2>1. DOMAIN s = 1 .. Len(s) /\ Len(s) \in Nat
    BY LenProperties
  <2>2. 1 \in Int /\ Len(s) \in Int
    BY <2>1
  <2>3. IsFiniteSet(1 .. Len(s))
    BY <2>2, FS_Interval
  <2>4. IsFiniteSet(DOMAIN s)
    BY <2>1, <2>3
  <2> QED BY <2>4, FS_Subset
<1>2. \A i \in S : s[i].frame \in Frames
  BY ArrivalsOf
<1>3. IsFiniteSet(Octets(s, S))
  <2> DEFINE F == [i \in S |-> {i} \X (0 .. Last(s[i].frame))]
             T == {{i} \X (0 .. Last(s[i].frame)) : i \in S}
  <2>1. F \in Surjection(S, T)
    BY DEF Surjection
  <2>2. IsFiniteSet(T)
    BY <1>1, <2>1, FS_Surjection
  <2>3. \A X \in T : IsFiniteSet(X)
    <3> SUFFICES ASSUME NEW i \in S
                 PROVE  IsFiniteSet({i} \X (0 .. Last(s[i].frame)))
      OBVIOUS
    <3>1. Last(s[i].frame) \in Nat
      BY <1>2, FrameFacts
    <3>2. 0 \in Int /\ Last(s[i].frame) \in Int /\ Last(s[i].frame) >= 0 - 1
      BY <3>1
    <3> QED BY <3>2, Row
  <2> QED BY <2>2, <2>3, FS_UNION DEF Octets
<1>4. IsFiniteSet(L2Octets(s, S))
  <2> DEFINE F == [i \in S |-> {i} \X (1 .. s[i].frame.octets)]
             T == {{i} \X (1 .. s[i].frame.octets) : i \in S}
  <2>1. F \in Surjection(S, T)
    BY DEF Surjection
  <2>2. IsFiniteSet(T)
    BY <1>1, <2>1, FS_Surjection
  <2>3. \A X \in T : IsFiniteSet(X)
    <3> SUFFICES ASSUME NEW i \in S
                 PROVE  IsFiniteSet({i} \X (1 .. s[i].frame.octets))
      OBVIOUS
    <3>1. s[i].frame.octets \in Nat
      BY <1>2, FrameFacts
    <3>2. /\ 1 \in Int /\ s[i].frame.octets \in Int
          /\ s[i].frame.octets >= 1 - 1
      BY <3>1
    <3> QED BY <3>2, Row
  <2> QED BY <2>2, <2>3, FS_UNION DEF L2Octets
<1> QED BY <1>1, <1>3, <1>4

\* Another frame leaves the earlier ones' octets as they are, and its own add up.
LEMMA OctetsAppend ==
  ASSUME NEW s \in Seq(Arrival), NEW e \in Arrival, NEW S \in SUBSET DOMAIN s
  PROVE  LET a == Append(s, e)
             n == Len(s) + 1
         IN  /\ Octets(a, S) = Octets(s, S)
             /\ L2Octets(a, S) = L2Octets(s, S)
             /\ Cardinality(Octets(a, S \cup {n}))
                  = Cardinality(Octets(s, S)) + (Last(e.frame) + 1)
             /\ Cardinality(L2Octets(a, S \cup {n}))
                  = Cardinality(L2Octets(s, S)) + e.frame.octets
             /\ Cardinality(S \cup {n}) = Cardinality(S) + 1
<1> DEFINE a == Append(s, e)
           n == Len(s) + 1
           O == Octets(s, S)
           L == L2Octets(s, S)
           z == Last(e.frame)
           k == e.frame.octets
<1>1. /\ \A i \in S : a[i] = s[i]
      /\ a[n] = e /\ n \notin S
  BY AppendArrival
<1>2. e.frame \in Frames
  BY DEF Arrival
<1>3. z \in Nat /\ k \in Nat
  BY <1>2, FrameFacts
<1> HIDE DEF a, n
<1>4. Octets(a, S) = O /\ L2Octets(a, S) = L
  BY <1>1 DEF Octets, L2Octets
<1>5. /\ Octets(a, S \cup {n}) = O \cup ({n} \X (0 .. z))
      /\ L2Octets(a, S \cup {n}) = L \cup ({n} \X (1 .. k))
  BY <1>1 DEF Octets, L2Octets
<1>6. IsFiniteSet(S) /\ IsFiniteSet(O) /\ IsFiniteSet(L)
  BY FiniteOctets
<1>7. O \cap ({n} \X (0 .. z)) = {} /\ L \cap ({n} \X (1 .. k)) = {}
  BY <1>1 DEF Octets, L2Octets
<1> HIDE DEF O, L, z, k
<1>8. Cardinality(O \cup ({n} \X (0 .. z))) = Cardinality(O) + (z + 1)
  <2>1. 0 \in Int /\ z \in Int /\ z >= 0 - 1 /\ z - 0 + 1 = z + 1
    BY <1>3
  <2>2. /\ IsFiniteSet({n} \X (0 .. z))
        /\ Cardinality({n} \X (0 .. z)) = z - 0 + 1
    BY <2>1, Row
  <2>3. Cardinality(O \cup ({n} \X (0 .. z)))
          = Cardinality(O) + Cardinality({n} \X (0 .. z))
    BY <1>6, <1>7, <2>2, AddOctets
  <2> QED BY <2>1, <2>2, <2>3
<1>9. Cardinality(L \cup ({n} \X (1 .. k))) = Cardinality(L) + k
  <2>1. 1 \in Int /\ k \in Int /\ k >= 1 - 1 /\ k - 1 + 1 = k
    BY <1>3
  <2>2. /\ IsFiniteSet({n} \X (1 .. k))
        /\ Cardinality({n} \X (1 .. k)) = k - 1 + 1
    BY <2>1, Row
  <2>3. Cardinality(L \cup ({n} \X (1 .. k)))
          = Cardinality(L) + Cardinality({n} \X (1 .. k))
    BY <1>6, <1>7, <2>2, AddOctets
  <2> QED BY <2>1, <2>2, <2>3
<1>10. Cardinality(S \cup {n}) = Cardinality(S) + 1
  BY <1>1, <1>6, FS_AddElement
<1> QED BY <1>4, <1>5, <1>8, <1>9, <1>10 DEF a, n, O, L, z, k

---------------------------------------------------------------------------
\* Counting cycles.

LEMMA ModUnique ==
  ASSUME NEW m \in Nat \ {0}, NEW q \in Int, NEW r \in 0 .. m - 1
  PROVE  (m * q + r) % m = r
OBVIOUS

LEMMA ModNext ==
  ASSUME NEW m \in Nat \ {0}, NEW x \in Nat
  PROVE  (x + 1) % m = ((x % m) + 1) % m
<1> DEFINE q == x \div m
           r == x % m
<1>1. q \in Int /\ r \in 0 .. m - 1 /\ x = m * q + r
  OBVIOUS
<1> HIDE DEF q, r
<1>2. CASE r + 1 < m
  <2>1. x + 1 = m * q + (r + 1) /\ r + 1 \in 0 .. m - 1
    BY <1>1, <1>2
  <2>2. (x + 1) % m = r + 1
    BY <1>1, <2>1, ModUnique
  <2>3. (r + 1) % m = r + 1
    BY <1>1, <1>2
  <2> QED BY <2>2, <2>3 DEF r
<1>3. CASE r + 1 >= m
  <2>1. x + 1 = m * (q + 1) + 0 /\ q + 1 \in Int /\ r + 1 = m
    BY <1>1, <1>3
  <2>2. (x + 1) % m = 0
    BY <1>1, <2>1, ModUnique
  <2>3. (r + 1) % m = 0
    BY <2>1
  <2> QED BY <2>2, <2>3 DEF r
<1> QED BY <1>1, <1>2, <1>3

LEMMA ModShift ==
  ASSUME NEW m \in Nat \ {0}, NEW x \in Nat
  PROVE  (m + x) % m = x % m
<1> DEFINE q == x \div m
           r == x % m
<1>1. q \in Int /\ r \in 0 .. m - 1 /\ x = m * q + r
  OBVIOUS
<1> HIDE DEF q, r
<1>2. m + x = m * (q + 1) + r /\ q + 1 \in Int
  BY <1>1
<1>3. (m + x) % m = r
  BY <1>1, <1>2, ModUnique
<1> QED BY <1>3 DEF r

\* One more idle cycle, or one more busy one.
LEMMA ModCount ==
  ASSUME NEW m \in Nat \ {0}, NEW i \in 0 .. m - 1, NEW b \in Nat
  PROVE  /\ (((i + 1) % m) + b) % m = (((i + b) % m) + 1) % m
         /\ (i + (b + 1)) % m = (((i + b) % m) + 1) % m
<1>1. i + b \in Nat /\ i + (b + 1) = (i + b) + 1
  OBVIOUS
<1>2. ((i + b) + 1) % m = (((i + b) % m) + 1) % m
  BY <1>1, ModNext
<1>3. CASE i + 1 < m
  <2>1. ((i + 1) % m) + b = (i + b) + 1
    BY <1>3
  <2> QED BY <1>1, <1>2, <2>1
<1>4. CASE i + 1 = m
  <2>1. ((i + 1) % m) + b = b /\ (i + b) + 1 = m + b
    BY <1>4
  <2>2. (m + b) % m = b % m
    BY ModShift
  <2> QED BY <1>1, <1>2, <2>1, <2>2
<1> QED BY <1>1, <1>3, <1>4

\* The cycles that belong to a frame.
Busy == Cardinality(Octets(seen, DOMAIN seen))
        + IF heard THEN wire.pos + 1 ELSE 0

LEMMA TickBusy ==
  ASSUME TypeInv, SettleInv, TrackInv, NEW in \in Inputs, NEW now \in Times,
         Tick(in, now), Observe(in, now), ~partial'
  PROVE  /\ Busy \in Nat
         /\ ~run => Busy' = 0
         /\ run => Busy' = IF in.en THEN Busy + 1 ELSE Busy
<1> DEFINE C == Cardinality(Octets(seen, DOMAIN seen))
           e == [frame |-> wire.frame, at |-> rise, number |-> wire.number]
<1>1. /\ seen \in Seq(Arrival) /\ state \in {0, 1} /\ wire' = in
      /\ (heard <=> state = 1) /\ (state = 1 => wire.en)
      /\ (heard' <=> run /\ in.en)
  BY DEF TypeInv, MachineTypes, TrackInv, SettleInv, Observe
<1>2. C \in Nat
  <2>1. IsFiniteSet(Octets(seen, DOMAIN seen))
    BY <1>1, FiniteOctets
  <2> QED BY <2>1, FS_CardinalityType
<1>3. wire.en => wire.pos \in Nat
  BY NewArrival
<1>4. Busy \in Nat
  BY <1>1, <1>2, <1>3 DEF Busy
<1>5. CASE ~run
  <2>1. seen' = <<>> /\ ~heard'
    BY <1>1, <1>5, TickSeen
  <2>2. Octets(seen', DOMAIN seen') = {}
    BY <2>1 DEF Octets
  <2>3. Cardinality(Octets(seen', DOMAIN seen')) = 0
    BY <2>2, FS_EmptySet
  <2>4. Busy' = Cardinality(Octets(seen', DOMAIN seen')) + 0
    BY <2>1 DEF Busy, Octets, Last
  <2> QED BY <1>4, <1>5, <2>3, <2>4
<1>6. CASE run /\ in.en
  <2>1. seen' = seen /\ heard'
    BY <1>1, <1>6, TickSeen
  <2>2. Busy' = C + (in.pos + 1)
    BY <1>1, <2>1 DEF Busy, Octets, Last
  <2>3. CASE wire.en
    <3>1. heard
      BY <1>6, <2>3 DEF Observe
    <3>2. in.pos = wire.pos + 1
      BY <1>6, <2>3, InputFacts
    <3>3. Busy = C + (wire.pos + 1)
      BY <3>1 DEF Busy
    <3> QED BY <1>2, <1>3, <1>4, <1>6, <2>2, <2>3, <3>2, <3>3
  <2>4. CASE ~wire.en
    <3>1. ~heard /\ in.pos = 0
      BY <1>1, <1>6, <2>4, InputFacts
    <3>2. Busy = C + 0
      BY <3>1 DEF Busy
    <3> QED BY <1>2, <1>4, <1>6, <2>2, <3>1, <3>2
  <2> QED BY <2>3, <2>4
<1>7. CASE run /\ ~in.en
  <2>1. ~heard'
    BY <1>1, <1>7
  <2>2. Busy' = Cardinality(Octets(seen', DOMAIN seen')) + 0
    BY <2>1 DEF Busy, Octets, Last
  <2>3. CASE heard
    <3>1. seen' = Append(seen, e) /\ wire.en
      BY <1>1, <1>7, <2>3, TickSeen
    <3>2. e \in Arrival /\ wire.pos = Last(wire.frame)
      BY <1>7, <3>1, NewArrival, InputFacts
    <3>3. /\ DOMAIN Append(seen, e) = (DOMAIN seen) \cup {Len(seen) + 1}
          /\ DOMAIN seen \in SUBSET DOMAIN seen
      BY <1>1, <3>2, AppendArrival
    <3>4. Cardinality(Octets(Append(seen, e), (DOMAIN seen) \cup {Len(seen) + 1}))
            = C + (Last(e.frame) + 1)
      BY <1>1, <3>2, <3>3, OctetsAppend
    <3>5. Cardinality(Octets(seen', DOMAIN seen')) = C + (wire.pos + 1)
      BY <3>1, <3>2, <3>3, <3>4
    <3>6. Busy = C + (wire.pos + 1)
      BY <2>3 DEF Busy
    <3> QED BY <1>2, <1>3, <1>4, <1>7, <2>2, <3>1, <3>5, <3>6
  <2>4. CASE ~heard
    <3>1. seen' = seen
      BY <1>1, <1>7, <2>4, TickSeen
    <3>2. Busy = C + 0
      BY <2>4 DEF Busy
    <3>3. Busy' = C + 0
      BY <2>2, <3>1
    <3> QED BY <1>2, <1>4, <1>7, <3>2, <3>3
  <2> QED BY <2>3, <2>4
<1> QED BY <1>4, <1>5, <1>6, <1>7

CycleInv == ~partial => (octets_idle + Busy) % CycleWrap = octets_total

LEMMA TickCycles ==
  ASSUME TypeInv, SettleInv, TrackInv, CycleInv, NEW in \in Inputs,
         NEW now \in Times, Tick(in, now), Observe(in, now)
  PROVE  CycleInv'
<1> SUFFICES ASSUME ~partial'
             PROVE  (octets_idle' + Busy') % CycleWrap = octets_total'
  BY DEF CycleInv
<1>1. /\ Busy \in Nat
      /\ ~run => Busy' = 0
      /\ run => Busy' = IF in.en THEN Busy + 1 ELSE Busy
  BY TickBusy
<1>2. /\ octets_idle \in 0 .. CycleWrap - 1
      /\ octets_total \in 0 .. CycleWrap - 1 /\ CycleWrap \in Nat \ {0}
  BY AnalyzerAssumption DEF TypeInv, CycleTypes
<1>3. CASE ~run
  <2>1. octets_idle' = 0 /\ octets_total' = 0
    BY <1>3 DEF Tick, Clear, BetweenFrames, InFrame
  <2>2. 0 % CycleWrap = 0
    BY <1>2
  <2> QED BY <1>1, <1>3, <2>1, <2>2
<1>4. CASE run
  <2>1. /\ octets_total' = (octets_total + 1) % CycleWrap
        /\ octets_idle' = IF ~in.en THEN (octets_idle + 1) % CycleWrap
                                    ELSE octets_idle
    BY <1>4 DEF Tick, Clear, BetweenFrames, InFrame, CountCycle, IdleCycle
  <2>2. ~partial
    BY <1>4, TickSeen
  <2>3. octets_total = (octets_idle + Busy) % CycleWrap
    BY <2>2 DEF CycleInv
  <2>4. /\ (((octets_idle + 1) % CycleWrap) + Busy) % CycleWrap
             = (((octets_idle + Busy) % CycleWrap) + 1) % CycleWrap
        /\ (octets_idle + (Busy + 1)) % CycleWrap
             = (((octets_idle + Busy) % CycleWrap) + 1) % CycleWrap
    BY <1>1, <1>2, ModCount
  <2>5. CASE in.en
    BY <1>1, <1>4, <2>1, <2>3, <2>4, <2>5
  <2>6. CASE ~in.en
    BY <1>1, <1>4, <2>1, <2>3, <2>4, <2>6
  <2> QED BY <2>5, <2>6
<1> QED BY <1>3, <1>4

LEMMA StepTrack ==
  ASSUME TypeInv, SettleInv, TrackInv, CoreStep
  PROVE  TrackInv'
<1>1. CASE Still
  BY <1>1 DEF Still, TrackInv, Newest, Last, machine, capture, observers
<1> QED BY <1>1, CoreSteps, TickTrack

LEMMA InitTrack == LineInit => TrackInv
<1>1. <<>> \in Seq(Arrival)
  BY EmptySeq
<1> QED BY <1>1 DEF LineInit, Init, TrackInv

LEMMA TrackInvariant ==
  LineSpec => [](TypeInv /\ SettleInv /\ HoldInv /\ TrackInv)
<1>1. TypeInv /\ SettleInv /\ TrackInv /\ [LineNext]_lineVars => TrackInv'
  BY LineSteps, StepTrack
<1> QED BY <1>1, InitTrack, SettleHold, PTL DEF LineSpec

(***************************************************************************)
(* The idle counter and the octets of the frames that arrived add up to    *)
(* the cycle counter, modulo the width of the counters and for any         *)
(* interleaving of frames, stops and starts: no cycle is counted twice and *)
(* none is missed at either end of a frame.                                *)
(***************************************************************************)
THEOREM CyclesAccountedAlways == LineSpec => []CyclesAccounted
<1>1. LineInit => CycleInv
  <2> SUFFICES ASSUME LineInit PROVE CycleInv
    OBVIOUS
  <2>1. /\ octets_idle = 0 /\ octets_total = 0 /\ ~heard /\ seen = <<>>
        /\ CycleWrap \in Nat \ {0}
    BY AnalyzerAssumption DEF LineInit, Init
  <2>2. Octets(seen, DOMAIN seen) = {}
    BY <2>1 DEF Octets
  <2>3. Busy = 0
    BY <2>1, <2>2, FS_EmptySet DEF Busy
  <2> QED BY <2>1, <2>3 DEF CycleInv
<1>2. TypeInv /\ SettleInv /\ TrackInv /\ CycleInv /\ [LineNext]_lineVars
      => CycleInv'
  <2> SUFFICES ASSUME TypeInv, SettleInv, TrackInv, CycleInv,
                      [LineNext]_lineVars
               PROVE  CycleInv'
    OBVIOUS
  <2>1. CASE Still
    <3>1. Busy' = Busy
      BY <2>1 DEF Still, Busy, Octets, Last, observers
    <3> QED BY <2>1, <3>1 DEF Still, CycleInv, cycles, observers
  <2> QED BY <2>1, LineSteps, CoreSteps, TickCycles
<1>3. CycleInv => CyclesAccounted
  BY DEF CycleInv, CyclesAccounted, Busy
<1> QED BY <1>1, <1>2, <1>3, TrackInvariant, PTL DEF LineSpec

---------------------------------------------------------------------------
\* The receiver.

LEMMA PreambleFacts ==
  ASSUME NEW f \in Frames
  PROVE  PreambleGood(f) <=>
           /\ Len(f.preamble) - 1 \in EarliestSfd .. LatestSfd
           /\ \A i \in 1 .. Len(f.preamble) - 1 : f.preamble[i] = "55"
           /\ f.preamble[Len(f.preamble)] = "d5"
<1> DEFINE q == f.preamble
           n == Len(f.preamble)
<1>1. n \in Nat /\ n > 0 /\ q \in Seq(Octet)
  BY FrameFacts
<1>2. q \in [1 .. n -> Octet] /\ DOMAIN q = 1 .. n
  BY <1>1, LenProperties
<1> HIDE DEF q, n
<1> USE AnalyzerAssumption
<1>3. ASSUME NEW k \in EarliestSfd .. LatestSfd,
             q = [i \in 1 .. k + 1 |-> IF i <= k THEN "55" ELSE "d5"]
      PROVE  /\ n - 1 \in EarliestSfd .. LatestSfd
             /\ \A i \in 1 .. n - 1 : q[i] = "55"
             /\ q[n] = "d5"
  <2>1. k \in Nat
    OBVIOUS
  <2>2. DOMAIN q = 1 .. k + 1
    BY <1>3
  <2>3. n = k + 1
    <3>1. n \in 1 .. k + 1 /\ k + 1 \in 1 .. n
      BY <1>1, <1>2, <2>1, <2>2
    <3> QED BY <1>1, <2>1, <3>1
  <2> QED BY <1>3, <2>1, <2>3
<1>4. ASSUME n - 1 \in EarliestSfd .. LatestSfd,
             \A i \in 1 .. n - 1 : q[i] = "55",
             q[n] = "d5"
      PROVE  \E k \in EarliestSfd .. LatestSfd :
               q = [i \in 1 .. k + 1 |-> IF i <= k THEN "55" ELSE "d5"]
  <2>1. \A i \in 1 .. n : q[i] = IF i <= n - 1 THEN "55" ELSE "d5"
    BY <1>1, <1>4
  <2>2. (n - 1) + 1 = n
    BY <1>1
  <2>3. q = [i \in 1 .. (n - 1) + 1 |-> IF i <= n - 1 THEN "55" ELSE "d5"]
    BY <1>2, <2>1, <2>2
  <2> QED BY <1>4, <2>3
<1>5. PreambleGood(f) <=>
        \E k \in EarliestSfd .. LatestSfd :
          q = [i \in 1 .. k + 1 |-> IF i <= k THEN "55" ELSE "d5"]
  BY DEF PreambleGood, q
<1> QED BY <1>3, <1>4, <1>5 DEF q, n

\* The octets of a frame's preamble.
LEMMA OctetFacts ==
  ASSUME NEW f \in Frames, NEW p \in Nat
  PROVE  /\ p < Len(f.preamble) => OctetAt(f, p) = f.preamble[p + 1]
         /\ ~(p < Len(f.preamble)) => OctetAt(f, p) = "other"
         /\ OctetAt(f, p) = "d5" => p + 1 = Len(f.preamble)
         /\ OctetAt(f, p) = "55" => p + 1 <= Len(f.preamble)
<1>1. Len(f.preamble) \in Nat
  BY FrameFacts
<1>2. \A i \in 1 .. Len(f.preamble) - 1 : f.preamble[i] # "d5"
  BY AnalyzerAssumption
<1>3. /\ p < Len(f.preamble) => OctetAt(f, p) = f.preamble[p + 1]
      /\ ~(p < Len(f.preamble)) => OctetAt(f, p) = "other"
  BY DEF OctetAt
<1>4. OctetAt(f, p) = "d5" => p + 1 = Len(f.preamble)
  <2> SUFFICES ASSUME OctetAt(f, p) = "d5" PROVE p + 1 = Len(f.preamble)
    OBVIOUS
  <2>1. p < Len(f.preamble) /\ f.preamble[p + 1] = "d5"
    BY <1>3
  <2>2. ~(p + 1 \in 1 .. Len(f.preamble) - 1)
    BY <1>2, <2>1
  <2> QED BY <1>1, <2>1, <2>2
<1>5. OctetAt(f, p) = "55" => p + 1 <= Len(f.preamble)
  BY <1>1, <1>3
<1> QED BY <1>3, <1>4, <1>5

LEMMA FirstOctet ==
  ASSUME TypeInv, NEW in \in Inputs, Receiver(in), in.en, ~wire.en,
         rx_state = 0
  PROVE  ReceiverAt(in.frame, in.pos)' /\ rx_state' # 2
<1> DEFINE f == in.frame
<1>1. f \in Frames /\ in.pos = 0
  BY InputFacts
<1>2. Len(f.preamble) \in Nat /\ Len(f.preamble) > 0
  BY <1>1, FrameFacts
<1>3. OctetAt(f, 0) = f.preamble[1]
  BY <1>2 DEF OctetAt
<1>4. /\ rx_state' = IF f.preamble[1] = "55" THEN 1 ELSE 3
      /\ preamble_index' = 1 /\ data_index' = 0
      /\ ~preamble_ok' /\ ~crc_ok' /\ ~testframe_match'
  BY <1>1, <1>3 DEF Receiver, RxIdle, RxPreamble, RxOctet, RxEnd, RxSkip,
     ParserClear
<1>5. f.preamble[1] = "55" => Fives(f, 0)
  BY <1>2 DEF Fives
<1>6. f.preamble[1] # "55" => ~PreambleGood(f)
  <2>1. PreambleGood(f) => 1 \in 1 .. Len(f.preamble) - 1
    BY <1>1, <1>2, PreambleFacts, AnalyzerAssumption
  <2> QED BY <1>1, <2>1, PreambleFacts
<1>7. 0 < LatestSfd
  BY AnalyzerAssumption
<1>8. rx_state' # 0 /\ rx_state' # 2
  BY <1>4
<1>9. rx_state' = 1 => /\ Fives(f, 0) /\ 0 < LatestSfd
                       /\ preamble_index' = 0 + 1 /\ data_index' = 0
  BY <1>4, <1>5, <1>7
<1>10. rx_state' = 3 => ~PreambleGood(f)
  BY <1>4, <1>6
<1> QED BY <1>1, <1>4, <1>8, <1>9, <1>10
        DEF ReceiverAt, Fives, PreambleGood, Last

\* The octets that follow it.
LEMMA PreambleOctet ==
  ASSUME TypeInv, NEW in \in Inputs, Receiver(in), in.en, wire.en,
         rx_state = 1, ReceiverAt(wire.frame, wire.pos)
  PROVE  /\ ReceiverAt(in.frame, in.pos)'
         /\ rx_state' = 2 => data_index' = 0
<1> DEFINE f == in.frame
           p == wire.pos
           n == Len(f.preamble)
           o == OctetAt(f, p + 1)
<1>1. f \in Frames /\ in.pos = p + 1 /\ f = wire.frame /\ p \in Nat
  <2>1. f \in Frames /\ in.pos = p + 1 /\ f = wire.frame
    BY InputFacts
  <2>2. p \in Nat
    BY NewArrival
  <2> QED BY <2>1, <2>2
<1>2. n \in Nat /\ n > 0
  BY <1>1, FrameFacts
<1>3. /\ p < n /\ (\A i \in 1 .. p + 1 : f.preamble[i] = "55")
      /\ p < LatestSfd /\ preamble_index = p + 1 /\ data_index = 0
      /\ ~preamble_ok /\ ~crc_ok /\ ~testframe_match
  BY <1>1 DEF ReceiverAt, Fives
<1>4. /\ rx_state' = CASE o = "d5" /\ p + 1 >= EarliestSfd -> 2
                       [] o = "55" /\ p + 1 < LatestSfd -> 1
                       [] OTHER -> 3
      /\ preamble_ok' <=> o = "d5" /\ p + 1 >= EarliestSfd
      /\ preamble_index' = preamble_index + 1
      /\ crc_ok' = crc_ok /\ data_index' = data_index
      /\ testframe_match' = testframe_match
  <2>1. RxPreamble(in)
    BY DEF Receiver, RxIdle, RxOctet, RxEnd, RxSkip
  <2>2. /\ SfdAccepted(in) <=> o = "d5" /\ p + 1 >= EarliestSfd
        /\ PreambleGoesOn(in) <=> o = "55" /\ p + 1 < LatestSfd
    BY <1>1, <1>3 DEF SfdAccepted, PreambleGoesOn
  <2>3. rx_state' = CASE SfdAccepted(in) -> 2
                      [] PreambleGoesOn(in) -> 1
                      [] OTHER -> 3
    BY <2>1 DEF RxPreamble
  <2>4. /\ preamble_ok' <=> SfdAccepted(in)
        /\ preamble_index' = preamble_index + 1
        /\ crc_ok' = crc_ok /\ data_index' = data_index
        /\ testframe_match' = testframe_match
    BY <1>3, <2>1 DEF RxPreamble
  <2> QED BY <2>2, <2>3, <2>4
<1>5. p + 1 \in Nat
  BY <1>1
<1>6. /\ p + 1 < n => o = f.preamble[p + 2]
      /\ ~(p + 1 < n) => o = "other"
      /\ o = "d5" => p + 2 = n
      /\ o = "55" => p + 2 <= n
  <2>1. /\ p + 1 < n => o = f.preamble[(p + 1) + 1]
        /\ ~(p + 1 < n) => o = "other"
        /\ o = "d5" => (p + 1) + 1 = n
        /\ o = "55" => (p + 1) + 1 <= n
    BY <1>1, <1>5, OctetFacts
  <2>2. (p + 1) + 1 = p + 2
    BY <1>1
  <2> QED BY <2>1, <2>2
<1> HIDE DEF o
<1>7. CASE o = "d5" /\ p + 1 >= EarliestSfd
  <2>1. n = p + 2 /\ f.preamble[n] = "d5" /\ n - 1 = p + 1
    BY <1>1, <1>2, <1>6, <1>7
  <2>2. PreambleGood(f)
    <3>1. n - 1 \in EarliestSfd .. LatestSfd
      BY <1>1, <1>3, <1>7, <2>1, AnalyzerAssumption
    <3> QED BY <1>1, <1>3, <2>1, <3>1, PreambleFacts
  <2>3. /\ rx_state' = 2 /\ preamble_ok' /\ ~crc_ok' /\ data_index' = 0
        /\ ~testframe_match'
    BY <1>3, <1>4, <1>7
  <2>4. /\ (p + 1) + 1 >= n /\ data_index' = (p + 1) + 1 - n
        /\ ~(data_index' > 0) /\ ~(data_index' > TypeOctet)
    BY <1>1, <1>2, <2>1, <2>3, AnalyzerAssumption
  <2>5. rx_state' # 0 /\ rx_state' # 1 /\ rx_state' # 3
    BY <2>3
  <2> QED BY <1>1, <2>2, <2>3, <2>4, <2>5
          DEF ReceiverAt, Fives, PreambleGood, Last
<1>8. CASE o = "55" /\ p + 1 < LatestSfd
  <2>1. Fives(f, p + 1)
    <3>1. p + 1 < n
      BY <1>6, <1>8
    <3>2. \A i \in 1 .. (p + 1) + 1 : i \in 1 .. p + 1 \/ i = p + 2
      BY <1>1
    <3> QED BY <1>3, <1>6, <1>8, <3>1, <3>2 DEF Fives
  <2>2. /\ rx_state' = 1 /\ ~preamble_ok' /\ ~crc_ok' /\ ~testframe_match'
        /\ data_index' = 0 /\ preamble_index' = (p + 1) + 1
    BY <1>3, <1>4, <1>8
  <2>3. rx_state' # 0 /\ rx_state' # 2 /\ rx_state' # 3
    BY <2>2
  <2> QED BY <1>1, <1>8, <2>1, <2>2, <2>3
          DEF ReceiverAt, Fives, PreambleGood, Last
<1>9. CASE ~(o = "d5" /\ p + 1 >= EarliestSfd) /\ ~(o = "55" /\ p + 1 < LatestSfd)
  <2>1. ~PreambleGood(f)
    <3> SUFFICES ASSUME PreambleGood(f) PROVE FALSE
      OBVIOUS
    <3>1. /\ n - 1 \in EarliestSfd .. LatestSfd
          /\ \A i \in 1 .. n - 1 : f.preamble[i] = "55"
          /\ f.preamble[n] = "d5"
      BY <1>1, PreambleFacts
    <3>2. p + 1 # n
      BY <1>1, <1>3, <3>1
    <3>3. p + 1 < n /\ o = f.preamble[p + 2]
      BY <1>1, <1>2, <1>3, <1>6, <3>2
    <3>4. CASE p + 2 = n
      BY <1>1, <1>2, <1>9, <3>1, <3>3, <3>4, AnalyzerAssumption
    <3>5. CASE p + 2 < n
      <4>1. p + 2 \in 1 .. n - 1
        BY <1>1, <1>2, <3>5
      <4>2. o = "55"
        BY <3>1, <3>3, <4>1
      <4> QED BY <1>1, <1>2, <1>9, <3>1, <3>5, <4>2, AnalyzerAssumption
    <3> QED BY <1>1, <1>2, <3>3, <3>4, <3>5
  <2>2. rx_state' = 3 /\ ~preamble_ok' /\ ~crc_ok' /\ ~testframe_match'
    BY <1>3, <1>4, <1>9
  <2>3. rx_state' # 0 /\ rx_state' # 1 /\ rx_state' # 2
    BY <2>2
  <2> QED BY <1>1, <2>1, <2>2, <2>3
          DEF ReceiverAt, Fives, PreambleGood, Last
<1> QED BY <1>7, <1>8, <1>9

LEMMA FrameOctet ==
  ASSUME TypeInv, NEW in \in Inputs, Receiver(in), in.en, wire.en,
         rx_state \in {2, 3}, ReceiverAt(wire.frame, wire.pos)
  PROVE  /\ ReceiverAt(in.frame, in.pos)' /\ rx_state' = rx_state
         /\ rx_state = 2 => data_index' = data_index + 1
<1> DEFINE f == in.frame
           p == wire.pos
           n == Len(f.preamble)
<1>1. f \in Frames /\ in.pos = p + 1 /\ f = wire.frame /\ p \in Nat
  <2>1. f \in Frames /\ in.pos = p + 1 /\ f = wire.frame
    BY InputFacts
  <2>2. p \in Nat
    BY NewArrival
  <2> QED BY <2>1, <2>2
<1>2. n \in Nat /\ n > 0 /\ TypeOctet \in Nat /\ data_index \in Nat
  BY <1>1, FrameFacts, AnalyzerAssumption DEF TypeInv, ReceiverTypes
<1>3. CASE rx_state = 2
  <2>1. /\ PreambleGood(f) /\ preamble_ok /\ ~crc_ok
        /\ p + 1 >= n /\ data_index = p + 1 - n
        /\ testframe_match <=> f.test /\ data_index > TypeOctet
    BY <1>1, <1>3 DEF ReceiverAt
  <2>2. /\ rx_state' = 2 /\ preamble_ok' = preamble_ok /\ crc_ok' = crc_ok
        /\ data_index' = data_index + 1
        /\ testframe_match' <=>
             testframe_match \/ (data_index = TypeOctet /\ f.test)
    <3>1. RxOctet(in)
      BY <1>3 DEF Receiver, RxIdle, RxPreamble, RxEnd, RxSkip
    <3>2. testframe_match' <=>
            testframe_match \/ (data_index = TypeOctet /\ in.frame.test)
      BY <3>1 DEF RxOctet, ParserOctet
    <3> QED BY <1>3, <3>1, <3>2 DEF RxOctet, ParserOctet
  <2>3. history' = [crc |-> f.good /\ in.pos = Last(f), seq |-> f.seq,
                    sent |-> f.sent]
    BY <1>3 DEF Receiver, RxIdle, RxPreamble, RxOctet, RxEnd, RxSkip
  <2>4. /\ (p + 1) + 1 >= n /\ data_index' = (p + 1) + 1 - n
        /\ data_index' > TypeOctet <=>
             data_index > TypeOctet \/ data_index = TypeOctet
    <3>1. /\ p \in Nat /\ n \in Nat /\ TypeOctet \in Nat /\ data_index \in Nat
          /\ p + 1 >= n /\ data_index = p + 1 - n
          /\ data_index' = data_index + 1
      BY <1>1, <1>2, <2>1, <2>2
    <3> HIDE DEF p, n
    <3> QED BY <3>1
  <2>5. testframe_match' <=> f.test /\ data_index' > TypeOctet
    BY <2>1, <2>2, <2>4
  <2>6. rx_state' # 0 /\ rx_state' # 1 /\ rx_state' # 3
    BY <2>2
  <2> QED BY <1>1, <1>3, <2>1, <2>2, <2>3, <2>4, <2>5, <2>6
          DEF ReceiverAt, Fives, PreambleGood, Last
<1>4. CASE rx_state = 3
  <2>1. ~PreambleGood(f) /\ ~preamble_ok /\ ~crc_ok /\ ~testframe_match
    BY <1>1, <1>4 DEF ReceiverAt
  <2>2. /\ rx_state' = 3 /\ preamble_ok' = preamble_ok /\ crc_ok' = crc_ok
        /\ testframe_match' = testframe_match
    BY <1>4 DEF Receiver, RxIdle, RxPreamble, RxOctet, RxEnd, RxSkip
  <2>3. rx_state' # 0 /\ rx_state' # 1 /\ rx_state' # 2
    BY <2>2
  <2> QED BY <1>1, <1>4, <2>1, <2>2, <2>3
          DEF ReceiverAt, Fives, PreambleGood, Last
<1> QED BY <1>3, <1>4

(***************************************************************************)
(* The histories of the CRC checker and of the parser are not cleared      *)
(* between frames, so the verdict on a frame that ends with its start      *)
(* delimiter is that of an earlier one.  The other frames are judged by    *)
(* what they carry.                                                        *)
(***************************************************************************)
NoneEmpty == \A f \in Frames : PreambleGood(f) => f.octets > 0

LEMMA FrameEnd ==
  ASSUME TypeInv, NoneEmpty, NEW in \in Inputs, Receiver(in), ~in.en, wire.en,
         ReceiverAt(wire.frame, wire.pos)
  PROVE  LET f == wire.frame
         IN  /\ rx_state' = 0
             /\ PreambleGood(f) <=> rx_state = 2
             /\ PreambleGood(f) => data_index = f.octets
             /\ preamble_ok' <=> PreambleGood(f)
             /\ crc_ok' <=> PreambleGood(f) /\ f.good
             /\ testframe_match' <=> PreambleGood(f) /\ f.test
             /\ PreambleGood(f) => parsed' = [seq |-> f.seq, sent |-> f.sent]
<1> DEFINE f == wire.frame
           p == wire.pos
           n == Len(f.preamble)
<1>1. f \in Frames /\ p = Last(f)
  BY InputFacts, NewArrival
<1>2. /\ n \in Nat /\ n > 0 /\ TypeOctet \in Nat /\ data_index \in Nat
      /\ f.octets \in Nat /\ p = n + f.octets - 1
  BY <1>1, FrameFacts, AnalyzerAssumption DEF TypeInv, ReceiverTypes
<1>3. rx_state \in {1, 2, 3}
  BY DEF ReceiverAt, TypeInv, ReceiverTypes
<1>4. CASE rx_state = 1
  <2>1. /\ p < n /\ (\A i \in 1 .. p + 1 : f.preamble[i] = "55")
        /\ ~preamble_ok /\ ~crc_ok /\ ~testframe_match
    BY <1>4 DEF ReceiverAt, Fives
  <2>2. n \in 1 .. p + 1
    BY <1>2, <2>1
  <2>3. ~PreambleGood(f)
    BY <1>1, <2>1, <2>2, PreambleFacts
  <2>4. RxPreamble(in)
    BY <1>4 DEF Receiver, RxIdle, RxOctet, RxEnd, RxSkip
  <2>5. /\ rx_state' = 0 /\ ~preamble_ok' /\ ~crc_ok' /\ ~testframe_match'
    <3>1. ~SfdAccepted(in) /\ ~PreambleGoesOn(in)
      BY DEF SfdAccepted, PreambleGoesOn
    <3>2. rx_state' = 0
      BY <2>4, <3>1 DEF RxPreamble
    <3>3. (preamble_ok' <=> preamble_ok) /\ (crc_ok' <=> crc_ok)
          /\ (testframe_match' <=> testframe_match)
      BY <2>4, <3>1 DEF RxPreamble
    <3> QED BY <2>1, <3>2, <3>3
  <2> QED BY <1>4, <2>3, <2>5
<1>5. CASE rx_state = 2
  <2>1. /\ PreambleGood(f) /\ preamble_ok /\ ~crc_ok
        /\ p + 1 >= n /\ data_index = p + 1 - n
        /\ testframe_match <=> f.test /\ data_index > TypeOctet
        /\ data_index > 0 =>
             history = [crc |-> f.good /\ p = Last(f), seq |-> f.seq,
                        sent |-> f.sent]
    BY <1>5 DEF ReceiverAt
  <2>2. data_index = f.octets /\ data_index > 0
    BY <1>1, <1>2, <2>1 DEF NoneEmpty
  <2>3. history = [crc |-> f.good /\ p = Last(f), seq |-> f.seq,
                   sent |-> f.sent]
    BY <2>1, <2>2
  <2>4. (history.crc <=> f.good) /\ history.seq = f.seq /\ history.sent = f.sent
    BY <1>1, <2>3
  <2>5. f.test => f.octets > TypeOctet
    BY <1>1, AnalyzerAssumption
  <2>6. testframe_match <=> f.test
    BY <2>1, <2>2, <2>5
  <2>7. RxEnd(in)
    BY <1>5 DEF Receiver, RxIdle, RxOctet, RxPreamble, RxSkip
  <2>8. /\ rx_state' = 0 /\ (preamble_ok' <=> preamble_ok)
        /\ (crc_ok' <=> crc_ok \/ history.crc)
        /\ (testframe_match' <=> testframe_match)
        /\ parsed' = [seq |-> history.seq, sent |-> history.sent]
    BY <2>7 DEF RxEnd, ParserEnd
  <2> QED BY <1>5, <2>1, <2>2, <2>4, <2>6, <2>8
<1>6. CASE rx_state = 3
  <2>1. ~PreambleGood(f) /\ ~preamble_ok /\ ~crc_ok /\ ~testframe_match
    BY <1>6 DEF ReceiverAt
  <2>2. RxSkip(in)
    BY <1>6 DEF Receiver, RxIdle, RxOctet, RxPreamble, RxEnd
  <2>3. rx_state' = 0 /\ ~preamble_ok' /\ ~crc_ok' /\ ~testframe_match'
    BY <2>1, <2>2 DEF RxSkip
  <2> QED BY <1>6, <2>1, <2>3
<1> QED BY <1>3, <1>4, <1>5, <1>6

\* The frame that is complete after a cycle is the one that was on the wire.
LEMMA Completed ==
  ASSUME TypeInv, SettleInv, TrackInv, NEW in \in Inputs, NEW now \in Times,
         Tick(in, now), Observe(in, now), frame_complete'
  PROVE  /\ run /\ state = 1 /\ ~in.en /\ wire.en /\ InFrame(in)
         /\ seen' = Append(seen, [frame |-> wire.frame, at |-> rise,
                                  number |-> wire.number])
         /\ Newest' = [frame |-> wire.frame, at |-> rise,
                       number |-> wire.number]
         /\ Newest'.frame = wire.frame /\ Newest'.at = rise
         /\ partial => partial'
<1> DEFINE e == [frame |-> wire.frame, at |-> rise, number |-> wire.number]
<1>1. run /\ state = 1 /\ ~in.en /\ wire.en
  BY TickSeen DEF SettleInv
<1>2. seen' = Append(seen, e) /\ (partial => partial')
  BY <1>1, TickSeen
<1>3. seen \in Seq(Arrival) /\ e \in Arrival
  BY <1>1, NewArrival DEF TrackInv
<1>4. Newest' = e
  BY <1>2, <1>3, AppendArrival DEF Newest
<1>5. InFrame(in)
  BY <1>1 DEF Tick, Clear, BetweenFrames
<1> QED BY <1>1, <1>2, <1>4, <1>5

LEMMA TickReceiver ==
  ASSUME TypeInv, SettleInv, TrackInv, ReceiverInv, NoneEmpty,
         NEW in \in Inputs, NEW now \in Times, Tick(in, now), Observe(in, now)
  PROVE  ReceiverInv'
<1>1. wire' = in /\ Receiver(in)
  BY DEF Observe, Tick
<1>2. in.en => ReceiverAt(in.frame, in.pos)'
  <2>1. CASE ~wire.en
    BY <1>1, <2>1, FirstOctet DEF ReceiverInv
  <2>2. CASE wire.en
    <3>1. ReceiverAt(wire.frame, wire.pos) /\ rx_state \in {1, 2, 3}
      BY <2>2 DEF ReceiverInv, ReceiverAt, TypeInv, ReceiverTypes
    <3> QED BY <1>1, <2>2, <3>1, PreambleOctet, FrameOctet
  <2> QED BY <2>1, <2>2
<1>3. ~in.en => rx_state' = 0
  <2>1. CASE ~wire.en
    BY <1>1, <2>1 DEF ReceiverInv, Receiver, RxIdle, RxPreamble, RxOctet,
       RxEnd, RxSkip
  <2>2. CASE wire.en
    BY <1>1, <2>2, FrameEnd DEF ReceiverInv
  <2> QED BY <2>1, <2>2
<1>4. frame_complete' => Verdict(Newest.frame)'
  <2> SUFFICES ASSUME frame_complete' PROVE Verdict(Newest.frame)'
    OBVIOUS
  <2>1. ~in.en /\ wire.en /\ Newest'.frame = wire.frame
    BY Completed
  <2> DEFINE f == wire.frame
  <2>2. /\ preamble_ok' <=> PreambleGood(f)
        /\ crc_ok' <=> PreambleGood(f) /\ f.good
        /\ testframe_match' <=> PreambleGood(f) /\ f.test
        /\ PreambleGood(f) => parsed' = [seq |-> f.seq, sent |-> f.sent]
    BY <1>1, <2>1, FrameEnd DEF ReceiverInv
  <2> QED BY <2>1, <2>2 DEF Verdict, PreambleGood
<1> QED BY <1>1, <1>2, <1>3, <1>4
        DEF ReceiverInv, ReceiverAt, Fives, PreambleGood, Last

LEMMA TickSize ==
  ASSUME TypeInv, SettleInv, TrackInv, ReceiverInv, SizeInv, NoneEmpty,
         NEW in \in Inputs, NEW now \in Times, Tick(in, now), Observe(in, now)
  PROVE  SizeInv'
<1> SUFFICES ASSUME ~partial'
             PROVE  /\ state' = 1 => l2_frame_size' =
                         IF rx_state' = 2 THEN data_index' ELSE 0
                    /\ frame_complete' /\ PreambleGood(Newest'.frame) =>
                         l2_frame_size' = Newest'.frame.octets
  BY DEF SizeInv, PreambleGood
<1>1. Receiver(in) /\ state \in {0, 1}
  BY DEF Tick, TypeInv, MachineTypes
<1>2. ASSUME state' = 1
      PROVE  l2_frame_size' = IF rx_state' = 2 THEN data_index' ELSE 0
  <2>1. run /\ in.en /\ (partial => partial')
    BY <1>2, TickSeen
  <2>2. wire.en <=> state = 1
    <3>1. (heard <=> state = 1) /\ (state = 1 => wire.en)
      BY DEF TrackInv, SettleInv
    <3> QED BY <2>1, <3>1 DEF Observe
  <2>3. CASE state = 0
    <3>1. rx_state' # 2
      BY <1>1, <2>1, <2>2, <2>3, FirstOctet DEF ReceiverInv
    <3>2. l2_frame_size' = 0
      BY <2>1, <2>3 DEF Tick, Clear, BetweenFrames, InFrame
    <3> QED BY <3>1, <3>2
  <2>4. CASE state = 1
    <3>1. ReceiverAt(wire.frame, wire.pos) /\ rx_state \in {1, 2, 3}
      BY <2>2, <2>4 DEF ReceiverInv, ReceiverAt, TypeInv, ReceiverTypes
    <3>2. l2_frame_size = IF rx_state = 2 THEN data_index ELSE 0
      BY <2>1, <2>4 DEF SizeInv
    <3>3. preamble_ok <=> rx_state = 2
      BY <3>1 DEF ReceiverAt
    <3>4. l2_frame_size' = IF preamble_ok THEN l2_frame_size + 1
                                          ELSE l2_frame_size
      BY <2>1, <2>4 DEF Tick, Clear, BetweenFrames, InFrame, L2Octet
    <3>5. CASE rx_state = 1
      <4>1. rx_state' = 2 => data_index' = 0
        BY <1>1, <2>1, <2>2, <2>4, <3>1, <3>5, PreambleOctet
      <4> QED BY <3>2, <3>3, <3>4, <3>5, <4>1
    <3>6. CASE rx_state \in {2, 3}
      <4>1. /\ rx_state' = rx_state
            /\ rx_state = 2 => data_index' = data_index + 1
        BY <1>1, <2>1, <2>2, <2>4, <3>1, <3>6, FrameOctet
      <4> QED BY <3>2, <3>3, <3>4, <3>6, <4>1
    <3> QED BY <3>1, <3>5, <3>6
  <2> QED BY <1>1, <2>3, <2>4
<1>3. ASSUME frame_complete', PreambleGood(Newest'.frame)
      PROVE  l2_frame_size' = Newest'.frame.octets
  <2>1. /\ state = 1 /\ ~in.en /\ wire.en /\ InFrame(in)
        /\ Newest'.frame = wire.frame /\ (partial => partial')
    BY <1>3, Completed
  <2>2. rx_state = 2 /\ data_index = wire.frame.octets
    BY <1>1, <1>3, <2>1, FrameEnd DEF ReceiverInv
  <2>3. l2_frame_size = data_index
    BY <2>1, <2>2 DEF SizeInv
  <2>4. l2_frame_size' = l2_frame_size
    BY <2>1 DEF InFrame, L2Octet
  <2> QED BY <2>1, <2>2, <2>3, <2>4
<1> QED BY <1>2, <1>3

---------------------------------------------------------------------------
\* The largest element of a set of positions.

LEMMA LeastNatural ==
  ASSUME NEW T, T \subseteq Nat, T # {}
  PROVE  \E x \in T : \A y \in T : x <= y
<1> DEFINE R == OpToRel(<, Nat)
<1>1. IsWellFoundedOn(R, Nat)
  BY NatLessThanWellFounded
<1>2. \A x, y \in Nat : <<y, x>> \in R <=> y < x
  BY DEF OpToRel
<1> HIDE DEF R
<1>3. \E x \in T : \A y \in T : ~(<<y, x>> \in R)
  BY <1>1, WFMin
<1>4. PICK x \in T : \A y \in T : ~(<<y, x>> \in R)
  BY <1>3
<1>5. ASSUME NEW y \in T PROVE x <= y
  <2>1. x \in Nat /\ y \in Nat
    OBVIOUS
  <2>2. ~(y < x)
    BY <1>2, <1>4, <2>1
  <2> QED BY <2>1, <2>2
<1> QED BY <1>5

LEMMA MaxOfPositions ==
  ASSUME NEW n \in Nat, NEW S, S \subseteq 1 .. n, S # {}
  PROVE  Max(S) \in S /\ \A y \in S : y <= Max(S)
<1> DEFINE T == {n - i : i \in S}
<1>1. T \subseteq Nat /\ T # {}
  <2>1. ASSUME NEW i \in S PROVE n - i \in Nat
    <3>1. i \in 1 .. n
      OBVIOUS
    <3> QED BY <3>1
  <2> QED BY <2>1
<1> HIDE DEF T
<1>2. \E x \in T : \A y \in T : x <= y
  BY <1>1, LeastNatural
<1>3. \E x \in S : \A y \in S : x >= y
  <2>1. PICK x \in T : \A y \in T : x <= y
    BY <1>2
  <2>2. PICK i \in S : x = n - i
    BY <2>1 DEF T
  <2>3. \A j \in S : i >= j
    <3> SUFFICES ASSUME NEW j \in S PROVE i >= j
      OBVIOUS
    <3>1. n - j \in T
      BY DEF T
    <3>2. n - i <= n - j
      BY <2>1, <2>2, <3>1
    <3> QED BY <3>2
  <2> QED BY <2>3
<1>4. Max(S) \in S /\ \A y \in S : Max(S) >= y
  BY <1>3 DEF Max
<1> QED BY <1>4

LEMMA MaxIs ==
  ASSUME NEW S, S \subseteq Int, NEW x \in S, \A y \in S : y <= x
  PROVE  Max(S) = x
<1>1. x \in S /\ \A y \in S : x >= y
  OBVIOUS
<1>2. Max(S) \in S /\ \A y \in S : Max(S) >= y
  BY <1>1 DEF Max
<1>3. Max(S) \in Int /\ x \in Int
  BY <1>2
<1>4. Max(S) <= x /\ x <= Max(S)
  BY <1>1, <1>2, <1>3
<1> QED BY <1>3, <1>4

LEMMA MinIs ==
  ASSUME NEW S, S \subseteq Int, NEW x \in S, \A y \in S : x <= y
  PROVE  Min(S) = x
<1>1. x \in S /\ \A y \in S : x <= y
  OBVIOUS
<1>2. Min(S) \in S /\ \A y \in S : Min(S) <= y
  BY <1>1 DEF Min
<1>3. Min(S) \in Int /\ x \in Int
  BY <1>2
<1>4. Min(S) <= x /\ x <= Min(S)
  BY <1>1, <1>2, <1>3
<1> QED BY <1>3, <1>4

---------------------------------------------------------------------------
\* The statistics of one more frame.

Only(c, n) == IF c THEN {n} ELSE {}

LEMMA Classes ==
  ASSUME NEW s \in Seq(Arrival), NEW e \in Arrival
  PROVE  LET a == Append(s, e)
             n == Len(s) + 1
             f == e.frame
             ok == PreambleGood(e.frame)
         IN  /\ BadPreamble(a) = BadPreamble(s) \cup Only(~ok, n)
             /\ BadCrc(a) = BadCrc(s) \cup Only(ok /\ ~f.good, n)
             /\ Good(a) = Good(s) \cup Only(ok /\ f.good, n)
             /\ Test(a) = Test(s) \cup Only(ok /\ f.good /\ f.test, n)
<1> DEFINE a == Append(s, e)
           n == Len(s) + 1
           f == e.frame
           ok == PreambleGood(e.frame)
<1>1. /\ DOMAIN a = (DOMAIN s) \cup {n} /\ n \notin DOMAIN s
      /\ \A i \in DOMAIN s : a[i] = s[i]
      /\ a[n] = e
  BY AppendArrival
<1> HIDE DEF a, n
<1>2. BadPreamble(a) = BadPreamble(s) \cup Only(~ok, n)
  BY <1>1 DEF BadPreamble, Only
<1>3. BadCrc(a) = BadCrc(s) \cup Only(ok /\ ~f.good, n)
  BY <1>1 DEF BadCrc, Only
<1>4. \A x : /\ x \in Good(s) <=> /\ x \in DOMAIN s
                                  /\ PreambleGood(s[x].frame) /\ s[x].frame.good
             /\ x \in Good(a) <=> /\ x \in DOMAIN a
                                  /\ PreambleGood(a[x].frame) /\ a[x].frame.good
  BY DEF Good, BadPreamble, BadCrc
<1>5. Good(a) = Good(s) \cup Only(ok /\ f.good, n)
  BY <1>1, <1>4 DEF Only
<1>6. Test(a) = Test(s) \cup Only(ok /\ f.good /\ f.test, n)
  <2>1. n \notin Good(s)
    BY <1>1, <1>4
  <2>2. \A i \in Good(s) : a[i] = s[i]
    BY <1>1, <1>4
  <2> QED BY <1>1, <1>5, <2>1, <2>2 DEF Test, Only
<1> QED BY <1>2, <1>3, <1>5, <1>6 DEF a, n

LEMMA ClassDomains ==
  ASSUME NEW s \in Seq(Arrival)
  PROVE  /\ BadPreamble(s) \in SUBSET DOMAIN s /\ BadCrc(s) \in SUBSET DOMAIN s
         /\ Good(s) \in SUBSET DOMAIN s /\ Test(s) \in SUBSET DOMAIN s
         /\ OutOfSequence(s) \in SUBSET DOMAIN s
         /\ DOMAIN s = 1 .. Len(s) /\ Len(s) \in Nat
<1>1. DOMAIN s = 1 .. Len(s) /\ Len(s) \in Nat
  BY LenProperties
<1> QED BY <1>1 DEF BadPreamble, BadCrc, Good, Test, OutOfSequence

\* The number that the testframe at i should carry.
Expected(s, i) ==
  LET before == {j \in Test(s) : j < i}
  IN  IF before = {} THEN 0 ELSE s[Max(before)].frame.seq + 1

LEMMA ExpectedAppend ==
  ASSUME NEW s \in Seq(Arrival), NEW e \in Arrival
  PROVE  LET a == Append(s, e)
             n == Len(s) + 1
         IN  /\ \A i \in Test(s) : Expected(a, i) = Expected(s, i)
             /\ Expected(a, n) = Follows(s)
             /\ Follows(a) = IF n \in Test(a) THEN e.frame.seq + 1
                                              ELSE Follows(s)
<1> DEFINE a == Append(s, e)
           n == Len(s) + 1
<1>1. /\ Test(s) \subseteq 1 .. Len(s) /\ Len(s) \in Nat
      /\ DOMAIN s = 1 .. Len(s)
  BY ClassDomains
<1>2. (\A i \in 1 .. Len(s) : a[i] = s[i]) /\ a[n] = e
  BY <1>1, AppendArrival
<1>3. Test(a) = Test(s) \/ Test(a) = Test(s) \cup {n}
  BY Classes DEF Only
<1>4. n \in Nat /\ \A i \in 1 .. Len(s) : i < n
  BY <1>1
<1>5. ASSUME NEW S, S \subseteq Test(s), S # {}
      PROVE  a[Max(S)] = s[Max(S)]
  <2>1. S \subseteq 1 .. Len(s)
    BY <1>1, <1>5
  <2>2. Max(S) \in S
    BY <1>1, <1>5, <2>1, MaxOfPositions
  <2> QED BY <1>2, <2>1, <2>2
<1> HIDE DEF a
<1>6. ASSUME NEW i \in Test(s) PROVE Expected(a, i) = Expected(s, i)
  <2> DEFINE S == {j \in Test(s) : j < i}
  <2>1. i \in 1 .. Len(s) /\ i < n
    BY <1>1, <1>4
  <2>2. ~(n < i)
    BY <1>1, <2>1
  <2>3. {j \in Test(a) : j < i} = S
    BY <1>3, <2>2
  <2>4. S # {} => a[Max(S)] = s[Max(S)]
    BY <1>5
  <2> HIDE DEF S
  <2>5. Expected(s, i) = IF S = {} THEN 0 ELSE s[Max(S)].frame.seq + 1
    BY DEF Expected, S
  <2>6. Expected(a, i) = IF S = {} THEN 0 ELSE a[Max(S)].frame.seq + 1
    BY <2>3 DEF Expected
  <2> QED BY <2>4, <2>5, <2>6
<1>7. Test(s) # {} => a[Max(Test(s))] = s[Max(Test(s))]
  BY <1>5
<1>8. Expected(a, n) = Follows(s)
  <2>1. {j \in Test(a) : j < n} = Test(s)
    <3>1. ~(n < n)
      BY <1>4
    <3> QED BY <1>1, <1>3, <1>4, <3>1
  <2>2. Expected(a, n) = IF Test(s) = {} THEN 0
                         ELSE a[Max(Test(s))].frame.seq + 1
    BY <2>1 DEF Expected
  <2> QED BY <1>7, <2>2 DEF Follows
<1>9. Follows(a) = IF n \in Test(a) THEN e.frame.seq + 1 ELSE Follows(s)
  <2>1. CASE n \in Test(a)
    <3>1. Test(a) = Test(s) \cup {n}
      BY <1>1, <1>3, <1>4, <2>1
    <3>2. Test(a) \subseteq Int /\ \A y \in Test(a) : y <= n
      BY <1>1, <1>4, <3>1
    <3>3. Max(Test(a)) = n
      BY <2>1, <3>2, MaxIs
    <3> QED BY <1>2, <2>1, <3>3 DEF Follows
  <2>2. CASE n \notin Test(a)
    <3>1. Test(a) = Test(s)
      BY <1>3, <2>2
    <3>2. Follows(a) = IF Test(s) = {} THEN 0
                       ELSE a[Max(Test(s))].frame.seq + 1
      BY <3>1 DEF Follows
    <3> QED BY <1>7, <2>2, <3>2 DEF Follows
  <2> QED BY <2>1, <2>2
<1> QED BY <1>6, <1>8, <1>9 DEF a

LEMMA OutOfSequenceAppend ==
  ASSUME NEW s \in Seq(Arrival), NEW e \in Arrival
  PROVE  LET a == Append(s, e)
             n == Len(s) + 1
         IN  OutOfSequence(a) = OutOfSequence(s)
               \cup Only(n \in Test(a) /\ e.frame.seq # Follows(s), n)
<1> DEFINE a == Append(s, e)
           n == Len(s) + 1
<1>1. /\ OutOfSequence(s) = {i \in Test(s) : s[i].frame.seq # Expected(s, i)}
      /\ OutOfSequence(a) = {i \in Test(a) : a[i].frame.seq # Expected(a, i)}
  BY DEF OutOfSequence, Expected
<1>2. /\ \A i \in Test(s) : Expected(a, i) = Expected(s, i)
      /\ Expected(a, n) = Follows(s)
  BY ExpectedAppend
<1>3. Test(a) = Test(s) \/ Test(a) = Test(s) \cup {n}
  BY Classes DEF Only
<1>4. /\ (\A i \in DOMAIN s : a[i] = s[i]) /\ a[n] = e /\ n \notin DOMAIN s
      /\ Test(s) \subseteq DOMAIN s
  BY AppendArrival, ClassDomains
<1> HIDE DEF a, n
<1>5. OutOfSequence(a) = OutOfSequence(s)
        \cup Only(n \in Test(a) /\ e.frame.seq # Follows(s), n)
  BY <1>1, <1>2, <1>3, <1>4 DEF Only
<1> QED BY <1>5 DEF a, n

\* What frame e adds to the statistics of the frames in s.
Added(s, e) ==
  LET f == e.frame
  IN  CASE ~PreambleGood(f) ->
             [NoCounts EXCEPT !.bad_preamble_pkts = 1,
                              !.bad_preamble_octets = Last(f) + 1]
        [] PreambleGood(f) /\ f.good ->
             [NoCounts EXCEPT !.pkts = 1, !.octets = f.octets,
               !.testframe_pkts = IF f.test THEN 1 ELSE 0,
               !.sequence_errors =
                 IF f.test /\ f.seq # Follows(s) THEN 1 ELSE 0]
        [] OTHER ->
             [NoCounts EXCEPT !.bad_crc_pkts = 1, !.bad_crc_octets = f.octets]

LEMMA TallyTypes ==
  ASSUME NEW s \in Seq(Arrival)
  PROVE  Tally(s) \in [Counters -> Nat]
<1>1. \A S \in SUBSET DOMAIN s :
        /\ Cardinality(S) \in Nat /\ Cardinality(Octets(s, S)) \in Nat
        /\ Cardinality(L2Octets(s, S)) \in Nat
  BY FiniteOctets, FS_CardinalityType
<1>2. /\ Cardinality(Good(s)) \in Nat /\ Cardinality(L2Octets(s, Good(s))) \in Nat
      /\ Cardinality(BadCrc(s)) \in Nat
      /\ Cardinality(L2Octets(s, BadCrc(s))) \in Nat
      /\ Cardinality(BadPreamble(s)) \in Nat
      /\ Cardinality(Octets(s, BadPreamble(s))) \in Nat
      /\ Cardinality(Test(s)) \in Nat /\ Cardinality(OutOfSequence(s)) \in Nat
  BY <1>1, ClassDomains
<1> QED BY <1>2 DEF Tally, Counters

LEMMA AddedFacts ==
  ASSUME NEW s, NEW e
  PROVE  /\ ~PreambleGood(e.frame) =>
              \A c \in Counters : Added(s, e)[c] =
                CASE c = "bad_preamble_pkts" -> 1
                  [] c = "bad_preamble_octets" -> Last(e.frame) + 1
                  [] OTHER -> 0
         /\ PreambleGood(e.frame) /\ e.frame.good =>
              \A c \in Counters : Added(s, e)[c] =
                CASE c = "pkts" -> 1
                  [] c = "octets" -> e.frame.octets
                  [] c = "testframe_pkts" -> IF e.frame.test THEN 1 ELSE 0
                  [] c = "sequence_errors" ->
                       IF e.frame.test /\ e.frame.seq # Follows(s) THEN 1 ELSE 0
                  [] OTHER -> 0
         /\ PreambleGood(e.frame) /\ ~e.frame.good =>
              \A c \in Counters : Added(s, e)[c] =
                CASE c = "bad_crc_pkts" -> 1
                  [] c = "bad_crc_octets" -> e.frame.octets
                  [] OTHER -> 0
<1> USE DEF Counters, NoCounts
<1>1. ASSUME ~PreambleGood(e.frame)
      PROVE  \A c \in Counters : Added(s, e)[c] =
               CASE c = "bad_preamble_pkts" -> 1
                 [] c = "bad_preamble_octets" -> Last(e.frame) + 1
                 [] OTHER -> 0
  <2>1. Added(s, e) = [NoCounts EXCEPT !.bad_preamble_pkts = 1,
                                       !.bad_preamble_octets = Last(e.frame) + 1]
    BY <1>1 DEF Added
  <2> QED BY <2>1
<1>2. ASSUME PreambleGood(e.frame), e.frame.good
      PROVE  \A c \in Counters : Added(s, e)[c] =
               CASE c = "pkts" -> 1
                 [] c = "octets" -> e.frame.octets
                 [] c = "testframe_pkts" -> IF e.frame.test THEN 1 ELSE 0
                 [] c = "sequence_errors" ->
                      IF e.frame.test /\ e.frame.seq # Follows(s) THEN 1 ELSE 0
                 [] OTHER -> 0
  <2>1. Added(s, e) =
          [NoCounts EXCEPT !.pkts = 1, !.octets = e.frame.octets,
            !.testframe_pkts = IF e.frame.test THEN 1 ELSE 0,
            !.sequence_errors =
              IF e.frame.test /\ e.frame.seq # Follows(s) THEN 1 ELSE 0]
    BY <1>2 DEF Added
  <2> QED BY <2>1
<1>3. ASSUME PreambleGood(e.frame), ~e.frame.good
      PROVE  \A c \in Counters : Added(s, e)[c] =
               CASE c = "bad_crc_pkts" -> 1
                 [] c = "bad_crc_octets" -> e.frame.octets
                 [] OTHER -> 0
  <2>1. Added(s, e) = [NoCounts EXCEPT !.bad_crc_pkts = 1,
                                       !.bad_crc_octets = e.frame.octets]
    BY <1>3 DEF Added
  <2> QED BY <2>1
<1> QED BY <1>1, <1>2, <1>3

\* The fields of Tally.
LEMMA TallyFields ==
  ASSUME NEW s
  PROVE  /\ Tally(s)["pkts"] = Cardinality(Good(s))
         /\ Tally(s)["octets"] = Cardinality(L2Octets(s, Good(s)))
         /\ Tally(s)["bad_crc_pkts"] = Cardinality(BadCrc(s))
         /\ Tally(s)["bad_crc_octets"] = Cardinality(L2Octets(s, BadCrc(s)))
         /\ Tally(s)["bad_preamble_pkts"] = Cardinality(BadPreamble(s))
         /\ Tally(s)["bad_preamble_octets"]
              = Cardinality(Octets(s, BadPreamble(s)))
         /\ Tally(s)["testframe_pkts"] = Cardinality(Test(s))
         /\ Tally(s)["sequence_errors"] = Cardinality(OutOfSequence(s))
BY DEF Tally

LEMMA TallyAppend ==
  ASSUME NEW s \in Seq(Arrival), NEW e \in Arrival
  PROVE  \A c \in Counters :
           Tally(Append(s, e))[c] = Tally(s)[c] + Added(s, e)[c]
<1> DEFINE a == Append(s, e)
           n == Len(s) + 1
           f == e.frame
           ok == PreambleGood(f)
<1>1. \A S \in SUBSET DOMAIN s :
        /\ Octets(a, S) = Octets(s, S)
        /\ L2Octets(a, S) = L2Octets(s, S)
        /\ Cardinality(Octets(a, S \cup {n}))
             = Cardinality(Octets(s, S)) + (Last(f) + 1)
        /\ Cardinality(L2Octets(a, S \cup {n}))
             = Cardinality(L2Octets(s, S)) + f.octets
        /\ Cardinality(S \cup {n}) = Cardinality(S) + 1
  BY OctetsAppend
<1>2. /\ BadPreamble(s) \in SUBSET DOMAIN s /\ BadCrc(s) \in SUBSET DOMAIN s
      /\ Good(s) \in SUBSET DOMAIN s /\ Test(s) \in SUBSET DOMAIN s
      /\ OutOfSequence(s) \in SUBSET DOMAIN s /\ n \notin DOMAIN s
  BY ClassDomains, AppendArrival
<1>3. /\ BadPreamble(a) = BadPreamble(s) \cup Only(~ok, n)
      /\ BadCrc(a) = BadCrc(s) \cup Only(ok /\ ~f.good, n)
      /\ Good(a) = Good(s) \cup Only(ok /\ f.good, n)
      /\ Test(a) = Test(s) \cup Only(ok /\ f.good /\ f.test, n)
  BY Classes
<1>4. OutOfSequence(a) = OutOfSequence(s)
        \cup Only(n \in Test(a) /\ f.seq # Follows(s), n)
  BY OutOfSequenceAppend
<1>5. Tally(s) \in [Counters -> Nat] /\ Last(f) \in Nat /\ f.octets \in Nat
  BY TallyTypes, FrameFacts DEF Arrival
<1>6. \A c \in Counters : Tally(s)[c] \in Nat /\ Tally(s)[c] = Tally(s)[c] + 0
  BY <1>5
<1>7. n \in Test(a) <=> ok /\ f.good /\ f.test
  BY <1>2, <1>3 DEF Only
<1>8. \A S : S \cup Only(FALSE, n) = S /\ S \cup Only(TRUE, n) = S \cup {n}
  BY DEF Only
<1> HIDE DEF a, n
<1>9. /\ Cardinality(Good(a)) = Tally(a)["pkts"]
       /\ Cardinality(L2Octets(a, Good(a))) = Tally(a)["octets"]
       /\ Cardinality(BadCrc(a)) = Tally(a)["bad_crc_pkts"]
       /\ Cardinality(L2Octets(a, BadCrc(a))) = Tally(a)["bad_crc_octets"]
       /\ Cardinality(BadPreamble(a)) = Tally(a)["bad_preamble_pkts"]
       /\ Cardinality(Octets(a, BadPreamble(a))) = Tally(a)["bad_preamble_octets"]
       /\ Cardinality(Test(a)) = Tally(a)["testframe_pkts"]
       /\ Cardinality(OutOfSequence(a)) = Tally(a)["sequence_errors"]
  BY TallyFields
<1>10. /\ Cardinality(Good(s)) = Tally(s)["pkts"]
       /\ Cardinality(L2Octets(s, Good(s))) = Tally(s)["octets"]
       /\ Cardinality(BadCrc(s)) = Tally(s)["bad_crc_pkts"]
       /\ Cardinality(L2Octets(s, BadCrc(s))) = Tally(s)["bad_crc_octets"]
       /\ Cardinality(BadPreamble(s)) = Tally(s)["bad_preamble_pkts"]
       /\ Cardinality(Octets(s, BadPreamble(s))) = Tally(s)["bad_preamble_octets"]
       /\ Cardinality(Test(s)) = Tally(s)["testframe_pkts"]
       /\ Cardinality(OutOfSequence(s)) = Tally(s)["sequence_errors"]
  BY TallyFields
<1>11. /\ L2Octets(a, Good(s)) = L2Octets(s, Good(s))
       /\ L2Octets(a, BadCrc(s)) = L2Octets(s, BadCrc(s))
       /\ Octets(a, BadPreamble(s)) = Octets(s, BadPreamble(s))
  BY <1>1, <1>2
<1>12. CASE ~ok
  <2>1. /\ BadPreamble(a) = BadPreamble(s) \cup {n}
        /\ BadCrc(a) = BadCrc(s) /\ Good(a) = Good(s)
        /\ Test(a) = Test(s) /\ OutOfSequence(a) = OutOfSequence(s)
    BY <1>3, <1>4, <1>7, <1>12 DEF Only
  <2>2. /\ Tally(a)["bad_preamble_pkts"] = Tally(s)["bad_preamble_pkts"] + 1
        /\ Tally(a)["bad_preamble_octets"]
             = Tally(s)["bad_preamble_octets"] + (Last(f) + 1)
        /\ \A c \in Counters : c \notin {"bad_preamble_pkts", "bad_preamble_octets"}
             => Tally(a)[c] = Tally(s)[c]
    <3>1. /\ Cardinality(BadPreamble(s) \cup {n}) = Cardinality(BadPreamble(s)) + 1
          /\ Cardinality(Octets(a, BadPreamble(s) \cup {n}))
               = Cardinality(Octets(s, BadPreamble(s))) + (Last(f) + 1)
      BY <1>1, <1>2
    <3> QED BY <1>9, <1>10, <1>11, <2>1, <3>1 DEF Counters
  <2>3. \A c \in Counters : Added(s, e)[c] =
          CASE c = "bad_preamble_pkts" -> 1
            [] c = "bad_preamble_octets" -> Last(f) + 1
            [] OTHER -> 0
    BY <1>12, AddedFacts
  <2>4. \A c \in Counters : Tally(a)[c] = Tally(s)[c] + Added(s, e)[c]
    BY <1>6, <2>2, <2>3
  <2> QED BY <2>4 DEF a
<1>13. CASE ok /\ ~f.good
  <2>1. /\ BadCrc(a) = BadCrc(s) \cup {n}
        /\ BadPreamble(a) = BadPreamble(s) /\ Good(a) = Good(s)
        /\ Test(a) = Test(s) /\ OutOfSequence(a) = OutOfSequence(s)
    BY <1>3, <1>4, <1>7, <1>13 DEF Only
  <2>2. /\ Tally(a)["bad_crc_pkts"] = Tally(s)["bad_crc_pkts"] + 1
        /\ Tally(a)["bad_crc_octets"] = Tally(s)["bad_crc_octets"] + f.octets
        /\ \A c \in Counters : c \notin {"bad_crc_pkts", "bad_crc_octets"}
             => Tally(a)[c] = Tally(s)[c]
    <3>1. /\ Cardinality(BadCrc(s) \cup {n}) = Cardinality(BadCrc(s)) + 1
          /\ Cardinality(L2Octets(a, BadCrc(s) \cup {n}))
               = Cardinality(L2Octets(s, BadCrc(s))) + f.octets
      BY <1>1, <1>2
    <3> QED BY <1>9, <1>10, <1>11, <2>1, <3>1 DEF Counters
  <2>3. \A c \in Counters : Added(s, e)[c] =
          CASE c = "bad_crc_pkts" -> 1
            [] c = "bad_crc_octets" -> f.octets
            [] OTHER -> 0
    BY <1>13, AddedFacts
  <2>4. \A c \in Counters : Tally(a)[c] = Tally(s)[c] + Added(s, e)[c]
    BY <1>6, <2>2, <2>3
  <2> QED BY <2>4 DEF a
<1>14. CASE ok /\ f.good
  <2>1. /\ Good(a) = Good(s) \cup {n}
        /\ BadPreamble(a) = BadPreamble(s) /\ BadCrc(a) = BadCrc(s)
        /\ Test(a) = IF f.test THEN Test(s) \cup {n} ELSE Test(s)
        /\ OutOfSequence(a) = IF f.test /\ f.seq # Follows(s)
                                THEN OutOfSequence(s) \cup {n}
                                ELSE OutOfSequence(s)
    BY <1>3, <1>4, <1>7, <1>14 DEF Only
  <2>2. /\ Tally(a)["pkts"] = Tally(s)["pkts"] + 1
        /\ Tally(a)["octets"] = Tally(s)["octets"] + f.octets
        /\ \A c \in Counters : c \notin {"pkts", "octets", "testframe_pkts",
                                          "sequence_errors"}
             => Tally(a)[c] = Tally(s)[c]
    <3>1. /\ Cardinality(Good(s) \cup {n}) = Cardinality(Good(s)) + 1
          /\ Cardinality(L2Octets(a, Good(s) \cup {n}))
               = Cardinality(L2Octets(s, Good(s))) + f.octets
      BY <1>1, <1>2
    <3> QED BY <1>9, <1>10, <1>11, <2>1, <3>1 DEF Counters
  <2>3. /\ Tally(a)["testframe_pkts"]
             = Tally(s)["testframe_pkts"] + IF f.test THEN 1 ELSE 0
        /\ Tally(a)["sequence_errors"]
             = Tally(s)["sequence_errors"]
               + IF f.test /\ f.seq # Follows(s) THEN 1 ELSE 0
    <3>1. Cardinality(Test(a)) = Cardinality(Test(s)) + IF f.test THEN 1 ELSE 0
      <4>1. Cardinality(Test(s)) \in Nat
        BY <1>6, TallyFields DEF Counters
      <4>2. Cardinality(Test(s) \cup {n}) = Cardinality(Test(s)) + 1
        BY <1>1, <1>2
      <4> QED BY <2>1, <4>1, <4>2
    <3>2. Cardinality(OutOfSequence(a)) = Cardinality(OutOfSequence(s))
            + IF f.test /\ f.seq # Follows(s) THEN 1 ELSE 0
      <4>1. Cardinality(OutOfSequence(s)) \in Nat
        BY <1>6, TallyFields DEF Counters
      <4>2. Cardinality(OutOfSequence(s) \cup {n}) = Cardinality(OutOfSequence(s)) + 1
        BY <1>1, <1>2
      <4> QED BY <2>1, <4>1, <4>2
    <3> QED BY <3>1, <3>2, TallyFields
  <2>4. \A c \in Counters : Added(s, e)[c] =
          CASE c = "pkts" -> 1
            [] c = "octets" -> f.octets
            [] c = "testframe_pkts" -> IF f.test THEN 1 ELSE 0
            [] c = "sequence_errors" ->
                 IF f.test /\ f.seq # Follows(s) THEN 1 ELSE 0
            [] OTHER -> 0
    BY <1>14, AddedFacts
  <2>5. \A c \in Counters : Tally(a)[c] = Tally(s)[c] + Added(s, e)[c]
    <3> SUFFICES ASSUME NEW c \in Counters
                 PROVE  Tally(a)[c] = Tally(s)[c] + Added(s, e)[c]
      OBVIOUS
    <3>1. CASE c = "testframe_pkts"
      BY <2>3, <2>4, <3>1
    <3>2. CASE c = "sequence_errors"
      BY <2>3, <2>4, <3>2
    <3>3. CASE c \notin {"testframe_pkts", "sequence_errors"}
      BY <1>6, <2>2, <2>4, <3>3
    <3> QED BY <3>1, <3>2, <3>3
  <2> QED BY <2>5 DEF a
<1> QED BY <1>12, <1>13, <1>14

LEMMA CountsAre ==
  ASSUME NEW x \in [Counters -> Nat], NEW s \in Seq(Arrival),
         \A c \in Counters : x[c] = Tally(s)[c]
  PROVE  x = Tally(s)
BY TallyTypes

LEMMA NothingSeen ==
  /\ NoCounts = Tally(<<>>) /\ Follows(<<>>) = 0
  /\ Test(<<>>) = {}
<1>1. /\ Good(<<>>) = {} /\ BadCrc(<<>>) = {} /\ BadPreamble(<<>>) = {}
      /\ Test(<<>>) = {} /\ OutOfSequence(<<>>) = {}
  BY DEF Good, BadCrc, BadPreamble, Test, OutOfSequence
<1>2. Octets(<<>>, {}) = {} /\ L2Octets(<<>>, {}) = {} /\ Cardinality({}) = 0
  BY FS_EmptySet DEF Octets, L2Octets
<1>3. \A c \in Counters : Tally(<<>>)[c] = 0
  BY <1>1, <1>2, TallyFields DEF Counters
<1>4. NoCounts \in [Counters -> Nat] /\ \A c \in Counters : NoCounts[c] = 0
  BY DEF NoCounts
<1>5. <<>> \in Seq(Arrival)
  BY EmptySeq
<1>6. NoCounts = Tally(<<>>)
  BY <1>3, <1>4, <1>5, CountsAre
<1> QED BY <1>1, <1>6 DEF Follows

(***************************************************************************)
(* The sequence number of a testframe has more bits than the number that   *)
(* the analyzer expects next; the statistics are exact as long as the      *)
(* numbers on the line fit.                                                *)
(***************************************************************************)
NumbersFit == \A f \in Frames : f.seq + 1 < ExpectedWrap
Countable == NoneEmpty /\ NumbersFit

\* What a complete frame is about to be counted as.
LEMMA DeltaIsAdded ==
  ASSUME NEW s, NEW e, e.frame \in Frames,
         Verdict(e.frame), expected_sequence_num = Follows(s),
         frame_size = Last(e.frame) + 1,
         PreambleGood(e.frame) => l2_frame_size = e.frame.octets
  PROVE  CountDelta = Added(s, e)
<1> DEFINE f == e.frame
<1>1. CASE ~PreambleGood(f)
  BY <1>1 DEF CountDelta, Added, Verdict
<1>2. CASE PreambleGood(f) /\ f.good
  <2>1. /\ preamble_ok /\ crc_ok /\ (testframe_match <=> f.test)
        /\ parsed.seq = f.seq /\ l2_frame_size = f.octets
    BY <1>2 DEF Verdict
  <2>2. SequenceError <=> f.seq # Follows(s)
    BY <2>1 DEF SequenceError
  <2>3. CountDelta = [NoCounts EXCEPT !.pkts = 1, !.octets = l2_frame_size,
           !.testframe_pkts = IF testframe_match THEN 1 ELSE 0,
           !.sequence_errors =
             IF testframe_match /\ SequenceError THEN 1 ELSE 0]
    BY <2>1 DEF CountDelta
  <2>4. Added(s, e) = [NoCounts EXCEPT !.pkts = 1, !.octets = f.octets,
               !.testframe_pkts = IF f.test THEN 1 ELSE 0,
               !.sequence_errors =
                 IF f.test /\ f.seq # Follows(s) THEN 1 ELSE 0]
    BY <1>2 DEF Added
  <2>5. /\ (IF testframe_match THEN 1 ELSE 0) = (IF f.test THEN 1 ELSE 0)
        /\ (IF testframe_match /\ SequenceError THEN 1 ELSE 0)
             = (IF f.test /\ f.seq # Follows(s) THEN 1 ELSE 0)
    BY <2>1, <2>2
  <2> QED BY <2>1, <2>3, <2>4, <2>5
<1>3. CASE PreambleGood(f) /\ ~f.good
  <2>1. preamble_ok /\ ~crc_ok /\ l2_frame_size = f.octets
    BY <1>3 DEF Verdict
  <2>2. CountDelta = [NoCounts EXCEPT !.bad_crc_pkts = 1,
                                      !.bad_crc_octets = l2_frame_size]
    BY <2>1 DEF CountDelta
  <2>3. Added(s, e) = [NoCounts EXCEPT !.bad_crc_pkts = 1,
                                       !.bad_crc_octets = f.octets]
    BY <1>3 DEF Added
  <2> QED BY <2>1, <2>2, <2>3
<1> QED BY <1>1, <1>2, <1>3

---------------------------------------------------------------------------
\* Prefixes of the record.

LEMMA PrefixOfAppend ==
  ASSUME NEW s \in Seq(Arrival), NEW e \in Arrival, NEW k \in 0 .. Len(s)
  PROVE  SubSeq(Append(s, e), 1, k) = SubSeq(s, 1, k)
<1> DEFINE a == Append(s, e)
<1>1. /\ Len(s) \in Nat
      /\ \A i \in 1 .. Len(s) : a[i] = s[i] /\ s[i] \in Arrival
  BY AppendArrival, LenProperties
<1> HIDE DEF a
<1>2. 1 \in Int /\ k \in Int /\ \A i \in 1 .. k : a[i] = s[i] /\ s[i] \in Arrival
  BY <1>1
<1>3. /\ SubSeq(s, 1, k) \in Seq(Arrival)
      /\ Len(SubSeq(s, 1, k)) = IF 1 <= k THEN k - 1 + 1 ELSE 0
      /\ \A i \in 1 .. k - 1 + 1 : SubSeq(s, 1, k)[i] = s[1 + i - 1]
  BY <1>2, SubSeqProperties
<1>4. /\ SubSeq(a, 1, k) \in Seq(Arrival)
      /\ Len(SubSeq(a, 1, k)) = IF 1 <= k THEN k - 1 + 1 ELSE 0
      /\ \A i \in 1 .. k - 1 + 1 : SubSeq(a, 1, k)[i] = a[1 + i - 1]
  BY <1>2, SubSeqProperties
<1>5. /\ Len(SubSeq(s, 1, k)) = k /\ Len(SubSeq(a, 1, k)) = k
      /\ k - 1 + 1 = k /\ \A i \in 1 .. k : 1 + i - 1 = i
  BY <1>2, <1>3, <1>4
<1>6. \A i \in 1 .. Len(SubSeq(a, 1, k)) : SubSeq(a, 1, k)[i] = SubSeq(s, 1, k)[i]
  BY <1>2, <1>3, <1>4, <1>5
<1>7. SubSeq(a, 1, k) = SubSeq(s, 1, k)
  BY <1>3, <1>4, <1>5, <1>6, SeqEqual
<1> QED BY <1>7 DEF a

LEMMA PrefixFacts ==
  ASSUME NEW s \in Seq(Arrival), NEW k \in 0 .. Len(s)
  PROVE  /\ SubSeq(s, 1, k) \in Seq(Arrival) /\ Len(SubSeq(s, 1, k)) = k
         /\ \A i \in 1 .. k : SubSeq(s, 1, k)[i] = s[i]
         /\ SubSeq(s, 1, Len(s)) = s
<1>1. /\ Len(s) \in Nat /\ \A i \in 1 .. Len(s) : s[i] \in Arrival
  BY LenProperties, ElementOfSeq
<1>2. 1 \in Int /\ k \in Int /\ \A i \in 1 .. k : s[i] \in Arrival
  BY <1>1
<1>3. /\ SubSeq(s, 1, k) \in Seq(Arrival)
      /\ Len(SubSeq(s, 1, k)) = IF 1 <= k THEN k - 1 + 1 ELSE 0
      /\ \A i \in 1 .. k - 1 + 1 : SubSeq(s, 1, k)[i] = s[1 + i - 1]
  BY <1>2, SubSeqProperties
<1>4. k - 1 + 1 = k /\ \A i \in 1 .. k : 1 + i - 1 = i
  BY <1>2
<1>5. SubSeq(s, 1, Len(s)) = s
  BY SubSeqFull
<1> QED BY <1>2, <1>3, <1>4, <1>5

\* The record before its newest entry.
LEMMA EarlierFacts ==
  ASSUME NEW s \in Seq(Arrival), Len(s) > 0
  PROVE  LET t == SubSeq(s, 1, Len(s) - 1)
             e == s[Len(s)]
         IN  /\ t \in Seq(Arrival) /\ e \in Arrival /\ e.frame \in Frames
             /\ s = Append(t, e) /\ Len(s) = Len(t) + 1
<1> DEFINE k == Len(s) - 1
           t == SubSeq(s, 1, k)
           e == s[Len(s)]
<1>1. Len(s) \in Nat /\ k \in 0 .. Len(s) /\ Len(s) = k + 1
  BY LenProperties
<1>2. e \in Arrival /\ e.frame \in Frames
  <2>1. Len(s) \in DOMAIN s
    BY <1>1, ArrivalsOf
  <2> QED BY <2>1, ArrivalsOf
<1>3. t \in Seq(Arrival) /\ Len(t) = k /\ \A i \in 1 .. k : t[i] = s[i]
  BY <1>1, PrefixFacts
<1> HIDE DEF t, k
<1>4. /\ Append(t, e) \in Seq(Arrival) /\ Len(Append(t, e)) = k + 1
      /\ \A i \in 1 .. k : Append(t, e)[i] = t[i]
      /\ Append(t, e)[k + 1] = e
  BY <1>2, <1>3, AppendProperties
<1>5. \A i \in 1 .. Len(s) : s[i] = Append(t, e)[i]
  <2> SUFFICES ASSUME NEW i \in 1 .. Len(s) PROVE s[i] = Append(t, e)[i]
    OBVIOUS
  <2>1. i \in 1 .. k \/ i = k + 1
    BY <1>1
  <2> QED BY <1>1, <1>3, <1>4, <2>1
<1>6. s = Append(t, e)
  BY <1>1, <1>4, <1>5, SeqEqual
<1> QED BY <1>1, <1>2, <1>3, <1>6 DEF t, k

LEMMA EarlierOfAppend ==
  ASSUME NEW s \in Seq(Arrival), NEW e \in Arrival
  PROVE  SubSeq(Append(s, e), 1, Len(Append(s, e)) - 1) = s
<1>1. Len(Append(s, e)) = Len(s) + 1 /\ Len(s) \in Nat
  BY AppendArrival, LenProperties
<1>2. Len(s) \in 0 .. Len(s) /\ Len(Append(s, e)) - 1 = Len(s)
  BY <1>1
<1>3. SubSeq(Append(s, e), 1, Len(s)) = SubSeq(s, 1, Len(s))
  BY <1>2, PrefixOfAppend
<1> QED BY <1>2, <1>3, SubSeqFull

\* What Account makes of the statistics.
LEMMA AccountCounts ==
  ASSUME TypeInv, TrackInv, ReceiverInv, SizeInv, CountInv, Countable,
         frame_complete, ~partial, Account
  PROVE  counts' = Tally(seen) /\ expected_sequence_num' = Follows(seen)
<1> DEFINE s == Earlier
           e == Newest
           f == e.frame
<1>1. seen \in Seq(Arrival) /\ Len(seen) > 0
  BY DEF TrackInv
<1>2. /\ s \in Seq(Arrival) /\ e \in Arrival /\ f \in Frames
      /\ seen = Append(s, e) /\ Len(seen) = Len(s) + 1
  BY <1>1, EarlierFacts DEF Earlier, Newest
<1>3. counts = Tally(s) /\ expected_sequence_num = Follows(s)
  BY DEF CountInv, Counted
<1>4. /\ Verdict(f) /\ frame_size = Last(f) + 1
      /\ PreambleGood(f) => l2_frame_size = f.octets
  BY DEF ReceiverInv, TrackInv, SizeInv
<1>5. CountDelta = Added(s, e)
  BY <1>2, <1>3, <1>4, DeltaIsAdded
<1>6. \A c \in Counters : Tally(seen)[c] = counts[c] + CountDelta[c]
  BY <1>2, <1>3, <1>5, TallyAppend
<1>7. /\ counts' = [c \in Counters |-> counts[c] + CountDelta[c]]
      /\ counts' \in [Counters -> Nat]
  BY AccountTypes DEF Account, StatisticsTypes
<1>8. \A c \in Counters : counts'[c] = Tally(seen)[c]
  BY <1>6, <1>7
<1>9. counts' = Tally(seen)
  BY <1>1, <1>7, <1>8, CountsAre
<1>10. GoodTestframe <=> Len(seen) \in Test(seen)
  <2>1. /\ Test(seen) = Test(s) \cup Only(PreambleGood(f) /\ f.good /\ f.test,
                                          Len(s) + 1)
        /\ Len(s) + 1 \notin DOMAIN s /\ Test(s) \in SUBSET DOMAIN s
    BY <1>2, Classes, AppendArrival, ClassDomains
  <2>2. GoodTestframe <=> PreambleGood(f) /\ f.good /\ f.test
    BY <1>4 DEF GoodTestframe, Verdict
  <2> QED BY <1>2, <2>1, <2>2 DEF Only
<1>11. Follows(seen) = IF GoodTestframe THEN f.seq + 1 ELSE Follows(s)
  BY <1>2, <1>10, ExpectedAppend
<1>12. GoodTestframe => (parsed.seq + 1) % ExpectedWrap = f.seq + 1
  <2> SUFFICES ASSUME GoodTestframe
               PROVE  (parsed.seq + 1) % ExpectedWrap = f.seq + 1
    OBVIOUS
  <2>1. parsed.seq = f.seq
    BY <1>4 DEF GoodTestframe, Verdict
  <2>2. f.seq \in Nat /\ f.seq + 1 < ExpectedWrap /\ ExpectedWrap \in Nat \ {0}
    BY <1>2, FrameFacts, AnalyzerAssumption DEF Countable, NumbersFit
  <2> QED BY <2>1, <2>2
<1>13. expected_sequence_num' = IF GoodTestframe
                                  THEN (parsed.seq + 1) % ExpectedWrap
                                  ELSE expected_sequence_num
  BY DEF Account
<1> QED BY <1>3, <1>9, <1>11, <1>12, <1>13

LEMMA TickCount ==
  ASSUME TypeInv, SettleInv, TrackInv, ReceiverInv, SizeInv, CountInv,
         Countable, NEW in \in Inputs, NEW now \in Times, Tick(in, now),
         Observe(in, now)
  PROVE  CountInv'
<1> SUFFICES ASSUME ~partial'
             PROVE  LET s == IF frame_complete' THEN Earlier' ELSE seen'
                    IN  counts' = Tally(s) /\ expected_sequence_num' = Follows(s)
  BY DEF CountInv, Counted
<1>1. CASE ~run
  <2>1. seen' = <<>> /\ ~frame_complete'
    BY <1>1, TickSeen
  <2>2. counts' = NoCounts /\ expected_sequence_num' = 0
    BY <1>1 DEF Tick, Clear, BetweenFrames, InFrame
  <2> QED BY <2>1, <2>2, NothingSeen
<1>2. CASE run /\ state = 1 /\ ~in.en
  <2> DEFINE e == [frame |-> wire.frame, at |-> rise, number |-> wire.number]
  <2>1. frame_complete' /\ seen' = Append(seen, e) /\ (partial => partial')
    BY <1>2, TickSeen
  <2>2. seen \in Seq(Arrival) /\ e \in Arrival /\ ~frame_complete
    BY <1>2, NewArrival DEF TrackInv, SettleInv
  <2>3. Earlier' = seen
    BY <2>1, <2>2, EarlierOfAppend DEF Earlier
  <2>4. counts' = counts /\ expected_sequence_num' = expected_sequence_num
    BY <1>2 DEF Tick, Clear, BetweenFrames, InFrame, statistics
  <2> QED BY <2>1, <2>2, <2>3, <2>4 DEF CountInv, Counted
<1>3. CASE run /\ ~(state = 1 /\ ~in.en)
  <2>1. seen' = seen /\ ~frame_complete' /\ (partial => partial')
    BY <1>3, TickSeen
  <2>2. CASE frame_complete
    <3>1. Account
      BY <1>3, <2>2 DEF Tick, Clear, BetweenFrames, InFrame, SettleInv
    <3> QED BY <2>1, <2>2, <3>1, AccountCounts
  <2>3. CASE ~frame_complete
    <3>1. counts' = counts /\ expected_sequence_num' = expected_sequence_num
      BY <1>3, <2>3 DEF Tick, Clear, BetweenFrames, InFrame, statistics
    <3> QED BY <2>1, <2>3, <3>1 DEF CountInv, Counted
  <2> QED BY <2>2, <2>3
<1> QED BY <1>1, <1>2, <1>3

CountingInv == ReceiverInv /\ SizeInv /\ CountInv

LEMMA InitCounting == LineInit => CountingInv
<1> SUFFICES ASSUME LineInit PROVE CountingInv
  OBVIOUS
<1>1. /\ ~wire.en /\ rx_state = 0 /\ ~frame_complete /\ state = 0
      /\ seen = <<>> /\ counts = NoCounts /\ expected_sequence_num = 0
  BY DEF LineInit, Init, Quiet
<1> QED BY <1>1, NothingSeen
        DEF CountingInv, ReceiverInv, SizeInv, CountInv, Counted

LEMMA StepCounting ==
  ASSUME Countable, TypeInv, SettleInv, TrackInv, CountingInv, CoreStep
  PROVE  CountingInv'
<1>1. CASE Still
  <2>1. ReceiverInv' /\ SizeInv'
    BY <1>1 DEF Still, CountingInv, ReceiverInv, SizeInv, ReceiverAt, Verdict,
       Newest, Fives, PreambleGood, Last, receiver, machine, observers
  <2>2. CountInv'
    <3>1. Earlier' = Earlier /\ seen' = seen
      BY <1>1 DEF Still, Earlier, observers
    <3> QED BY <1>1, <3>1 DEF Still, CountingInv, CountInv, Counted, machine,
               statistics, observers
  <2> QED BY <2>1, <2>2 DEF CountingInv
<1>2. ASSUME NEW in \in Inputs, NEW now \in Times, Tick(in, now),
             Observe(in, now)
      PROVE  CountingInv'
  <2>1. ReceiverInv /\ SizeInv /\ CountInv /\ NoneEmpty
    BY DEF CountingInv, Countable
  <2>2. ReceiverInv'
    BY <1>2, <2>1, TickReceiver
  <2>3. SizeInv'
    BY <1>2, <2>1, TickSize
  <2>4. CountInv'
    BY <1>2, <2>1, TickCount
  <2> QED BY <2>2, <2>3, <2>4 DEF CountingInv
<1> QED BY <1>1, <1>2, CoreSteps

LEMMA CountingInvariant ==
  ASSUME Countable
  PROVE  LineSpec => [](TypeInv /\ SettleInv /\ HoldInv /\ TrackInv /\ CountingInv)
<1>1. TypeInv /\ SettleInv /\ TrackInv /\ CountingInv /\ [LineNext]_lineVars
      => CountingInv'
  BY LineSteps, StepCounting
<1> QED BY <1>1, InitCounting, TrackInvariant, PTL DEF LineSpec

(***************************************************************************)
(* Every frame is counted once, under its own heading and with its own     *)
(* size, in any order of good, bad and malformed frames, at any gap, and   *)
(* whenever software stops or freezes the analyzer: the counters are those *)
(* of the frames that arrived.  The two exceptions are the code's: a frame *)
(* that ends with its start delimiter is judged by a stale history, and    *)
(* the expected sequence number has 32 bits.                               *)
(***************************************************************************)
THEOREM CountsExactAlways ==
  ASSUME Countable
  PROVE  LineSpec => []CountsExact
<1>1. CountingInv => CountsExact
  BY DEF CountingInv, CountInv, Counted, CountsExact
<1> QED BY <1>1, CountingInvariant, PTL

---------------------------------------------------------------------------
\* What software reads belongs to a prefix of the record.

LEMMA TickPrefixes ==
  ASSUME TypeInv, SettleInv, TrackInv, NEW in \in Inputs, NEW now \in Times,
         Tick(in, now), Observe(in, now)
  PROVE  /\ ~run => <<>> \in Prefixes'
         /\ run => Prefixes \subseteq Prefixes'
         /\ seen \in Prefixes
         /\ Prefixes \subseteq Seq(Arrival)
<1>1. seen \in Seq(Arrival) /\ Len(seen) \in Nat
  BY LenProperties DEF TrackInv
<1>2. seen \in Prefixes
  <2>1. Len(seen) \in 0 .. Len(seen) /\ SubSeq(seen, 1, Len(seen)) = seen
    BY <1>1, SubSeqFull
  <2> QED BY <2>1 DEF Prefixes
<1>3. Prefixes \subseteq Seq(Arrival)
  BY <1>1, PrefixFacts DEF Prefixes
<1>4. CASE ~run
  <2>1. seen' = <<>>
    BY <1>4, TickSeen
  <2>2. Prefixes' = {SubSeq(<<>>, 1, n) : n \in 0 .. Len(<<>>)}
    BY <2>1 DEF Prefixes
  <2>3. Len(<<>>) = 0 /\ 0 \in 0 .. 0 /\ SubSeq(<<>>, 1, 0) = <<>>
    BY EmptySeq, SubSeqEmpty
  <2>4. <<>> \in Prefixes'
    BY <2>2, <2>3
  <2> QED BY <1>2, <1>3, <1>4, <2>4
<1>5. CASE run /\ state = 1 /\ ~in.en
  <2> DEFINE e == [frame |-> wire.frame, at |-> rise, number |-> wire.number]
  <2>1. seen' = Append(seen, e) /\ e \in Arrival
    BY <1>5, TickSeen, NewArrival DEF SettleInv
  <2>2. Len(seen') = Len(seen) + 1
    BY <1>1, <2>1, AppendArrival
  <2>3. ASSUME NEW k \in 0 .. Len(seen) PROVE SubSeq(seen, 1, k) \in Prefixes'
    <3>1. SubSeq(seen, 1, k) = SubSeq(seen', 1, k)
      BY <1>1, <2>1, PrefixOfAppend
    <3>2. k \in 0 .. Len(seen')
      BY <1>1, <2>2
    <3> QED BY <3>1, <3>2 DEF Prefixes
  <2>4. Prefixes \subseteq Prefixes'
    BY <2>3 DEF Prefixes
  <2> QED BY <1>2, <1>3, <1>5, <2>4
<1>6. CASE run /\ ~(state = 1 /\ ~in.en)
  <2>1. Prefixes' = Prefixes
    BY <1>6, TickSeen DEF Prefixes
  <2> QED BY <1>2, <1>3, <1>6, <2>1
<1> QED BY <1>4, <1>5, <1>6

\* r holds the statistics after the frames in s.
StatisticsOf(r, s) ==
  /\ r.counts = Tally(s)
  /\ s # <<>> => /\ r.at = s[Len(s)].at
                 /\ r.size = Last(s[Len(s)].frame) + 1
PublishInv == ~partial => \E s \in Prefixes : StatisticsOf(stats_reg, s)

LEMMA TickPublish ==
  ASSUME TypeInv, SettleInv, TrackInv, CountingInv, PublishInv, Countable,
         NEW in \in Inputs, NEW now \in Times, Tick(in, now), Observe(in, now)
  PROVE  PublishInv'
<1> SUFFICES ASSUME ~partial'
             PROVE  \E s \in Prefixes' : StatisticsOf(stats_reg', s)
  BY DEF PublishInv, StatisticsOf, Tally, Octets, L2Octets, Last, Good, Test,
     BadCrc, BadPreamble, OutOfSequence, PreambleGood
<1>1. CASE ~run
  <2>1. <<>> \in Prefixes' /\ stats_reg' = NoStats
    BY <1>1, TickPrefixes DEF Tick, Clear, BetweenFrames, InFrame
  <2>2. StatisticsOf(NoStats, <<>>)
    BY NothingSeen DEF StatisticsOf, NoStats
  <2> QED BY <2>1, <2>2
<1>2. CASE run
  <2>1. Prefixes \subseteq Prefixes' /\ seen \in Prefixes /\ ~partial
    BY <1>2, TickPrefixes, TickSeen
  <2>2. CASE stats_reg' = stats_reg
    <3>1. \E s \in Prefixes : StatisticsOf(stats_reg, s)
      BY <2>1 DEF PublishInv
    <3> QED BY <2>1, <2>2, <3>1
  <2>3. CASE stats_reg' # stats_reg
    <3>1. frame_complete /\ Account
      BY <1>2, <2>3 DEF Tick, Clear, BetweenFrames, InFrame, statistics
    <3>2. stats_reg' = [counts |-> counts', error |-> last_sequence_error',
                        at |-> timestamp, size |-> frame_size]
      BY <2>3, <3>1 DEF Account, Publish
    <3>3. counts' = Tally(seen)
      BY <2>1, <3>1, AccountCounts DEF CountingInv
    <3>4. timestamp = Newest.at /\ frame_size = Last(Newest.frame) + 1
      BY <2>1, <3>1 DEF TrackInv
    <3>5. StatisticsOf(stats_reg', seen)
      BY <3>2, <3>3, <3>4 DEF StatisticsOf, Newest
    <3> QED BY <2>1, <3>5
  <2> QED BY <2>2, <2>3
<1> QED BY <1>1, <1>2

LEMMA PublishInvariant ==
  ASSUME Countable
  PROVE  LineSpec => [](TypeInv /\ SettleInv /\ HoldInv /\ TrackInv
                        /\ CountingInv /\ PublishInv)
<1>1. LineInit => PublishInv
  <2> SUFFICES ASSUME LineInit PROVE \E s \in Prefixes : StatisticsOf(stats_reg, s)
    BY DEF PublishInv
  <2>1. seen = <<>> /\ stats_reg = NoStats
    BY DEF LineInit, Init
  <2>2. Len(<<>>) = 0 /\ 0 \in 0 .. 0 /\ SubSeq(<<>>, 1, 0) = <<>>
    BY EmptySeq, SubSeqEmpty
  <2>3. <<>> \in Prefixes
    BY <2>1, <2>2 DEF Prefixes
  <2>4. StatisticsOf(NoStats, <<>>)
    BY NothingSeen DEF StatisticsOf, NoStats
  <2> QED BY <2>1, <2>3, <2>4
<1>2. /\ TypeInv /\ SettleInv /\ TrackInv /\ CountingInv /\ PublishInv
      /\ [LineNext]_lineVars
      => PublishInv'
  <2> SUFFICES ASSUME TypeInv, SettleInv, TrackInv, CountingInv, PublishInv,
                      [LineNext]_lineVars
               PROVE  PublishInv'
    OBVIOUS
  <2>1. CASE Still
    <3>1. /\ seen' = seen /\ Prefixes' = Prefixes /\ stats_reg' = stats_reg
          /\ partial' = partial
      BY <2>1 DEF Still, Prefixes, statistics, observers
    <3> QED BY <3>1 DEF PublishInv, StatisticsOf, Tally, Octets, L2Octets, Last,
               Good, Test, BadCrc, BadPreamble, OutOfSequence, PreambleGood
  <2> QED BY <2>1, LineSteps, CoreSteps, TickPublish
<1> QED BY <1>1, <1>2, CountingInvariant, PTL DEF LineSpec

(***************************************************************************)
(* Software never reads a mixture: the published counters, size and time   *)
(* are together those after some frame, however freezing fell, because     *)
(* Account writes all of them in the cycle that counts the frame.          *)
(***************************************************************************)
THEOREM PublishedTogetherAlways ==
  ASSUME Countable
  PROVE  LineSpec => []PublishedTogether
<1>1. PublishInv => PublishedTogether
  BY DEF PublishInv, StatisticsOf, PublishedTogether
<1> QED BY <1>1, PublishInvariant, PTL

---------------------------------------------------------------------------
(***************************************************************************)
(* The capture buffer.  Octets reach it a word at a time and a cycle late: *)
(* while a frame is captured, the word under construction holds what the   *)
(* buffer does not have yet.                                               *)
(***************************************************************************)
Capturing == UnderWay /\ ~freeze_stats_sync
Stored(n, k) == mem[(k \div Lanes) % Words][k % Lanes] = <<n, k>>
FrameNumber == IF state = 1 THEN wire.number ELSE Newest.number

BufferInv ==
  /\ DOMAIN mem = 0 .. Words - 1
  /\ DOMAIN frame_buf_in_data = 0 .. Lanes - 1
  /\ frame_buf_in_wr => Capturing

WordInv ==
  ~partial /\ Capturing /\ frame_size > 0 =>
    LET w == (frame_size - 1) \div Lanes
    IN  /\ frame_buf_in_wr /\ frame_buf_in_address = w % Words
        /\ \A k \in 0 .. frame_size - 1 :
             IF k \div Lanes = w
               THEN frame_buf_in_data[k % Lanes] = <<FrameNumber, k>>
               ELSE Stored(FrameNumber, k)

\* The frame whose statistics software reads is in the buffer until another
\* one is captured.
Captured(i) ==
  /\ stats_reg.at = seen[i].at
  /\ stats_reg.size = Last(seen[i].frame) + 1
  /\ \A k \in 0 .. stats_reg.size - 1 : Stored(seen[i].number, k)
KeptInv ==
  ~partial /\ ~Capturing /\ stats_reg.size > 0 =>
    \E i \in DOMAIN seen : Captured(i)

\* Every frame fits in the buffer.
BufferHolds == \A f \in Frames : Last(f) < Words * Lanes

LEMMA Places ==
  ASSUME NEW k \in Nat
  PROVE  /\ k \div Lanes \in Nat /\ k % Lanes \in 0 .. Lanes - 1
         /\ k < Words * Lanes => /\ k \div Lanes \in 0 .. Words - 1
                                 /\ (k \div Lanes) % Words = k \div Lanes
<1>1. k \div Lanes \in Nat /\ k % Lanes \in 0 .. Lanes - 1
  BY DEF Lanes
<1>2. ASSUME k < Words * Lanes PROVE k \div Lanes \in 0 .. Words - 1
  BY <1>2, AnalyzerAssumption DEF Lanes
<1>3. ASSUME NEW q \in 0 .. Words - 1 PROVE q % Words = q
  BY AnalyzerAssumption
<1> QED BY <1>1, <1>2, <1>3

LEMMA SameWord ==
  ASSUME NEW m \in Nat, NEW k \in 0 .. m - 1, k \div Lanes = m \div Lanes
  PROVE  /\ k % Lanes # m % Lanes
         /\ (m - 1) \div Lanes = m \div Lanes
BY DEF Lanes

LEMMA TickBuffer ==
  ASSUME TypeInv, SettleInv, BufferInv, NEW in \in Inputs, NEW now \in Times,
         Tick(in, now), Observe(in, now)
  PROVE  BufferInv'
<1>1. DOMAIN mem' = 0 .. Words - 1
  BY DEF Tick, BufferWrite, BufferInv
<1>2. DOMAIN frame_buf_in_data' = 0 .. Lanes - 1
  BY DEF Tick, Clear, BetweenFrames, InFrame, BufferInv
<1>3. frame_buf_in_wr' => Capturing'
  <2>1. CASE Clear
    BY <2>1 DEF Clear
  <2>2. CASE BetweenFrames(in, now)
    <3>1. state = 0
      BY <2>2 DEF BetweenFrames
    <3>2. frame_buf_in_wr => frame_complete
      BY <3>1 DEF SettleInv, UnderWay
    <3> QED BY <2>2, <3>2 DEF BetweenFrames
  <2>3. CASE InFrame(in)
    <3>1. state' = 1 \/ frame_complete'
      BY <2>3 DEF InFrame
    <3>2. /\ frame_buf_in_wr' <=> ~freeze_stats_sync
          /\ freeze_stats_sync' <=> freeze_stats_sync
      BY <2>3 DEF InFrame, Captures
    <3> QED BY <3>1, <3>2 DEF Capturing, UnderWay
  <2> QED BY <2>1, <2>2, <2>3 DEF Tick
<1> QED BY <1>1, <1>2, <1>3 DEF BufferInv

\* The frame that is captured fits in the buffer.
LEMMA FrameFits ==
  ASSUME TypeInv, SettleInv, TrackInv, BufferHolds, ~partial, UnderWay
  PROVE  /\ frame_size \in Nat /\ frame_size <= Words * Lanes
         /\ Words * Lanes \in Nat
<1>1. Words \in Nat /\ frame_size \in Nat
  BY AnalyzerAssumption DEF TypeInv, MachineTypes
<1>2. Words * Lanes \in Nat
  BY <1>1 DEF Lanes
<1>3. CASE state = 1
  <2>1. frame_size = wire.pos /\ wire.en
    BY <1>3 DEF TrackInv, SettleInv
  <2>2. /\ wire.frame \in Frames /\ Last(wire.frame) \in Nat
        /\ wire.pos \in 0 .. Last(wire.frame)
    BY <2>1, NewArrival
  <2>3. Last(wire.frame) < Words * Lanes
    BY <2>2 DEF BufferHolds
  <2> QED BY <1>1, <1>2, <2>1, <2>2, <2>3
<1>4. CASE frame_complete
  <2>1. seen \in Seq(Arrival) /\ Len(seen) > 0
    BY <1>4 DEF TrackInv
  <2>2. Newest.frame \in Frames
    BY <2>1, EarlierFacts DEF Newest
  <2>3. frame_size = Last(Newest.frame) + 1
    BY <1>4 DEF TrackInv
  <2>4. Last(Newest.frame) \in Nat /\ Last(Newest.frame) < Words * Lanes
    BY <2>2, FrameFacts DEF BufferHolds
  <2> QED BY <1>1, <1>2, <2>3, <2>4
<1> QED BY <1>3, <1>4 DEF UnderWay

\* After a cycle the buffer has every octet that was counted.
LEMMA WordWritten ==
  ASSUME TypeInv, SettleInv, TrackInv, BufferInv, WordInv, BufferHolds,
         ~partial, Capturing, BufferWrite, NEW k \in 0 .. frame_size - 1
  PROVE  mem'[(k \div Lanes) % Words][k % Lanes] = <<FrameNumber, k>>
<1> DEFINE w == (frame_size - 1) \div Lanes
           v == k \div Lanes
<1>1. /\ frame_size \in Nat /\ frame_size <= Words * Lanes
      /\ Words * Lanes \in Nat
  BY FrameFits DEF Capturing
<1>2. /\ k \in Nat /\ k < Words * Lanes
      /\ frame_size > 0 /\ frame_size - 1 \in Nat
      /\ frame_size - 1 < Words * Lanes
  BY <1>1
<1>3. /\ v \in 0 .. Words - 1 /\ v % Words = v
      /\ w \in 0 .. Words - 1 /\ w % Words = w
  BY <1>2, Places
<1>4. /\ frame_buf_in_wr /\ frame_buf_in_address = w % Words
      /\ v = w => frame_buf_in_data[k % Lanes] = <<FrameNumber, k>>
      /\ v # w => mem[v % Words][k % Lanes] = <<FrameNumber, k>>
  BY <1>2 DEF WordInv, Stored
<1> HIDE DEF v, w
<1>5. mem' = [mem EXCEPT ![w] = frame_buf_in_data]
  BY <1>3, <1>4 DEF BufferWrite
<1>6. DOMAIN mem = 0 .. Words - 1
  BY DEF BufferInv
<1>7. mem'[v] = IF v = w THEN frame_buf_in_data ELSE mem[v]
  BY <1>3, <1>5, <1>6
<1>8. mem'[v % Words][k % Lanes] = <<FrameNumber, k>>
  BY <1>3, <1>4, <1>7
<1> QED BY <1>8 DEF v

LEMMA TickWord ==
  ASSUME TypeInv, SettleInv, TrackInv, BufferInv, WordInv, BufferHolds,
         NEW in \in Inputs, NEW now \in Times, Tick(in, now), Observe(in, now)
  PROVE  WordInv'
<1> DEFINE w == (frame_size' - 1) \div Lanes
<1> SUFFICES ASSUME ~partial', Capturing', frame_size' > 0
             PROVE  /\ frame_buf_in_wr' /\ frame_buf_in_address' = w % Words
                    /\ \A k \in 0 .. frame_size' - 1 :
                         IF k \div Lanes = w
                           THEN frame_buf_in_data'[k % Lanes] = <<FrameNumber', k>>
                           ELSE mem'[(k \div Lanes) % Words][k % Lanes]
                                  = <<FrameNumber', k>>
  BY DEF WordInv, Stored
<1>1. run
  <2>1. ~run => state' = 0 /\ ~frame_complete'
    BY TickSeen
  <2> QED BY <2>1 DEF Capturing, UnderWay
<1>2. InFrame(in)
  <2>1. CASE BetweenFrames(in, now)
    <3>1. in.en
      <4>1. state' = 1
        BY <2>1 DEF BetweenFrames, Capturing, UnderWay
      <4> QED BY <1>1, <4>1, TickSeen
    <3>2. frame_size' = 0
      BY <2>1, <3>1 DEF BetweenFrames
    <3> QED BY <3>2
  <2> QED BY <1>1, <2>1 DEF Tick, Clear
<1>3. /\ state = 1 /\ wire.en /\ ~frame_complete
      /\ frame_size \in Nat /\ ~partial
  BY <1>1, <1>2, TickSeen DEF InFrame, SettleInv, TypeInv, MachineTypes
<1>4. ~freeze_stats_sync /\ Capturing
  BY <1>2, <1>3 DEF InFrame, Capturing, UnderWay
<1>5. /\ frame_size' = frame_size + 1 /\ frame_buf_in_wr'
      /\ frame_buf_in_address' = (frame_size \div Lanes) % Words
      /\ frame_buf_in_data' = [frame_buf_in_data EXCEPT ![frame_size % Lanes] = data]
  BY <1>2, <1>4 DEF InFrame, Captures
<1>6. frame_size' - 1 = frame_size
  BY <1>3, <1>5
<1>7. FrameNumber = wire.number /\ data = <<wire.number, frame_size>>
  BY <1>3 DEF FrameNumber, TrackInv
<1>8. FrameNumber' = wire.number
  <2>1. CASE in.en
    <3>1. state' = 1 /\ wire' = in /\ in.number = wire.number
      BY <1>1, <1>3, <2>1, TickSeen, InputFacts DEF Observe
    <3> QED BY <3>1 DEF FrameNumber
  <2>2. CASE ~in.en
    <3>1. state' = 0 /\ frame_complete'
      BY <1>1, <1>3, <2>2, TickSeen
    <3>2. Newest'.number = wire.number
      BY <3>1, Completed
    <3> QED BY <3>1, <3>2 DEF FrameNumber
  <2> QED BY <2>1, <2>2
<1>9. BufferWrite
  BY DEF Tick
<1>10. ASSUME NEW k \in 0 .. frame_size - 1
       PROVE  mem'[(k \div Lanes) % Words][k % Lanes] = <<wire.number, k>>
  BY <1>3, <1>4, <1>7, <1>9, WordWritten
<1>11. ASSUME NEW k \in 0 .. frame_size, k \div Lanes = frame_size \div Lanes
       PROVE  frame_buf_in_data'[k % Lanes] = <<wire.number, k>>
  <2>1. k \in Nat
    BY <1>3
  <2>2. k % Lanes \in 0 .. Lanes - 1 /\ frame_size % Lanes \in 0 .. Lanes - 1
    BY <1>3, <2>1, Places
  <2>3. DOMAIN frame_buf_in_data = 0 .. Lanes - 1
    BY DEF BufferInv
  <2>4. CASE k = frame_size
    BY <1>5, <1>7, <2>2, <2>3, <2>4
  <2>5. CASE k \in 0 .. frame_size - 1
    <3>1. /\ k % Lanes # frame_size % Lanes
          /\ (frame_size - 1) \div Lanes = frame_size \div Lanes
      BY <1>3, <1>11, <2>5, SameWord
    <3>2. frame_size > 0
      BY <1>3, <2>5
    <3>3. frame_buf_in_data[k % Lanes] = <<FrameNumber, k>>
      BY <1>3, <1>4, <1>11, <2>5, <3>1, <3>2 DEF WordInv
    <3>4. frame_buf_in_data'[k % Lanes] = frame_buf_in_data[k % Lanes]
      BY <1>5, <2>2, <2>3, <3>1
    <3> QED BY <1>7, <3>3, <3>4
  <2> QED BY <1>3, <2>4, <2>5
<1>12. ASSUME NEW k \in 0 .. frame_size, k \div Lanes # frame_size \div Lanes
       PROVE  k \in 0 .. frame_size - 1
  <2>1. k # frame_size
    BY <1>12
  <2> QED BY <1>3, <2>1
<1> QED BY <1>5, <1>6, <1>8, <1>10, <1>11, <1>12

LEMMA TickKept ==
  ASSUME TypeInv, SettleInv, TrackInv, BufferInv, WordInv, KeptInv, BufferHolds,
         NEW in \in Inputs, NEW now \in Times, Tick(in, now), Observe(in, now)
  PROVE  KeptInv'
<1> SUFFICES ASSUME ~partial', ~Capturing', stats_reg'.size > 0
             PROVE  \E i \in DOMAIN seen' : Captured(i)'
  BY DEF KeptInv
<1>1. run /\ BufferWrite
  <2>1. ~run => stats_reg' = NoStats
    BY DEF Tick, Clear, BetweenFrames, InFrame
  <2>2. ~(NoStats.size > 0)
    BY DEF NoStats
  <2> QED BY <2>1, <2>2 DEF Tick
<1>2. seen \in Seq(Arrival) /\ ~partial
  BY <1>1, TickSeen DEF TrackInv
<1>3. CASE Capturing
  <2>1. state = 0 /\ frame_complete
    <3>1. ~InFrame(in)
      BY <1>3 DEF InFrame, Capturing, UnderWay
    <3>2. state = 0
      BY <1>1, <3>1 DEF Tick, Clear, BetweenFrames
    <3> QED BY <1>3, <3>2 DEF Capturing, UnderWay
  <2>2. seen' = seen
    BY <1>1, <2>1, TickSeen
  <2>3. stats_reg'.at = timestamp /\ stats_reg'.size = frame_size
    <3>1. Account /\ ~freeze_stats_sync
      BY <1>1, <1>3, <2>1 DEF Tick, Clear, BetweenFrames, InFrame, Capturing
    <3> QED BY <3>1 DEF Account, Publish
  <2>4. /\ timestamp = Newest.at /\ frame_size = Last(Newest.frame) + 1
        /\ Len(seen) > 0
    BY <1>2, <2>1 DEF TrackInv
  <2>5. ASSUME NEW k \in 0 .. frame_size - 1
        PROVE  mem'[(k \div Lanes) % Words][k % Lanes] = <<Newest.number, k>>
    <3>1. FrameNumber = Newest.number
      BY <2>1 DEF FrameNumber
    <3> QED BY <1>1, <1>2, <1>3, <3>1, WordWritten
  <2>6. Len(seen) \in DOMAIN seen
    BY <1>2, <2>4, ArrivalsOf
  <2>7. Captured(Len(seen))'
    BY <2>2, <2>3, <2>4, <2>5 DEF Captured, Stored, Newest, Last
  <2> QED BY <2>2, <2>6, <2>7
<1>4. CASE ~Capturing
  <2>1. mem' = mem
    BY <1>1, <1>4 DEF BufferWrite, BufferInv
  <2>2. stats_reg' = stats_reg
    BY <1>1, <1>4 DEF Tick, Clear, BetweenFrames, InFrame, Account, Publish,
       statistics, Capturing, UnderWay
  <2>3. PICK i \in DOMAIN seen : Captured(i)
    BY <1>2, <1>4, <2>2 DEF KeptInv
  <2>4. i \in DOMAIN seen' /\ seen'[i] = seen[i]
    <3>1. CASE state = 1 /\ ~in.en
      BY <1>1, <1>2, <3>1, TickSeen, NewArrival, AppendArrival DEF SettleInv
    <3>2. CASE ~(state = 1 /\ ~in.en)
      BY <1>1, <3>2, TickSeen
    <3> QED BY <3>1, <3>2
  <2>5. Captured(i)'
    BY <2>1, <2>2, <2>3, <2>4 DEF Captured, Stored, Last
  <2> QED BY <2>4, <2>5
<1> QED BY <1>3, <1>4

CaptureInv == BufferInv /\ WordInv /\ KeptInv

LEMMA InitCapture == LineInit => CaptureInv
<1> SUFFICES ASSUME LineInit PROVE CaptureInv
  OBVIOUS
<1>1. BufferInv
  BY DEF LineInit, Init, BufferInv
<1>2. ~Capturing /\ stats_reg = NoStats
  BY DEF LineInit, Init, Capturing, UnderWay
<1>3. ~(NoStats.size > 0)
  BY DEF NoStats
<1> QED BY <1>1, <1>2, <1>3 DEF CaptureInv, WordInv, KeptInv

LEMMA StepCapture ==
  ASSUME BufferHolds, TypeInv, SettleInv, TrackInv, CaptureInv, CoreStep
  PROVE  CaptureInv'
<1>1. CASE Still
  BY <1>1 DEF Still, CaptureInv, BufferInv, WordInv, KeptInv, Captured,
     Capturing, UnderWay, Stored, FrameNumber, Newest, Last, machine, capture,
     statistics, observers
<1> QED BY <1>1, CoreSteps, TickBuffer, TickWord, TickKept DEF CaptureInv

(***************************************************************************)
(* What the capture buffer holds when software reads it: once the analyzer *)
(* is frozen and the frame under way has ended, every octet of the frame   *)
(* whose size and time are published, and none of another frame, although  *)
(* the freeze may be set at any octet, words are written a cycle late and  *)
(* frames go on arriving.  Frames fit in the buffer: a longer one wraps    *)
(* around and overwrites its own beginning.                                *)
(***************************************************************************)
THEOREM CaptureWholeAlways ==
  ASSUME BufferHolds
  PROVE  LineSpec => []CaptureWhole
<1>1. TypeInv /\ SettleInv /\ TrackInv /\ CaptureInv /\ [LineNext]_lineVars
      => CaptureInv'
  BY LineSteps, StepCapture
<1>2. HoldInv /\ CaptureInv => CaptureWhole
  BY DEF HoldInv, CaptureInv, KeptInv, Capturing, UnderWay, Captured, Stored,
     CaptureWhole
<1> QED BY <1>1, <1>2, InitCapture, TrackInvariant, PTL DEF LineSpec

---------------------------------------------------------------------------
(***************************************************************************)
(* Latencies.  A testframe is measured in the cycle after it ended and     *)
(* compared one cycle later.                                               *)
(***************************************************************************)
Delay(e) == Nsec(e.at) - Nsec(e.frame.sent)

Bounds(s, min, max) ==
  IF Test(s) = {} THEN min = FarOff /\ max = Zero
  ELSE /\ min \in Time /\ Nsec(min) \in Delays(s)
       /\ max \in Time /\ Nsec(max) \in Delays(s)
       /\ \A d \in Delays(s) : Nsec(min) <= d /\ d <= Nsec(max)

StampInv ==
  /\ wire.en => rise \in Times
  /\ \A i \in DOMAIN seen : seen[i].at \in Times

MeasureInv ==
  ~partial =>
    /\ Bounds(IF frame_complete \/ update_latency THEN Earlier ELSE seen,
              latency_min, latency_max)
    /\ update_latency => /\ Len(seen) \in Test(seen)
                         /\ Nsec(latency) = Delay(Newest)

\* A record of latencies as published after the frames in s.
LatenciesOf(r, s) ==
  /\ Bounds(s, r.min, r.max)
  /\ Test(s) # {} => Nsec(r.last) = Delay(s[Max(Test(s))])
ReportInv == ~partial => \E s \in Prefixes : LatenciesOf(latency_reg, s)

\* A testframe is received no earlier than it was sent.
Causal == \A t \in Times, f \in Frames : f.test => Nsec(f.sent) <= Nsec(t)

LEMMA NsecType ==
  ASSUME NEW t \in Time
  PROVE  /\ t.sec \in Nat /\ t.nsec \in Nat /\ t.nsec < NsecModulo
         /\ t.sec < SecWrap /\ Nsec(t) \in Nat
         /\ NsecModulo \in Nat /\ SecWrap \in Nat
<1>1. /\ t.sec \in 0 .. SecWrap - 1 /\ t.nsec \in 0 .. NsecModulo - 1
      /\ NsecModulo \in Nat /\ SecWrap \in Nat
  BY AnalyzerAssumption DEF Time
<1> DEFINE m == NsecModulo
           a == t.sec
<1>2. a \in Nat /\ m \in Nat
  BY <1>1
<1> HIDE DEF m, a
<1>3. a * m \in Nat
  BY <1>2
<1>4. t.sec * NsecModulo \in Nat
  BY <1>3 DEF m, a
<1> QED BY <1>1, <1>4 DEF Nsec

LEMMA LaterSecond ==
  ASSUME NEW m \in Nat, NEW a \in Nat, NEW b \in Nat, a < b,
         NEW x \in Nat, NEW y \in Nat, x < m
  PROVE  a * m + x < b * m + y
<1> DEFINE d == b - a - 1
<1>1. d \in Nat /\ b = a + 1 + d
  OBVIOUS
<1> HIDE DEF d
<1>2. b * m = a * m + m + d * m
  BY <1>1
<1>3. d * m \in Nat /\ a * m \in Nat
  BY <1>1
<1>4. a * m + x < a * m + m + d * m + y
  <2> DEFINE p == a * m
             q == d * m
  <2> HIDE DEF p, q
  <2>1. p \in Nat /\ q \in Nat
    BY <1>3 DEF p, q
  <2>2. p + x < p + m + q + y
    BY <2>1
  <2> QED BY <2>2 DEF p, q
<1> QED BY <1>2, <1>4

LEMMA BeforeIsEarlier ==
  ASSUME NEW s \in Time, NEW t \in Time
  PROVE  Before(s, t) <=> Nsec(s) < Nsec(t)
<1>1. /\ s.sec \in Nat /\ s.nsec \in Nat /\ s.nsec < NsecModulo
      /\ t.sec \in Nat /\ t.nsec \in Nat /\ t.nsec < NsecModulo
      /\ NsecModulo \in Nat /\ Nsec(s) \in Nat /\ Nsec(t) \in Nat
  BY NsecType
<1>2. CASE s.sec < t.sec
  <2>1. Nsec(s) < Nsec(t)
    BY <1>1, <1>2, LaterSecond DEF Nsec
  <2> QED BY <1>2, <2>1 DEF Before
<1>3. CASE t.sec < s.sec
  <2>1. Nsec(t) < Nsec(s)
    BY <1>1, <1>3, LaterSecond DEF Nsec
  <2>2. ~(Nsec(s) < Nsec(t)) /\ ~(s.sec < t.sec) /\ s.sec # t.sec
    BY <1>1, <1>3, <2>1
  <2> QED BY <2>2 DEF Before
<1>4. CASE s.sec = t.sec
  <2> DEFINE p == s.sec * NsecModulo
  <2>1. Nsec(s) = p + s.nsec /\ Nsec(t) = p + t.nsec
    BY <1>4 DEF Nsec
  <2>2. p \in Int
    <3> DEFINE a == s.sec
               m == NsecModulo
    <3> HIDE DEF a, m
    <3>1. a * m \in Int
      BY <1>1 DEF a, m
    <3> QED BY <3>1 DEF a, m
  <2> HIDE DEF p
  <2>3. Nsec(s) < Nsec(t) <=> s.nsec < t.nsec
    BY <1>1, <2>1, <2>2
  <2>4. ~(s.sec < t.sec)
    BY <1>1, <1>4
  <2> QED BY <1>4, <2>3, <2>4 DEF Before
<1> QED BY <1>1, <1>2, <1>3, <1>4

\* The subtraction of times, with the borrow taken by hand.
LEMMA ElapsedIsDifference ==
  ASSUME NEW rx \in Time, NEW tx \in Time, Nsec(tx) <= Nsec(rx)
  PROVE  Nsec(Elapsed(rx, tx)) = Nsec(rx) - Nsec(tx)
<1> DEFINE m == NsecModulo
           a == rx.sec
           b == tx.sec
           x == rx.nsec
           y == tx.nsec
<1>1. /\ a \in Nat /\ x \in Nat /\ x < m /\ a < SecWrap /\ Nsec(rx) \in Nat
      /\ b \in Nat /\ y \in Nat /\ y < m /\ b < SecWrap /\ Nsec(tx) \in Nat
      /\ m \in Nat /\ SecWrap \in Nat
  BY NsecType
<1>2. Nsec(rx) = a * m + x /\ Nsec(tx) = b * m + y
  BY DEF Nsec
<1>3. Elapsed(rx, tx) =
        IF x < y THEN [sec |-> SecMinus(a, b + 1), nsec |-> m - y + x]
                 ELSE [sec |-> SecMinus(a, b), nsec |-> x - y]
  BY DEF Elapsed
<1> HIDE DEF m, a, b, x, y
<1>4. b <= a
  <2> SUFFICES ASSUME a < b PROVE FALSE
    BY <1>1
  <2>1. a * m + x < b * m + y
    BY <1>1, LaterSecond
  <2> QED BY <1>1, <1>2, <2>1
<1>5. CASE x < y
  <2>1. b # a
    <3> SUFFICES ASSUME b = a PROVE FALSE
      OBVIOUS
    <3> DEFINE p == a * m
    <3>1. p \in Int /\ Nsec(rx) = p + x /\ Nsec(tx) = p + y
      BY <1>1, <1>2
    <3> HIDE DEF p
    <3> QED BY <1>1, <1>5, <3>1
  <2>2. a - (b + 1) \in 0 .. SecWrap - 1
    BY <1>1, <1>4, <2>1
  <2>3. SecMinus(a, b + 1) = a - b - 1
    BY <1>1, <2>2 DEF SecMinus
  <2>4. Nsec(Elapsed(rx, tx)) = (a - b - 1) * m + (m - y + x)
    BY <1>3, <1>5, <2>3 DEF Nsec, m
  <2>5. (a - b - 1) * m + (m - y + x) = (a * m + x) - (b * m + y)
    BY <1>1
  <2> QED BY <1>2, <2>4, <2>5
<1>6. CASE ~(x < y)
  <2>1. a - b \in 0 .. SecWrap - 1
    BY <1>1, <1>4
  <2>2. SecMinus(a, b) = a - b
    BY <1>1, <2>1 DEF SecMinus
  <2>3. Nsec(Elapsed(rx, tx)) = (a - b) * m + (x - y)
    BY <1>3, <1>6, <2>2 DEF Nsec, m
  <2>4. (a - b) * m + (x - y) = (a * m + x) - (b * m + y)
    BY <1>1
  <2> QED BY <1>2, <2>3, <2>4
<1> QED BY <1>5, <1>6

LEMMA DelaysFacts ==
  ASSUME NEW s \in Seq(Arrival)
  PROVE  Delays(s) \subseteq Int /\ (Delays(s) = {} <=> Test(s) = {})
<1>1. \A i \in Test(s) : s[i].frame \in Frames /\ s[i].at \in Time
  BY ArrivalsOf, ClassDomains
<1>2. \A i \in Test(s) : Nsec(s[i].at) \in Nat /\ Nsec(s[i].frame.sent) \in Nat
  BY <1>1, FrameFacts, NsecType
<1>3. \A i \in Test(s) : Nsec(s[i].at) - Nsec(s[i].frame.sent) \in Int
  BY <1>2
<1> QED BY <1>3 DEF Delays

LEMMA DelaysAppend ==
  ASSUME NEW s \in Seq(Arrival), NEW e \in Arrival
  PROVE  LET a == Append(s, e)
             n == Len(s) + 1
         IN  /\ n \in Test(a) => /\ Delays(a) = Delays(s) \cup {Delay(e)}
                                 /\ Test(a) # {} /\ Max(Test(a)) = n
             /\ n \notin Test(a) => Delays(a) = Delays(s) /\ Test(a) = Test(s)
<1> DEFINE a == Append(s, e)
           n == Len(s) + 1
<1>1. Test(a) = Test(s) \/ Test(a) = Test(s) \cup {n}
  BY Classes DEF Only
<1>2. /\ (\A i \in DOMAIN s : a[i] = s[i]) /\ a[n] = e
      /\ Test(s) \subseteq DOMAIN s
      /\ DOMAIN s = 1 .. Len(s) /\ Len(s) \in Nat
  BY AppendArrival, ClassDomains
<1> HIDE DEF a
<1>3. CASE n \in Test(a)
  <2>1. n \notin Test(s)
    BY <1>2
  <2>2. Test(a) = Test(s) \cup {n}
    BY <1>1, <1>3, <2>1
  <2>3. Delays(a) = Delays(s) \cup {Delay(e)}
    BY <1>2, <2>2 DEF Delays, Delay
  <2>4. Test(a) \subseteq Int /\ \A y \in Test(a) : y <= n
    BY <1>2, <2>2
  <2>5. Max(Test(a)) = n
    BY <1>3, <2>4, MaxIs
  <2> QED BY <1>3, <2>3, <2>5 DEF a
<1>4. CASE n \notin Test(a)
  <2>1. Test(a) = Test(s)
    BY <1>1, <1>4
  <2>2. Delays(a) = Delays(s)
    BY <1>2, <2>1 DEF Delays
  <2> QED BY <1>4, <2>1, <2>2 DEF a
<1> QED BY <1>3, <1>4

\* Comparing the latency of one more testframe.
LEMMA BoundsAppend ==
  ASSUME NEW s \in Seq(Arrival), NEW e \in Arrival,
         Len(s) + 1 \in Test(Append(s, e)),
         NEW min, NEW max, Bounds(s, min, max),
         NEW t \in Time, Nsec(t) = Delay(e)
  PROVE  Bounds(Append(s, e), IF Before(t, min) THEN t ELSE min,
                              IF Before(max, t) THEN t ELSE max)
<1> DEFINE a == Append(s, e)
           lo == IF Before(t, min) THEN t ELSE min
           hi == IF Before(max, t) THEN t ELSE max
<1>1. Delays(a) = Delays(s) \cup {Nsec(t)} /\ Test(a) # {}
  BY DelaysAppend
<1>2. Delays(s) \subseteq Int /\ (Delays(s) = {} <=> Test(s) = {})
  BY DelaysFacts
<1>3. Nsec(t) \in Nat
  BY NsecType
<1> HIDE DEF a
<1>4. CASE Test(s) = {}
  <2>1. min = FarOff /\ max = Zero /\ Delays(a) = {Nsec(t)}
    BY <1>1, <1>2, <1>4 DEF Bounds
  <2>2. Before(t, FarOff)
    <3>1. /\ t.sec \in Nat /\ t.nsec \in Nat /\ t.nsec < NsecModulo
          /\ t.sec < SecWrap /\ NsecModulo \in Nat /\ SecWrap \in Nat
      BY NsecType
    <3>2. t.sec < SecWrap - 1 \/ t.sec = SecWrap - 1
      BY <3>1
    <3> QED BY <3>1, <3>2 DEF Before, FarOff
  <2>3. lo = t
    BY <2>1, <2>2
  <2>4. hi \in Time /\ Nsec(hi) = Nsec(t)
    <3>1. Zero \in Time
      BY TimeFacts
    <3>2. CASE Before(max, t)
      BY <3>2
    <3>3. CASE ~Before(max, t)
      <4>1. ~(Nsec(Zero) < Nsec(t))
        BY <2>1, <3>1, <3>3, BeforeIsEarlier
      <4>2. Nsec(Zero) = 0
        BY AnalyzerAssumption DEF Nsec, Zero
      <4>3. Nsec(t) = 0
        BY <1>3, <4>1, <4>2
      <4> QED BY <2>1, <3>1, <3>3, <4>2, <4>3
    <3> QED BY <3>2, <3>3
  <2> HIDE DEF lo, hi
  <2>5. Bounds(a, lo, hi)
    BY <1>1, <1>3, <2>1, <2>3, <2>4 DEF Bounds
  <2> QED BY <2>5 DEF a, lo, hi
<1>5. CASE Test(s) # {}
  <2>1. /\ min \in Time /\ Nsec(min) \in Delays(s)
        /\ max \in Time /\ Nsec(max) \in Delays(s)
        /\ \A d \in Delays(s) : Nsec(min) <= d /\ d <= Nsec(max)
    BY <1>5 DEF Bounds
  <2>2. /\ Before(t, min) <=> Nsec(t) < Nsec(min)
        /\ Before(max, t) <=> Nsec(max) < Nsec(t)
    BY <2>1, BeforeIsEarlier
  <2>3. Nsec(min) \in Nat /\ Nsec(max) \in Nat
    BY <2>1, NsecType
  <2>4. /\ lo \in Time /\ Nsec(lo) = IF Nsec(t) < Nsec(min) THEN Nsec(t)
                                                            ELSE Nsec(min)
        /\ hi \in Time /\ Nsec(hi) = IF Nsec(max) < Nsec(t) THEN Nsec(t)
                                                            ELSE Nsec(max)
    BY <2>1, <2>2
  <2> HIDE DEF lo, hi
  <2>5. Nsec(lo) \in Delays(a) /\ Nsec(hi) \in Delays(a)
    BY <1>1, <2>1, <2>4
  <2>6. /\ Nsec(lo) <= Nsec(t) /\ Nsec(lo) <= Nsec(min)
        /\ Nsec(t) <= Nsec(hi) /\ Nsec(max) <= Nsec(hi)
        /\ Nsec(lo) \in Nat /\ Nsec(hi) \in Nat
    BY <1>3, <2>3, <2>4
  <2>7. \A d \in Delays(a) : Nsec(lo) <= d /\ d <= Nsec(hi)
    <3> SUFFICES ASSUME NEW d \in Delays(a)
                 PROVE  Nsec(lo) <= d /\ d <= Nsec(hi)
      OBVIOUS
    <3>1. CASE d = Nsec(t)
      BY <2>6, <3>1
    <3>2. CASE d \in Delays(s)
      <4>1. d \in Int /\ Nsec(min) <= d /\ d <= Nsec(max)
        BY <1>2, <2>1, <3>2
      <4> QED BY <2>3, <2>6, <4>1
    <3> QED BY <1>1, <3>1, <3>2
  <2>8. Bounds(a, lo, hi)
    BY <1>1, <2>4, <2>5, <2>7 DEF Bounds
  <2> QED BY <2>8 DEF a, lo, hi
<1> QED BY <1>4, <1>5

LEMMA TickStamp ==
  ASSUME TypeInv, SettleInv, TrackInv, StampInv, NEW in \in Inputs,
         NEW now \in Times, Tick(in, now), Observe(in, now)
  PROVE  StampInv'
<1> DEFINE e == [frame |-> wire.frame, at |-> rise, number |-> wire.number]
<1>1. wire'.en => rise' \in Times
  BY DEF Observe, StampInv
<1>2. \A i \in DOMAIN seen' : seen'[i].at \in Times
  <2>1. CASE ~run
    <3>1. seen' = <<>>
      BY <2>1, TickSeen
    <3> QED BY <3>1
  <2>2. CASE run /\ state = 1 /\ ~in.en
    <3>1. seen' = Append(seen, e) /\ wire.en
      BY <2>2, TickSeen DEF SettleInv
    <3>2. e.at \in Times
      BY <3>1 DEF StampInv
    <3>3. seen \in Seq(Arrival) /\ e \in Arrival
      BY <3>1, NewArrival DEF TrackInv
    <3>4. /\ DOMAIN seen' = (DOMAIN seen) \cup {Len(seen) + 1}
          /\ \A i \in DOMAIN seen : seen'[i] = seen[i]
          /\ seen'[Len(seen) + 1] = e
      BY <3>1, <3>3, AppendArrival
    <3> QED BY <3>2, <3>4 DEF StampInv
  <2>3. CASE run /\ ~(state = 1 /\ ~in.en)
    BY <2>3, TickSeen DEF StampInv
  <2> QED BY <2>1, <2>2, <2>3
<1> QED BY <1>1, <1>2 DEF StampInv

\* The frame that is complete is measured if it is a good testframe.
LEMMA MeasuresTestframes ==
  ASSUME TypeInv, SettleInv, TrackInv, ReceiverInv, frame_complete
  PROVE  /\ Measures <=> Len(seen) \in Test(seen)
         /\ Earlier \in Seq(Arrival) /\ Newest \in Arrival
         /\ Newest.frame \in Frames /\ Verdict(Newest.frame)
         /\ seen = Append(Earlier, Newest) /\ Len(seen) = Len(Earlier) + 1
<1> DEFINE f == Newest.frame
<1>1. seen \in Seq(Arrival) /\ Len(seen) > 0 /\ Verdict(f) /\ state = 0
  BY DEF TrackInv, ReceiverInv, SettleInv
<1>2. /\ Earlier \in Seq(Arrival) /\ Newest \in Arrival /\ f \in Frames
      /\ seen = Append(Earlier, Newest) /\ Len(seen) = Len(Earlier) + 1
  BY <1>1, EarlierFacts DEF Earlier, Newest
<1>3. /\ Test(seen) = Test(Earlier)
           \cup Only(PreambleGood(f) /\ f.good /\ f.test, Len(Earlier) + 1)
      /\ Len(Earlier) + 1 \notin DOMAIN Earlier
      /\ Test(Earlier) \in SUBSET DOMAIN Earlier
  BY <1>2, Classes, AppendArrival, ClassDomains
<1>4. Measures <=> PreambleGood(f) /\ f.good /\ f.test
  BY <1>1 DEF Measures, Verdict
<1>5. Measures <=> Len(seen) \in Test(seen)
  BY <1>2, <1>3, <1>4 DEF Only
<1> QED BY <1>1, <1>2, <1>5

LEMMA MeasuredLatency ==
  ASSUME TypeInv, SettleInv, TrackInv, ReceiverInv, StampInv, Causal,
         ~partial, MeasureLatency
  PROVE  /\ frame_complete /\ Len(seen) \in Test(seen)
         /\ Nsec(latency') = Delay(Newest)
<1>1. frame_complete /\ Measures
  BY DEF MeasureLatency, Measures
<1>2. /\ Len(seen) \in Test(seen) /\ Newest.frame \in Frames
      /\ Verdict(Newest.frame) /\ Newest \in Arrival
  BY <1>1, MeasuresTestframes
<1>3. PreambleGood(Newest.frame) /\ Newest.frame.test
  BY <1>1, <1>2 DEF Measures, Verdict
<1>4. parsed.sent = Newest.frame.sent /\ timestamp = Newest.at
  BY <1>1, <1>2, <1>3 DEF Verdict, TrackInv
<1>5. Newest.at \in Times
  <2>1. seen \in Seq(Arrival) /\ Len(seen) > 0
    BY <1>1 DEF TrackInv
  <2>2. Len(seen) \in DOMAIN seen
    BY <2>1, ArrivalsOf
  <2> QED BY <2>2 DEF StampInv, Newest
<1>6. Newest.at \in Time /\ Newest.frame.sent \in Time
  BY <1>2, <1>5, FrameFacts, TimeFacts
<1>7. Nsec(Newest.frame.sent) <= Nsec(Newest.at)
  BY <1>2, <1>3, <1>5 DEF Causal
<1>8. latency' = Elapsed(Newest.at, Newest.frame.sent)
  BY <1>4 DEF MeasureLatency
<1> QED BY <1>1, <1>2, <1>6, <1>7, <1>8, ElapsedIsDifference DEF Delay

LEMMA ComparedLatency ==
  ASSUME TypeInv, SettleInv, TrackInv, MeasureInv, ~partial, ~frame_complete,
         CompareLatency
  PROVE  /\ Bounds(seen, latency_min', latency_max')
         /\ update_latency_regs =>
              LatenciesOf(latency_reg', seen)
         /\ ~update_latency_regs => latency_reg' = latency_reg
<1> DEFINE lo == IF Before(latency, latency_min) THEN latency ELSE latency_min
           hi == IF Before(latency_max, latency) THEN latency ELSE latency_max
<1>1. CASE update_latency
  <2>1. /\ Bounds(Earlier, latency_min, latency_max)
        /\ Len(seen) \in Test(seen) /\ Nsec(latency) = Delay(Newest)
    BY <1>1 DEF MeasureInv
  <2>2. latency \in Time
    BY <1>1 DEF TypeInv, LatencyTypes
  <2>3. seen \in Seq(Arrival) /\ Len(seen) > 0
    <3>1. seen \in Seq(Arrival)
      BY DEF TrackInv
    <3>2. Test(seen) \in SUBSET (1 .. Len(seen)) /\ Len(seen) \in Nat
      BY <3>1, ClassDomains
    <3> QED BY <2>1, <3>1, <3>2
  <2>4. /\ Earlier \in Seq(Arrival) /\ Newest \in Arrival
        /\ seen = Append(Earlier, Newest) /\ Len(seen) = Len(Earlier) + 1
    BY <2>3, EarlierFacts DEF Earlier, Newest
  <2>5. Bounds(Append(Earlier, Newest), lo, hi)
    BY <2>1, <2>2, <2>4, BoundsAppend
  <2>6. Bounds(seen, lo, hi)
    BY <2>4, <2>5
  <2>7. Max(Test(seen)) = Len(seen)
    BY <2>1, <2>4, DelaysAppend
  <2>8. latency_min' = lo /\ latency_max' = hi
    BY <1>1 DEF CompareLatency
  <2>9. ASSUME update_latency_regs PROVE LatenciesOf(latency_reg', seen)
    <3>1. latency_reg' = [last |-> latency, min |-> lo, max |-> hi]
      BY <2>9 DEF CompareLatency, PublishedLatency
    <3> HIDE DEF lo, hi
    <3> QED BY <2>1, <2>6, <2>7, <3>1 DEF LatenciesOf, Newest
  <2>10. ~update_latency_regs => latency_reg' = latency_reg
    BY DEF CompareLatency
  <2> QED BY <2>6, <2>8, <2>9, <2>10
<1>2. CASE ~update_latency
  <2>1. ~update_latency_regs
    BY <1>2 DEF TypeInv, LatencyTypes
  <2>2. /\ latency_min' = latency_min /\ latency_max' = latency_max
        /\ latency_reg' = latency_reg
    BY <1>2, <2>1 DEF CompareLatency
  <2>3. Bounds(seen, latency_min, latency_max)
    BY <1>2 DEF MeasureInv
  <2> QED BY <2>1, <2>2, <2>3
<1> QED BY <1>1, <1>2

LEMMA TickMeasure ==
  ASSUME TypeInv, SettleInv, TrackInv, ReceiverInv, StampInv, MeasureInv, Causal,
         NEW in \in Inputs, NEW now \in Times, Tick(in, now), Observe(in, now)
  PROVE  MeasureInv'
<1> SUFFICES ASSUME ~partial'
             PROVE  /\ Bounds(IF frame_complete' \/ update_latency'
                                THEN Earlier' ELSE seen',
                              latency_min', latency_max')
                    /\ update_latency' => /\ Len(seen') \in Test(seen')
                                          /\ Nsec(latency') = Delay(Newest')
  BY DEF MeasureInv, Bounds, Delays, Delay, Nsec, Test, Good, BadPreamble, BadCrc,
     PreambleGood
<1>1. ClearLatency \/ MeasureLatency \/ CompareLatency
  BY DEF Tick
<1>2. CASE ~run
  <2>1. seen' = <<>> /\ ~frame_complete'
    BY <1>2, TickSeen
  <2>2. /\ latency_min' = FarOff /\ latency_max' = Zero /\ ~update_latency'
    BY <1>1, <1>2 DEF ClearLatency, MeasureLatency, CompareLatency
  <2> QED BY <2>1, <2>2, NothingSeen DEF Bounds
<1>3. CASE run /\ frame_complete
  <2>1. state = 0 /\ ~update_latency
    BY <1>3 DEF SettleInv
  <2>2. seen' = seen /\ ~frame_complete' /\ ~partial
    BY <1>3, <2>1, TickSeen
  <2>3. Bounds(Earlier, latency_min, latency_max)
    BY <1>3, <2>2 DEF MeasureInv
  <2>4. Earlier' = Earlier /\ Newest' = Newest
    BY <2>2 DEF Earlier, Newest
  <2>5. CASE MeasureLatency
    <3>1. Len(seen) \in Test(seen) /\ Nsec(latency') = Delay(Newest)
      BY <2>2, <2>5, MeasuredLatency
    <3>2. /\ latency_min' = latency_min /\ latency_max' = latency_max
          /\ update_latency'
      BY <2>5 DEF MeasureLatency
    <3> QED BY <2>2, <2>3, <2>4, <3>1, <3>2
  <2>6. CASE CompareLatency
    <3>1. /\ latency_min' = latency_min /\ latency_max' = latency_max
          /\ ~update_latency' /\ ~Measures
      BY <2>1, <2>6 DEF CompareLatency
    <3>2. /\ Len(seen) \notin Test(seen)
          /\ Earlier \in Seq(Arrival) /\ Newest \in Arrival
          /\ seen = Append(Earlier, Newest) /\ Len(seen) = Len(Earlier) + 1
      BY <1>3, <3>1, MeasuresTestframes
    <3>3. Delays(seen) = Delays(Earlier) /\ Test(seen) = Test(Earlier)
      BY <3>2, DelaysAppend
    <3>4. Bounds(seen, latency_min, latency_max)
      BY <2>3, <3>3 DEF Bounds
    <3> QED BY <2>2, <3>1, <3>4
  <2> QED BY <1>1, <1>3, <2>5, <2>6 DEF ClearLatency
<1>4. CASE run /\ ~frame_complete
  <2>1. CompareLatency
    BY <1>1, <1>4 DEF ClearLatency, MeasureLatency, Measures
  <2>2. ~partial /\ ~update_latency'
    BY <1>4, <2>1, TickSeen DEF CompareLatency
  <2>3. Bounds(seen, latency_min', latency_max')
    BY <1>4, <2>1, <2>2, ComparedLatency
  <2>4. CASE state = 1 /\ ~in.en
    <3> DEFINE e == [frame |-> wire.frame, at |-> rise, number |-> wire.number]
    <3>1. seen' = Append(seen, e) /\ frame_complete'
      BY <1>4, <2>4, TickSeen
    <3>2. seen \in Seq(Arrival) /\ e \in Arrival
      BY <2>4, NewArrival DEF TrackInv, SettleInv
    <3>3. Earlier' = seen
      BY <3>1, <3>2, EarlierOfAppend DEF Earlier
    <3> QED BY <2>2, <2>3, <3>1, <3>3
  <2>5. CASE ~(state = 1 /\ ~in.en)
    <3>1. seen' = seen /\ ~frame_complete'
      BY <1>4, <2>5, TickSeen
    <3> QED BY <2>2, <2>3, <3>1
  <2> QED BY <2>4, <2>5
<1> QED BY <1>2, <1>3, <1>4

LEMMA TickReport ==
  ASSUME TypeInv, SettleInv, TrackInv, MeasureInv, ReportInv,
         NEW in \in Inputs, NEW now \in Times, Tick(in, now), Observe(in, now)
  PROVE  ReportInv'
<1> SUFFICES ASSUME ~partial'
             PROVE  \E s \in Prefixes' : LatenciesOf(latency_reg', s)
  BY DEF ReportInv, LatenciesOf, Bounds, Delays, Delay, Nsec, Test, Good,
     BadPreamble, BadCrc, PreambleGood
<1>1. ClearLatency \/ MeasureLatency \/ CompareLatency
  BY DEF Tick
<1>2. CASE ~run
  <2>1. <<>> \in Prefixes' /\ latency_reg' = NoLatency
    BY <1>1, <1>2, TickPrefixes DEF ClearLatency, MeasureLatency, CompareLatency
  <2>2. LatenciesOf(NoLatency, <<>>)
    BY NothingSeen DEF LatenciesOf, Bounds, NoLatency
  <2> QED BY <2>1, <2>2
<1>3. CASE run
  <2>1. Prefixes \subseteq Prefixes' /\ seen \in Prefixes /\ ~partial
    BY <1>3, TickPrefixes, TickSeen
  <2>2. CASE latency_reg' = latency_reg
    <3>1. \E s \in Prefixes : LatenciesOf(latency_reg, s)
      BY <2>1 DEF ReportInv
    <3> QED BY <2>1, <2>2, <3>1
  <2>3. CASE latency_reg' # latency_reg
    <3>1. CompareLatency /\ update_latency_regs
      BY <1>1, <1>3, <2>3 DEF ClearLatency, MeasureLatency, CompareLatency
    <3>2. ~frame_complete
      BY <3>1 DEF SettleInv, TypeInv, LatencyTypes
    <3>3. LatenciesOf(latency_reg', seen)
      BY <2>1, <3>1, <3>2, ComparedLatency
    <3> QED BY <2>1, <3>3
  <2> QED BY <2>2, <2>3
<1> QED BY <1>2, <1>3

LatencyInv == ReceiverInv /\ StampInv /\ MeasureInv /\ ReportInv

LEMMA InitLatency == LineInit => LatencyInv
<1> SUFFICES ASSUME LineInit PROVE LatencyInv
  OBVIOUS
<1>1. /\ ~wire.en /\ rx_state = 0 /\ ~frame_complete /\ ~update_latency
      /\ seen = <<>> /\ latency_min = FarOff /\ latency_max = Zero
      /\ latency_reg = NoLatency
  BY DEF LineInit, Init, Quiet
<1>2. ReceiverInv /\ StampInv
  BY <1>1 DEF ReceiverInv, StampInv
<1>3. MeasureInv
  BY <1>1, NothingSeen DEF MeasureInv, Bounds
<1>4. Len(<<>>) = 0 /\ 0 \in 0 .. 0 /\ SubSeq(<<>>, 1, 0) = <<>>
  BY EmptySeq, SubSeqEmpty
<1>5. <<>> \in Prefixes
  BY <1>1, <1>4 DEF Prefixes
<1>6. LatenciesOf(NoLatency, <<>>)
  BY NothingSeen DEF LatenciesOf, Bounds, NoLatency
<1> QED BY <1>1, <1>2, <1>3, <1>5, <1>6 DEF LatencyInv, ReportInv

LEMMA StepLatency ==
  ASSUME NoneEmpty, Causal, TypeInv, SettleInv, TrackInv, LatencyInv, CoreStep
  PROVE  LatencyInv'
<1>1. CASE Still
  <2>1. ReceiverInv'
    BY <1>1 DEF Still, LatencyInv, ReceiverInv, ReceiverAt, Verdict, Newest,
       Fives, PreambleGood, Last, receiver, machine, observers
  <2>2. /\ seen' = seen /\ Prefixes' = Prefixes /\ Earlier' = Earlier
        /\ Newest' = Newest /\ wire' = wire /\ rise' = rise
        /\ partial' = partial /\ frame_complete' = frame_complete
        /\ latency' = latency /\ latency_min' = latency_min
        /\ latency_max' = latency_max /\ latency_reg' = latency_reg
        /\ update_latency' = update_latency
    BY <1>1 DEF Still, Prefixes, Earlier, Newest, machine, latencies, observers
  <2>3. StampInv'
    BY <2>2 DEF LatencyInv, StampInv
  <2>4. MeasureInv
    BY DEF LatencyInv
  <2>5. MeasureInv'
    BY <2>2, <2>4, Zenon DEF MeasureInv
  <2>6. ReportInv'
    BY <2>2 DEF LatencyInv, ReportInv, LatenciesOf, Bounds, Delays, Delay,
       Nsec, Test, Good, BadPreamble, BadCrc, PreambleGood
  <2> QED BY <2>1, <2>3, <2>6, <2>5 DEF LatencyInv
<1>2. ASSUME NEW in \in Inputs, NEW now \in Times, Tick(in, now),
             Observe(in, now)
      PROVE  LatencyInv'
  <2>1. ReceiverInv /\ StampInv /\ MeasureInv /\ ReportInv
    BY DEF LatencyInv
  <2>2. ReceiverInv'
    BY <1>2, <2>1, TickReceiver
  <2>3. StampInv'
    BY <1>2, <2>1, TickStamp
  <2>4. MeasureInv'
    BY <1>2, <2>1, TickMeasure
  <2>5. ReportInv'
    BY <1>2, <2>1, TickReport
  <2> QED BY <2>2, <2>3, <2>4, <2>5 DEF LatencyInv
<1> QED BY <1>1, <1>2, CoreSteps

LEMMA LatencyInvariant ==
  ASSUME NoneEmpty, Causal
  PROVE  LineSpec => [](TypeInv /\ SettleInv /\ HoldInv /\ TrackInv /\ LatencyInv)
<1>1. TypeInv /\ SettleInv /\ TrackInv /\ LatencyInv /\ [LineNext]_lineVars
      => LatencyInv'
  BY LineSteps, StepLatency
<1> QED BY <1>1, InitLatency, TrackInvariant, PTL DEF LineSpec

LEMMA ExtremesOf ==
  ASSUME NEW s \in Seq(Arrival), NEW min, NEW max, Bounds(s, min, max)
  PROVE  Extremes(s, min, max)
<1>1. Delays(s) \subseteq Int /\ (Delays(s) = {} <=> Test(s) = {})
  BY DelaysFacts
<1>2. CASE Test(s) = {}
  BY <1>1, <1>2 DEF Bounds, Extremes
<1>3. CASE Test(s) # {}
  <2>1. /\ Nsec(min) \in Delays(s) /\ Nsec(max) \in Delays(s)
        /\ \A d \in Delays(s) : Nsec(min) <= d
        /\ \A d \in Delays(s) : d <= Nsec(max)
    BY <1>3 DEF Bounds
  <2>2. Min(Delays(s)) = Nsec(min)
    BY <1>1, <2>1, MinIs
  <2>3. Max(Delays(s)) = Nsec(max)
    BY <1>1, <2>1, MaxIs
  <2> QED BY <1>1, <1>3, <2>2, <2>3 DEF Extremes
<1> QED BY <1>2, <1>3

(***************************************************************************)
(* The running minimum and maximum are those of the latencies of all       *)
(* testframes received, for any two times and any borrow between seconds,  *)
(* although a frame may begin while the last one is still being compared.  *)
(***************************************************************************)
THEOREM LatencyExactAlways ==
  ASSUME NoneEmpty, Causal
  PROVE  LineSpec => []LatencyExact
<1>1. TrackInv /\ LatencyInv => LatencyExact
  <2> SUFFICES ASSUME TrackInv, LatencyInv, ~partial, ~frame_complete,
                      ~update_latency
               PROVE  Extremes(seen, latency_min, latency_max)
    BY DEF LatencyExact
  <2>1. seen \in Seq(Arrival) /\ Bounds(seen, latency_min, latency_max)
    BY DEF TrackInv, LatencyInv, MeasureInv
  <2> QED BY <2>1, ExtremesOf
<1> QED BY <1>1, LatencyInvariant, PTL

(***************************************************************************)
(* The published minimum, maximum and last latency are those after one and *)
(* the same testframe: CompareLatency publishes the values it is about to  *)
(* store, not those of the frame before.                                   *)
(***************************************************************************)
THEOREM LatencyTogetherAlways ==
  ASSUME NoneEmpty, Causal
  PROVE  LineSpec => []LatencyTogether
<1>1. TrackInv /\ LatencyInv => LatencyTogether
  <2> SUFFICES ASSUME TrackInv, LatencyInv, ~partial
               PROVE  \E s \in Prefixes :
                        /\ Extremes(s, latency_reg.min, latency_reg.max)
                        /\ Test(s) # {} =>
                             LET e == s[Max(Test(s))]
                             IN  Nsec(latency_reg.last)
                                   = Nsec(e.at) - Nsec(e.frame.sent)
    BY DEF LatencyTogether
  <2>1. PICK s \in Prefixes : LatenciesOf(latency_reg, s)
    BY DEF LatencyInv, ReportInv
  <2>2. s \in Seq(Arrival)
    <3>1. seen \in Seq(Arrival)
      BY DEF TrackInv
    <3> QED BY <3>1, PrefixFacts DEF Prefixes
  <2>3. Extremes(s, latency_reg.min, latency_reg.max)
    BY <2>1, <2>2, ExtremesOf DEF LatenciesOf
  <2> QED BY <2>1, <2>3 DEF LatenciesOf, Delay
<1> QED BY <1>1, LatencyInvariant, PTL
=============================================================================
