-------------------------- MODULE TrafficGenerator --------------------------
(***************************************************************************)
(* The GMII traffic generator core:                                        *)
(* lib/hw/lsi/cores/traffic_generator_gmii/hdl/traffic_generator_gmii.v,   *)
(* its registers (traffic_generator_gmii_cpu_regs.v), the frame buffer     *)
(* (bram_io.v) and the use it makes of the CRC unit (ethernet_crc_8.v).    *)
(*                                                                         *)
(* A step is one rising edge of clk, with one action per branch of the     *)
(* state machine, or one register write by software.  The writes belong to *)
(* the AXI clock and may fall between any two cycles of clk, in the middle *)
(* of a frame too.                                                         *)
(*                                                                         *)
(* Octets are symbols that say where they come from:                       *)
(*   <<"buf", word, lane>>  a lane of a frame buffer word,                 *)
(*   <<"seq", n, i>>        octet i of sequence number n,                  *)
(*   <<"ts", t, i>>         octet i of timestamp t,                        *)
(*   <<"crc", octets, i>>   octet i of the CRC over a sequence of octets;  *)
(* a buffer word is the pair of its address and what software stored there.*)
(***************************************************************************)
EXTENDS Integers, Sequences

CONSTANTS
  Mod32,           \* 2^32: modulus of the 32-bit counters and registers
  Half64,          \* 2^32: modulus of each half of a 64-bit register
  Words,           \* 2^C_FRAME_BUF_ADDRESS_WIDTH: words of the frame buffer
  PreambleOctets,  \* 8: octets that the CRC leaves out
  SeqOctets,       \* 8: octets of the sequence number
  TsOctets,        \* 10: octets of the timestamp
  CrcOctets,       \* 4: octets of the CRC
  Times,           \* the times the real-time clock may show
  Contents,        \* what software may store in a buffer word
  FrameSizes, InterframeGaps, InterburstGaps, FramesPerBurst, TotalHalves
                   \* values software may write to the registers

Mod64 == Half64 * Half64
Lanes == 4

ASSUME GeneratorAssumption ==
  /\ Mod32 \in Nat /\ Mod32 > 3
  /\ Half64 \in Nat /\ Half64 > 1
  /\ Words \in Nat /\ Words > 1
  /\ PreambleOctets \in Nat /\ PreambleOctets > 1
  /\ SeqOctets \in Nat \ {0} /\ TsOctets \in Nat \ {0}
  /\ CrcOctets \in Nat \ {0}
  /\ Contents # {}
  /\ FrameSizes \subseteq 2 .. Mod32 - 1
  /\ InterframeGaps \subseteq 0 .. Mod32 - 1
  /\ InterburstGaps \subseteq 0 .. Mod32 - 1
  /\ FramesPerBurst \subseteq 0 .. Mod32 - 1
  /\ TotalHalves \subseteq 0 .. Half64 - 1

VARIABLES
  \* registers and frame buffer, written by software
  control_reg, frame_size_reg, interframe_gap_reg, interburst_gap_reg,
  frames_per_burst_reg, total_frames_reg, frame_buf_address_next, mem,
  \* the state machine
  state, next_state, run, timestamp_enable,
  data_counter, data_counter_last, gap_counter, gap_counter_last,
  seqnum_counter, timestamp_counter, crc_counter,
  frames, burst_index, timestamp, pkts_reg,
  \* the pipeline from the buffer to the line
  frame_buf_out_address, frame_buf_out_data, frame_buf_out_data_r, data_t0,
  gmii_d, gmii_en,
  \* the CRC unit: its controls, the octets folded in, the octet it shows
  crc_calc, crc_init, crc_d_valid, crc_octets, crc_index

config == <<frame_size_reg, interframe_gap_reg, interburst_gap_reg,
            frames_per_burst_reg, total_frames_reg>>
buffer == <<frame_buf_address_next, mem>>
software == <<control_reg, config, buffer>>
fieldCounters == <<seqnum_counter, timestamp_counter, crc_counter>>
crcControls == <<crc_calc, crc_init, crc_d_valid>>
sampled == <<run, timestamp_enable, frame_buf_out_data, crc_octets, crc_index>>
machine == <<state, next_state, data_counter, data_counter_last, gap_counter,
             gap_counter_last, fieldCounters, frames, burst_index, timestamp,
             pkts_reg, frame_buf_out_address, frame_buf_out_data_r, data_t0,
             gmii_d, gmii_en, crcControls>>
vars == <<software, sampled, machine>>

\* The values of the state register.
Idle == 0
Data == 1
Gap == 2
SeqNum == 3
Timestamp == 4
Crc == 5
Static == 6

Word == (0 .. Words - 1) \X Contents
NoOctet == <<"none">>

Inc(x, m) == IF x + 1 >= m THEN 0 ELSE x + 1
Sub32(x, k) == IF x >= k THEN x - k ELSE x + Mod32 - k

TypeOK ==
  /\ control_reg \in [run : BOOLEAN, timestamp : BOOLEAN]
  /\ frame_size_reg \in 0 .. Mod32 - 1
  /\ interframe_gap_reg \in 0 .. Mod32 - 1
  /\ interburst_gap_reg \in 0 .. Mod32 - 1
  /\ frames_per_burst_reg \in 0 .. Mod32 - 1
  /\ total_frames_reg \in [msb : 0 .. Half64 - 1, lsb : 0 .. Half64 - 1]
  /\ frame_buf_address_next \in 0 .. Words - 1
  /\ mem \in [0 .. Words - 1 -> Contents]
  /\ state \in Idle .. Static /\ next_state \in {SeqNum, Static}
  /\ run \in BOOLEAN /\ timestamp_enable \in BOOLEAN
  /\ data_counter \in 0 .. Mod32 - 1 /\ data_counter_last \in 0 .. Mod32 - 1
  /\ gap_counter \in 0 .. Mod32 - 1 /\ gap_counter_last \in 0 .. Mod32 - 1
  /\ seqnum_counter \in 0 .. SeqOctets
  /\ timestamp_counter \in 0 .. TsOctets
  /\ crc_counter \in 0 .. CrcOctets + 1
  /\ frames \in 0 .. Mod64 - 1 /\ pkts_reg \in 0 .. Mod64 - 1
  /\ burst_index \in 0 .. Mod32 - 1
  /\ frame_buf_out_address \in 0 .. Words - 1
  /\ frame_buf_out_data \in Word /\ frame_buf_out_data_r \in Word
  /\ gmii_en \in BOOLEAN
  /\ crc_calc \in BOOLEAN /\ crc_init \in BOOLEAN /\ crc_d_valid \in BOOLEAN

(***************************************************************************)
(* After reset, configured and stopped.  Reset does not touch frames.      *)
(***************************************************************************)
Init ==
  /\ control_reg = [run |-> FALSE, timestamp |-> FALSE]
  /\ frame_size_reg \in FrameSizes
  /\ interframe_gap_reg \in InterframeGaps
  /\ interburst_gap_reg \in InterburstGaps
  /\ frames_per_burst_reg \in FramesPerBurst
  /\ total_frames_reg \in [msb : {0}, lsb : TotalHalves]
  /\ frame_buf_address_next = 0
  /\ \E c \in Contents : mem = [a \in 0 .. Words - 1 |-> c]
  /\ state = Idle /\ next_state = Static
  /\ run = FALSE /\ timestamp_enable = FALSE
  /\ data_counter = 0 /\ data_counter_last = 0
  /\ gap_counter = 0 /\ gap_counter_last = 0
  /\ seqnum_counter = 0 /\ timestamp_counter = 0 /\ crc_counter = 0
  /\ frames \in {0, Mod64 - 1}
  /\ burst_index = 0
  /\ timestamp = NoOctet
  /\ pkts_reg = 0
  /\ frame_buf_out_address = 0
  /\ frame_buf_out_data = <<0, mem[0]>>
  /\ frame_buf_out_data_r = <<0, mem[0]>>
  /\ data_t0 = NoOctet /\ gmii_d = NoOctet /\ gmii_en = FALSE
  /\ crc_calc = FALSE /\ crc_init = TRUE /\ crc_d_valid = FALSE
  /\ crc_octets = <<>> /\ crc_index = 0

---------------------------------------------------------------------------
\* Register writes.

WriteControl(go, ts) ==
  /\ control_reg' = [run |-> go, timestamp |-> ts]
  /\ UNCHANGED <<config, buffer, sampled, machine>>

WriteInterframeGap(v) ==
  /\ interframe_gap_reg' = v
  /\ UNCHANGED <<control_reg, frame_size_reg, interburst_gap_reg,
                 frames_per_burst_reg, total_frames_reg, buffer, sampled,
                 machine>>

WriteInterburstGap(v) ==
  /\ interburst_gap_reg' = v
  /\ UNCHANGED <<control_reg, frame_size_reg, interframe_gap_reg,
                 frames_per_burst_reg, total_frames_reg, buffer, sampled,
                 machine>>

WriteFramesPerBurst(v) ==
  /\ frames_per_burst_reg' = v
  /\ UNCHANGED <<control_reg, frame_size_reg, interframe_gap_reg,
                 interburst_gap_reg, total_frames_reg, buffer, sampled,
                 machine>>

\* The 64-bit total is written in two halves, which take effect separately.
WriteTotalHigh(v) ==
  /\ total_frames_reg' = [total_frames_reg EXCEPT !.msb = v]
  /\ UNCHANGED <<control_reg, frame_size_reg, interframe_gap_reg,
                 interburst_gap_reg, frames_per_burst_reg, buffer, sampled,
                 machine>>

WriteTotalLow(v) ==
  /\ total_frames_reg' = [total_frames_reg EXCEPT !.lsb = v]
  /\ UNCHANGED <<control_reg, frame_size_reg, interframe_gap_reg,
                 interburst_gap_reg, frames_per_burst_reg, buffer, sampled,
                 machine>>

\* Writing the frame size also rewinds the buffer's write address.
WriteFrameSize(v) ==
  /\ frame_size_reg' = v
  /\ frame_buf_address_next' = 0
  /\ UNCHANGED <<control_reg, interframe_gap_reg, interburst_gap_reg,
                 frames_per_burst_reg, total_frames_reg, mem, sampled,
                 machine>>

WriteFrameBufAddress(a) ==
  /\ frame_buf_address_next' = a
  /\ UNCHANGED <<control_reg, config, mem, sampled, machine>>

\* A word goes to the current address, which then advances.
WriteFrameBuf(c) ==
  /\ mem' = [mem EXCEPT ![frame_buf_address_next] = c]
  /\ frame_buf_address_next' = Inc(frame_buf_address_next, Words)
  /\ UNCHANGED <<control_reg, config, sampled, machine>>

---------------------------------------------------------------------------
\* What every cycle of clk does, whatever the state.

\* ethernet_crc_8: restart, fold the octet in data_t0, shift, or hold.
CrcUnit ==
  CASE crc_init -> crc_octets' = <<>> /\ crc_index' = 0
    [] ~crc_init /\ crc_d_valid /\ crc_calc ->
         crc_octets' = Append(crc_octets, data_t0) /\ crc_index' = 0
    [] ~crc_init /\ crc_d_valid /\ ~crc_calc ->
         crc_octets' = crc_octets /\ crc_index' = crc_index + 1
    [] OTHER -> UNCHANGED <<crc_octets, crc_index>>

\* bram_io: the word at the address shows one cycle later.
BufferRead ==
  frame_buf_out_data' = <<frame_buf_out_address, mem[frame_buf_out_address]>>

Clocked ==
  /\ run' = control_reg.run
  /\ timestamp_enable' = control_reg.timestamp
  /\ BufferRead
  /\ CrcUnit
  /\ UNCHANGED software

Drive(octet) == gmii_en' = TRUE /\ gmii_d' = octet
LineIdle == gmii_en' = FALSE /\ gmii_d' = NoOctet

---------------------------------------------------------------------------
\* State 0.

BurstCloses == frames_per_burst_reg # 0
               /\ Inc(burst_index, Mod32) = frames_per_burst_reg

\* The gap to follow the frame; the cycles of StartFrame, of the first SendData
\* and of the last WaitGap make up for the three subtracted.
GapLongByOne(gap) == Sub32(gap, 2)
GapCycles(gap) == Sub32(gap, 3)

CrcCounterKept == crc_counter' = crc_counter
CrcCounterReset == crc_counter' = 0

\* Prepare the counters of the next frame, and the gap that will follow it.
Prepare ==
  /\ data_counter' = 0
  /\ data_counter_last' = Sub32(frame_size_reg, 1)
  /\ gap_counter' = 0
  /\ gap_counter_last' =
       GapCycles(IF BurstCloses THEN interburst_gap_reg ELSE interframe_gap_reg)
  /\ burst_index' = CASE frames_per_burst_reg = 0 -> burst_index
                      [] BurstCloses -> 0
                      [] OTHER -> Inc(burst_index, Mod32)
  /\ seqnum_counter' = 0 /\ timestamp_counter' = 0 /\ CrcCounterReset

TotalFrames == total_frames_reg.msb * Half64 + total_frames_reg.lsb
MoreFramesByOne == frames <= TotalFrames \/ TotalFrames = 0
MoreFramesNoEndless == frames # TotalFrames
MoreFrames == frames # TotalFrames \/ TotalFrames = 0

Started == TRUE
Runs == run

StartFrame ==
  /\ state = Idle /\ Runs /\ MoreFrames
  /\ LineIdle
  /\ Prepare
  /\ state' = Data
  /\ frame_buf_out_data_r' = frame_buf_out_data
  /\ frame_buf_out_address' = 1
  /\ UNCHANGED <<next_state, frames, timestamp, pkts_reg, data_t0,
                 crcControls>>

TotalReached ==
  /\ state = Idle /\ Runs /\ ~MoreFrames
  /\ LineIdle
  /\ Prepare
  /\ UNCHANGED <<state, next_state, frames, timestamp, pkts_reg, data_t0,
                 frame_buf_out_address, frame_buf_out_data_r, crcControls>>

FramesKept == UNCHANGED frames /\ burst_index' = 0
FramesRestart == frames' = 0 /\ burst_index' = 0

Stopped ==
  /\ state = Idle /\ ~Runs
  /\ LineIdle
  /\ FramesRestart
  /\ UNCHANGED <<state, next_state, data_counter, data_counter_last,
                 gap_counter, gap_counter_last, fieldCounters, timestamp,
                 pkts_reg, frame_buf_out_address, frame_buf_out_data_r,
                 data_t0, crcControls>>

---------------------------------------------------------------------------
\* State 1: octets from the buffer, one cycle late on the line for the CRC.

LastData == data_counter >= data_counter_last
Lane == data_counter % Lanes

StampsEarly == data_counter = 0
Stamps == data_counter = 1

CrcStartsEarly == data_counter = PreambleOctets - 1
CrcStarts == data_counter = PreambleOctets

SendData(now) ==
  /\ state = Data
  /\ data_counter' = Inc(data_counter, Mod32)
  /\ data_t0' = <<"buf", frame_buf_out_data_r, Lane>>
  /\ IF Lane = Lanes - 1
       THEN /\ frame_buf_out_address' = Inc(frame_buf_out_address, Words)
            /\ frame_buf_out_data_r' = frame_buf_out_data
       ELSE UNCHANGED <<frame_buf_out_address, frame_buf_out_data_r>>
  /\ IF data_counter > 0 THEN Drive(data_t0) ELSE UNCHANGED <<gmii_d, gmii_en>>
  /\ timestamp' = IF Stamps THEN now ELSE timestamp
  /\ state' = IF LastData THEN next_state ELSE Data
  /\ pkts_reg' = IF LastData THEN Inc(pkts_reg, Mod64) ELSE pkts_reg
  /\ next_state' = IF timestamp_enable THEN SeqNum ELSE Static
  /\ IF CrcStarts
       THEN crc_calc' = TRUE /\ crc_init' = FALSE /\ crc_d_valid' = TRUE
       ELSE UNCHANGED crcControls
  /\ UNCHANGED <<data_counter_last, gap_counter, gap_counter_last,
                 fieldCounters, frames, burst_index>>

---------------------------------------------------------------------------
\* States 3 to 6: what follows the buffer's octets.

unlessField == <<next_state, data_counter, data_counter_last, gap_counter,
                 gap_counter_last, frames, burst_index, timestamp, pkts_reg,
                 frame_buf_out_address, frame_buf_out_data_r>>

\* States 3 and 4 leave gmii_en as it is.
SendSeqNum ==
  /\ state = SeqNum
  /\ seqnum_counter' = seqnum_counter + 1
  /\ data_t0' = <<"seq", frames, seqnum_counter>>
  /\ gmii_d' = data_t0
  /\ state' = IF seqnum_counter = SeqOctets - 1 THEN Timestamp ELSE state
  /\ UNCHANGED <<unlessField, timestamp_counter, crc_counter, gmii_en,
                 crcControls>>

AfterTimestampAborts ==
  CASE timestamp_counter = TsOctets - 1 -> Crc
    [] timestamp_counter # TsOctets - 1 /\ ~run -> Gap
    [] OTHER -> state
AfterTimestamp == IF timestamp_counter = TsOctets - 1 THEN Crc ELSE state

SendTimestamp ==
  /\ state = Timestamp
  /\ timestamp_counter' = timestamp_counter + 1
  /\ data_t0' = <<"ts", timestamp, timestamp_counter>>
  /\ gmii_d' = data_t0
  /\ state' = AfterTimestamp
  /\ UNCHANGED <<unlessField, seqnum_counter, crc_counter, gmii_en,
                 crcControls>>

SendCrc ==
  /\ state = Crc
  /\ crc_counter' = crc_counter + 1
  /\ crc_calc' = FALSE
  /\ Drive(IF crc_counter = 0 THEN data_t0
                              ELSE <<"crc", crc_octets, crc_index>>)
  /\ state' = IF crc_counter = CrcOctets THEN Gap ELSE state
  /\ UNCHANGED <<unlessField, seqnum_counter, timestamp_counter, data_t0,
                 crc_init, crc_d_valid>>

SendLastStatic ==
  /\ state = Static
  /\ gmii_d' = data_t0
  /\ state' = Gap
  /\ UNCHANGED <<unlessField, fieldCounters, data_t0, gmii_en, crcControls>>

---------------------------------------------------------------------------
\* State 2: the gap.

GapOverLive ==
  ~(gap_counter < IF frames_per_burst_reg = 0 THEN GapCycles(interframe_gap_reg)
                                              ELSE gap_counter_last)
GapOver == ~(gap_counter < gap_counter_last)

AddressKept == UNCHANGED frame_buf_out_address
AddressRewinds == frame_buf_out_address' = 0

WaitGap ==
  /\ state = Gap
  /\ gap_counter' = Inc(gap_counter, Mod32)
  /\ LineIdle
  /\ AddressRewinds
  /\ IF GapOver THEN state' = Idle /\ frames' = Inc(frames, Mod64)
                ELSE UNCHANGED <<state, frames>>
  /\ crc_calc' = FALSE /\ crc_init' = TRUE /\ crc_d_valid' = FALSE
  /\ UNCHANGED <<next_state, data_counter, data_counter_last,
                 gap_counter_last, fieldCounters, burst_index, timestamp,
                 pkts_reg, frame_buf_out_data_r, data_t0>>

---------------------------------------------------------------------------
Tick(now) ==
  /\ Clocked
  /\ \/ StartFrame \/ TotalReached \/ Stopped
     \/ SendData(now)
     \/ SendSeqNum \/ SendTimestamp \/ SendCrc \/ SendLastStatic
     \/ WaitGap

Reconfigure ==
  \/ \E v \in InterframeGaps : WriteInterframeGap(v)
  \/ \E v \in InterburstGaps : WriteInterburstGap(v)
  \/ \E v \in FramesPerBurst : WriteFramesPerBurst(v)
  \/ \E v \in TotalHalves : WriteTotalHigh(v) \/ WriteTotalLow(v)
  \/ \E v \in FrameSizes : WriteFrameSize(v)
  \/ \E a \in 0 .. Words - 1 : WriteFrameBufAddress(a)
  \/ \E c \in Contents : WriteFrameBuf(c)

Next ==
  \/ \E now \in Times : Tick(now)
  \/ \E go, ts \in BOOLEAN : WriteControl(go, ts)
  \/ Reconfigure

Spec == Init /\ [][Next]_vars
=============================================================================
