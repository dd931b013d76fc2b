---------------------------- MODULE GeneratorTool ----------------------------
(***************************************************************************)
(* The tool traffic-generator-gmii                                         *)
(* (lib/sw/lsi/cores/traffic-generator-gmii/traffic-generator-gmii.c), the *)
(* conversions of hexstr.c it uses, register access through ioreg.c, and   *)
(* the registers that it writes (traffic_generator_gmii_cpu_regs.v).       *)
(*                                                                         *)
(* A step is one register write.  The generator may be stopped or running, *)
(* and the tool may be killed between any two writes and called again.     *)
(* The options --bursts-per-stream, --realtime-epoch, --interface-speed    *)
(* and --stdout-mode are parsed by the code and used nowhere.              *)
(***************************************************************************)
EXTENDS Integers, Sequences, Functions

CONSTANTS
  Mod32,       \* 2^32
  DynamicLen,  \* 8+10+4: sequence number, timestamp and CRC
  Words,       \* words of the frame buffer
  OptionSets,  \* what the tool may be called with: functions of option names
  NoType       \* testframe_type == NULL

Preamble == <<85, 85, 85, 85, 85, 85, 85, 213>>

---------------------------------------------------------------------------
\* hexstr.c.
HexDigits == <<"0", "1", "2", "3", "4", "5", "6", "7", "8", "9",
               "A", "B", "C", "D", "E", "F">>
LowerDigits == <<"a", "b", "c", "d", "e", "f">>
Digits == Range(HexDigits) \cup Range(LowerDigits)

hexchar2byte(hexchar) ==
  CHOOSE b \in 0..15 :
    hexchar = HexDigits[b + 1] \/ (b >= 10 /\ hexchar = LowerDigits[b - 9])

LettersFromOne(byte) ==
  IF byte <= 9 THEN HexDigits[byte + 1] ELSE HexDigits[byte]

byte2hexchar(byte) == HexDigits[byte + 1]

hexstr2bin(hexstr) ==
  [i \in 1..(Len(hexstr) \div 2) |->
     16 * hexchar2byte(hexstr[2 * i - 1]) + hexchar2byte(hexstr[2 * i])]

bin2hexstr(data) ==
  [k \in 1..(2 * Len(data)) |->
     IF k % 2 = 1 THEN byte2hexchar(data[(k + 1) \div 2] \div 16)
                  ELSE byte2hexchar(data[k \div 2] % 16)]

---------------------------------------------------------------------------
\* main: the options that are given, over the defaults.
Defaults ==
  [disable |-> FALSE, frame_size |-> 64,
   frame_data |-> <<"0", "0", "0", "1", "0", "2", "0", "3", "0", "4", "0", "5",
                    "0", "6", "0", "7", "0", "8", "0", "9", "0", "A", "0", "B">>,
   interframe_gap |-> 20, interburst_gap |-> 0, frames_per_burst |-> 0,
   total_frames |-> 0, testframe_type |-> NoType]

Arguments(options) ==
  [o \in DOMAIN Defaults |->
     IF o \in DOMAIN options THEN options[o] ELSE Defaults[o]]

Dynamic(a) == a.testframe_type \notin {NoType, "static"}
DynamicOctets(a) == IF Dynamic(a) THEN DynamicLen ELSE 0

\* What the code takes for granted: the frame holds the data and fits in the
\* buffer, and no subtraction wraps.
Acceptable(a) ==
  /\ a.frame_size >= DynamicOctets(a)
  /\ Len(a.frame_data) <= 2 * a.frame_size
  /\ a.frame_size - DynamicOctets(a) + Len(Preamble) <= 4 * Words
  /\ a.interframe_gap >= Len(Preamble)
  /\ a.frames_per_burst # 0 => a.interburst_gap >= Len(Preamble)

\* The types of the variables of main, and a string of hexadecimal digits.
WellTyped(a) ==
  /\ a.disable \in BOOLEAN
  /\ {a.frame_size, a.interframe_gap, a.interburst_gap, a.frames_per_burst}
       \subseteq 0..(Mod32 - 1)
  /\ a.total_frames \in Nat /\ a.frame_data \in Seq(Digits)

ASSUME GeneratorToolAssumption ==
  /\ Mod32 \in Nat \ {0} /\ Words \in Nat /\ DynamicLen \in Nat
  /\ \A options \in OptionSets :
       WellTyped(Arguments(options)) /\ Acceptable(Arguments(options))

\* malloc, memset and hexstr2bin.
FrameData(a) ==
  LET data == hexstr2bin(a.frame_data)
  IN  [i \in 1..a.frame_size |-> IF i <= Len(data) THEN data[i] ELSE 0]

\* Word k of a frame of size octets, the first octet in the highest lane.
Packed(data, size, k) ==
  [lane \in 1..4 |-> IF 4 * k + lane <= size THEN data[4 * k + lane] ELSE 0]

Write(reg, value) == <<[reg |-> reg, value |-> value]>>
WriteWord(address, word) ==
  Write("frame_buf_address", address) \o Write("frame_buf", word)

PreambleWrites ==
  WriteWord(0, SubSeq(Preamble, 1, 4)) \o WriteWord(1, SubSeq(Preamble, 5, 8))

FrameWrites(a) ==
  LET size == a.frame_size - DynamicOctets(a)
      count == (size + 3) \div 4
      write == [k \in 0..(count - 1) |->
                  WriteWord(2 + k, Packed(FrameData(a), size, k))]
  IN  [n \in 1..(2 * count) |->
         IF n % 2 = 1 THEN write[n \div 2][1] ELSE write[n \div 2 - 1][2]]

ControlWrite(a) == Write("control", [run |-> TRUE, timestamp |-> Dynamic(a)])

ConfigWrites(a) ==
  Write("interframe_gap", (a.interframe_gap - 8) % Mod32)
  \o Write("interburst_gap", (a.interburst_gap - 8) % Mod32)
  \o Write("frames_per_burst", a.frames_per_burst)
  \o Write("frame_size", a.frame_size + 8 - DynamicOctets(a))
  \o PreambleWrites \o FrameWrites(a)
  \o Write("total_msb", a.total_frames \div Mod32)
  \o Write("total_lsb", a.total_frames % Mod32)

ControlFirst(a) ==
  IF a.disable THEN Write("control", [run |-> FALSE, timestamp |-> FALSE])
  ELSE ControlWrite(a) \o ConfigWrites(a)

\* The register writes of a call, in order.
traffic_generator_common(a) ==
  IF a.disable THEN Write("control", [run |-> FALSE, timestamp |-> FALSE])
  ELSE ConfigWrites(a) \o ControlWrite(a)

---------------------------------------------------------------------------
VARIABLES
  calling,   \* the arguments of the call in progress, <<>> outside a call
  pending,   \* the writes that it still has to make
  control_reg, interframe_gap_reg, interburst_gap_reg, frames_per_burst_reg,
  frame_size_reg, total_frames_reg, frame_buf_address_next, mem,
  mixed      \* history: written since control_reg was, while running

tool == <<calling, pending>>
vars == <<tool, control_reg, interframe_gap_reg, interburst_gap_reg,
          frames_per_burst_reg, frame_size_reg, total_frames_reg,
          frame_buf_address_next, mem, mixed>>

Init ==
  /\ calling = <<>> /\ pending = <<>>
  /\ control_reg = [run |-> FALSE, timestamp |-> FALSE]
  /\ interframe_gap_reg = 12 /\ interburst_gap_reg = 12
  /\ frames_per_burst_reg = 0 /\ frame_size_reg = 72
  /\ total_frames_reg = [msb |-> 0, lsb |-> 0]
  /\ frame_buf_address_next = 0
  /\ mem = [k \in 0..(Words - 1) |-> <<0, 0, 0, 0>>]
  /\ mixed = FALSE

\* main, and ioreg_init, which maps the core's registers.
Call(options) ==
  /\ calling = <<>>
  /\ calling' = <<Arguments(options)>>
  /\ pending' = traffic_generator_common(Arguments(options))
  /\ UNCHANGED <<control_reg, interframe_gap_reg, interburst_gap_reg,
                 frames_per_burst_reg, frame_size_reg, total_frames_reg,
                 frame_buf_address_next, mem, mixed>>

Set(reg, old, w) == IF w.reg = reg THEN w.value ELSE old

\* ioreg_write, and what the core does with it: the frame size rewinds the
\* buffer's address, which advances with every word.
IoregWrite ==
  /\ pending # <<>>
  /\ LET w == Head(pending) IN
     /\ control_reg' = Set("control", control_reg, w)
     /\ interframe_gap_reg' = Set("interframe_gap", interframe_gap_reg, w)
     /\ interburst_gap_reg' = Set("interburst_gap", interburst_gap_reg, w)
     /\ frames_per_burst_reg' = Set("frames_per_burst", frames_per_burst_reg, w)
     /\ frame_size_reg' = Set("frame_size", frame_size_reg, w)
     /\ total_frames_reg' = [msb |-> Set("total_msb", total_frames_reg.msb, w),
                             lsb |-> Set("total_lsb", total_frames_reg.lsb, w)]
     /\ frame_buf_address_next' =
          CASE w.reg = "frame_size" -> 0
            [] w.reg = "frame_buf_address" -> w.value % Words
            [] w.reg = "frame_buf" -> (frame_buf_address_next + 1) % Words
            [] OTHER -> frame_buf_address_next
     /\ mem' = IF w.reg = "frame_buf"
                 THEN [mem EXCEPT ![frame_buf_address_next] = w.value]
                 ELSE mem
     /\ mixed' = (control_reg.run /\ w.reg # "control")
  /\ pending' = Tail(pending)
  /\ UNCHANGED calling

\* The call is complete, or the tool is killed.
Return ==
  /\ calling # <<>> /\ pending = <<>>
  /\ calling' = <<>>
  /\ UNCHANGED <<pending, control_reg, interframe_gap_reg, interburst_gap_reg,
                 frames_per_burst_reg, frame_size_reg, total_frames_reg,
                 frame_buf_address_next, mem, mixed>>

Killed ==
  /\ pending # <<>>
  /\ calling' = <<>> /\ pending' = <<>>
  /\ UNCHANGED <<control_reg, interframe_gap_reg, interburst_gap_reg,
                 frames_per_burst_reg, frame_size_reg, total_frames_reg,
                 frame_buf_address_next, mem, mixed>>

Next ==
  \/ \E options \in OptionSets : Call(options)
  \/ IoregWrite \/ Return \/ Killed

Spec == Init /\ [][Next]_vars

---------------------------------------------------------------------------
\* The stream that a call asks for: frames of length octets on the line, the
\* gap counted up to the end of the next preamble.
StreamAsked(a) ==
  [preamble |-> Preamble,
   octets |-> SubSeq(FrameData(a), 1, a.frame_size - DynamicOctets(a)),
   dynamic |-> Dynamic(a), length |-> a.frame_size + Len(Preamble),
   gap |-> a.interframe_gap, burst |-> a.frames_per_burst,
   interburst |-> IF a.frames_per_burst = 0 THEN 0 ELSE a.interburst_gap,
   total |-> a.total_frames]

\* The stream that the core makes of its registers and its buffer.
BufferOctet(i) == mem[(i - 1) \div 4][1 + ((i - 1) % 4)]
StreamOffered ==
  LET preamble == Len(Preamble)
  IN  [preamble |-> [i \in 1..preamble |-> BufferOctet(i)],
       octets |-> [i \in 1..(frame_size_reg - preamble) |->
                     BufferOctet(preamble + i)],
       dynamic |-> control_reg.timestamp,
       length |-> frame_size_reg
                  + (IF control_reg.timestamp THEN DynamicLen ELSE 0),
       gap |-> interframe_gap_reg + preamble, burst |-> frames_per_burst_reg,
       interburst |-> IF frames_per_burst_reg = 0 THEN 0
                      ELSE interburst_gap_reg + preamble,
       total |-> total_frames_reg.msb * Mod32 + total_frames_reg.lsb]

StreamsAsked == {StreamAsked(Arguments(o)) : o \in OptionSets}
Nothing == [stream |-> "none"]
Mixture == [stream |-> "mixture"]

Service ==
  INSTANCE GeneratorService WITH
    Streams <- StreamsAsked,
    asked <- IF calling = <<>> \/ calling[1].disable THEN Nothing
             ELSE StreamAsked(calling[1]),
    offered <- IF ~control_reg.run THEN Nothing
               ELSE IF mixed THEN Mixture ELSE StreamOffered

(***************************************************************************)
(* traffic-generator-gmii implements GeneratorService.  In particular the  *)
(* core never starts with anything but the whole stream that was asked     *)
(* for, whatever earlier calls, complete or killed, left in the registers  *)
(* and in the buffer: the data padded with zeros, the preamble, the        *)
(* length with the dynamic fields, the gaps and the total.                 *)
(***************************************************************************)
ImplementsService == Service!Spec

(***************************************************************************)
(* After a call, the frame in the buffer, printed by bin2hexstr the way    *)
(* traffic-analyzer-gmii prints a capture, begins with the digits of the   *)
(* call's --frame-data, in upper case.                                     *)
(***************************************************************************)
Upper(digit) ==
  IF \E i \in 1..6 : LowerDigits[i] = digit
    THEN HexDigits[10 + CHOOSE i \in 1..6 : LowerDigits[i] = digit]
    ELSE digit

DataAsGiven ==
  calling # <<>> /\ pending = <<>> /\ ~calling[1].disable =>
    LET digits == calling[1].frame_data
        frame == bin2hexstr(StreamOffered.octets)
    IN  \A k \in 1..(2 * (Len(digits) \div 2)) :
          k <= Len(frame) => frame[k] = Upper(digits[k])
=============================================================================
