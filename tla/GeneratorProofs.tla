-------------------------- MODULE GeneratorProofs --------------------------
(***************************************************************************)
(* Proofs about the GMII traffic generator for every register width, field *)
(* length, buffer size, frame size and gap.                                *)
(***************************************************************************)
EXTENDS GeneratorLine, SequenceTheorems, TLAPS

---------------------------------------------------------------------------
\* The parts of TypeOK: what software writes, what every cycle samples and
\* what the state machine keeps.
SoftwareTypes ==
  /\ control_reg \in [run : BOOLEAN, timestamp : BOOLEAN]
  /\ frame_size_reg \in 0 .. Mod32 - 1
  /\ interframe_gap_reg \in 0 .. Mod32 - 1
  /\ interburst_gap_reg \in 0 .. Mod32 - 1
  /\ frames_per_burst_reg \in 0 .. Mod32 - 1
  /\ total_frames_reg \in [msb : 0 .. Half64 - 1, lsb : 0 .. Half64 - 1]
  /\ frame_buf_address_next \in 0 .. Words - 1
  /\ mem \in [0 .. Words - 1 -> Contents]
SampledTypes ==
  /\ run \in BOOLEAN /\ timestamp_enable \in BOOLEAN
  /\ frame_buf_out_data \in Word
CounterTypes ==
  /\ state \in 0 .. 6 /\ next_state \in {3, 6}
  /\ data_counter \in 0 .. Mod32 - 1 /\ data_counter_last \in 0 .. Mod32 - 1
  /\ gap_counter \in 0 .. Mod32 - 1 /\ gap_counter_last \in 0 .. Mod32 - 1
  /\ seqnum_counter \in 0 .. SeqOctets
  /\ timestamp_counter \in 0 .. TsOctets
  /\ crc_counter \in 0 .. CrcOctets + 1
  /\ frames \in 0 .. Mod64 - 1 /\ pkts_reg \in 0 .. Mod64 - 1
  /\ burst_index \in 0 .. Mod32 - 1
OutputTypes ==
  /\ frame_buf_out_address \in 0 .. Words - 1
  /\ frame_buf_out_data_r \in Word
  /\ gmii_en \in BOOLEAN
  /\ crc_calc \in BOOLEAN /\ crc_init \in BOOLEAN /\ crc_d_valid \in BOOLEAN

---------------------------------------------------------------------------
(***************************************************************************)
(* The inductive invariant of the core.  The counters of the fields are    *)
(* where the state machine says they are, and gmii_en, which states 3, 4   *)
(* and 6 leave as it is, follows from the state.                           *)
(***************************************************************************)
OnLine ==
  \/ state = Data /\ data_counter >= 2
  \/ state \in {SeqNum, Timestamp, Crc, Static}
  \/ state = Gap /\ gap_counter = 0

FieldInv ==
  /\ frame_size_reg >= 2
  /\ state # Idle => data_counter_last \in 1 .. Mod32 - 2
  /\ state = Data => /\ data_counter <= data_counter_last
                     /\ seqnum_counter = 0
  /\ state = SeqNum => seqnum_counter < SeqOctets
  /\ state \in {Data, SeqNum} => timestamp_counter = 0
  /\ state = Timestamp => timestamp_counter < TsOctets
  /\ state \in {Data, SeqNum, Timestamp} => crc_counter = 0
  /\ state = Crc => crc_counter <= CrcOctets
  /\ state \notin {Idle, Gap} => gap_counter = 0
  /\ state = Gap => gap_counter <= gap_counter_last
  /\ gmii_en <=> OnLine

CoreInv ==
  SoftwareTypes /\ SampledTypes /\ CounterTypes /\ OutputTypes /\ FieldInv

LEMMA CoreInvTypes == CoreInv => TypeOK
  BY DEF CoreInv, TypeOK, SoftwareTypes, SampledTypes, CounterTypes,
         OutputTypes, Idle, Static, SeqNum

---------------------------------------------------------------------------
\* The registers hold values that software may write.
ConfigInv ==
  /\ interframe_gap_reg <= MaxIdle /\ interburst_gap_reg <= MaxIdle
  /\ began \in [size : 2 .. Mod32 - 1, ifg : 0 .. MaxIdle, ibg : 0 .. MaxIdle,
                gaps : SUBSET (0 .. MaxIdle)]
  /\ idle \in Nat /\ stable \in BOOLEAN /\ sent \in 0 .. Mod64 - 1
  /\ line \in Seq(Range(line))

\* The number of octets sent, from the state and its counter.
LengthInv ==
  /\ state # Idle => data_counter_last = began.size - 1
  /\ ~gmii_en => line = <<>>
  /\ state = Data /\ gmii_en => Len(line) = data_counter - 1
  /\ state = Static => Len(line) = began.size - 1
  /\ state = SeqNum => Len(line) = began.size - 1 + seqnum_counter
  /\ state = Timestamp =>
       Len(line) = began.size - 1 + SeqOctets + timestamp_counter
  /\ state = Crc =>
       Len(line) = began.size - 1 + SeqOctets + TsOctets + crc_counter
  /\ state = Gap /\ gmii_en =>
       Len(line) \in {began.size, began.size + DynamicOctets}

\* frames counts what is complete, sent what was begun.  Reset leaves frames
\* alone, so nothing is known of it until the first cycle in state 0.
Begun == gmii_en \/ state = Gap
NumberInv ==
  state # Idle \/ run => sent = IF Begun THEN Inc(frames, Mod64) ELSE frames

TotalInv ==
  stable /\ TotalFrames # 0 =>
    /\ sent <= TotalFrames
    /\ state # Idle => frames < TotalFrames

\* timestamp is taken in the cycle of the first octet.
TimeInv == gmii_en /\ state # Gap => timestamp = rise

(***************************************************************************)
(* The buffer's read pipeline: the address, the word read in the previous  *)
(* cycle and the word whose lanes are being sent.  It holds the right words*)
(* in a frame if word 0 had the time to get through it before.             *)
(***************************************************************************)
Fetched == idle >= IF data_counter = 0 THEN 3 ELSE 4
PipeInv ==
  /\ stable => frame_buf_out_data[2] = mem[frame_buf_out_data[1]]
  /\ stable /\ state # Idle =>
       frame_buf_out_data_r[2] = mem[frame_buf_out_data_r[1]]
  /\ state \in {Idle, Gap} /\ ~gmii_en =>
       /\ frame_buf_out_address = 0
       /\ idle >= 2 => frame_buf_out_data[1] = 0
  /\ state = Data /\ Fetched =>
       LET w == data_counter \div Lanes
       IN  /\ frame_buf_out_data_r[1] = w % Words
           /\ frame_buf_out_address = (w + 1) % Words
           /\ data_counter % Lanes # 0 =>
                frame_buf_out_data[1] = (w + 1) % Words

(***************************************************************************)
(* Octet d is the one that belongs at position p of the frame, before its  *)
(* CRC.  data_t0 holds the octet that comes next on the line.              *)
(***************************************************************************)
BufferOctet(p, d) ==
  LET a == (p \div Lanes) % Words
  IN  /\ d[1] = "buf"
      /\ d[2][1] = a /\ d[3] = p % Lanes
      /\ stable => d[2] = <<a, mem[a]>>
Fits(p, d) ==
  /\ p < began.size /\ idle >= 4 => BufferOctet(p, d)
  /\ p - began.size \in 0 .. SeqOctets - 1 =>
       d = <<"seq", (sent - 1) % Mod64, p - began.size>>
  /\ p - began.size - SeqOctets \in 0 .. TsOctets - 1 =>
       d = <<"ts", rise, p - began.size - SeqOctets>>
Held ==
  \/ state = Data /\ data_counter > 0
  \/ state \in {Static, SeqNum, Timestamp}
  \/ state = Crc /\ crc_counter = 0
OctetInv ==
  /\ Held => Fits(Len(line), data_t0)
  /\ gmii_en => Fits(Position, gmii_d)

\* The CRC unit folds each octet in the cycle that puts it on the line.
End == began.size + SeqOctets + TsOctets
Folding ==
  \/ state = Data /\ data_counter > PreambleOctets
  \/ state \in {SeqNum, Timestamp}
  \/ state = Crc /\ crc_counter = 0
CrcInv ==
  /\ state = Idle \/ (state = Gap /\ ~gmii_en)
       \/ (state = Data /\ data_counter <= PreambleOctets) => crc_init
  /\ began.size > PreambleOctets /\ Folding =>
       /\ ~crc_init /\ crc_d_valid /\ crc_calc
       /\ crc_octets = SubSeq(line, PreambleOctets + 1, Len(line))
  /\ began.size > PreambleOctets /\ state = Crc /\ crc_counter > 0 =>
       /\ ~crc_init /\ crc_d_valid /\ ~crc_calc
       /\ crc_octets = SubSeq(line, PreambleOctets + 1, End)
       /\ crc_index = crc_counter - 1
  /\ CrcCoversFrame

\* The idle cycles so far, and those that the rest of the gap will add.
GapInv ==
  /\ state # Idle =>
       \E g \in {began.ifg, began.ibg} : gap_counter_last = GapCycles(g)
  /\ state = Gap /\ gap_counter > 0 =>
       idle >= gap_counter \/ idle >= MaxIdle
  /\ state = Idle => \E g \in {began.ifg, began.ibg} : idle + 2 >= g
  /\ state = Data /\ data_counter = 0 => \E g \in began.gaps : idle + 1 >= g
  /\ (state = Data /\ data_counter > 0) \/ gmii_en =>
       \E g \in began.gaps : idle >= g

LineInv ==
  /\ ConfigInv /\ LengthInv /\ NumberInv /\ TotalInv /\ TimeInv /\ PipeInv
  /\ OctetInv /\ CrcInv /\ GapInv

(***************************************************************************)
(* Pacing, while the configuration is the one the generator was started    *)
(* with and the 64-bit frame counter has not wrapped.  burst_index says how*)
(* far into its burst the latest frame is, except while the total has been *)
(* reached, when it keeps counting.                                        *)
(***************************************************************************)
FewFrames == sent < Mod64 - 1

Latest == IF state = Data /\ ~gmii_en THEN sent + 1 ELSE sent
GapAfter(n) ==
  IF frames_per_burst_reg # 0 /\ n % frames_per_burst_reg = 0
    THEN interburst_gap_reg ELSE interframe_gap_reg

BurstInv ==
  /\ Begun => sent > 0
  /\ /\ stable /\ frames_per_burst_reg # 0
     /\ state # Idle \/ (run /\ MoreFrames)
     => burst_index = Latest % frames_per_burst_reg
  /\ stable /\ state # Idle => gap_counter_last = GapCycles(GapAfter(Latest))

\* The idle cycles that the state machine is still to add to the gap.
PaceInv ==
  stable /\ sent # 0 /\ GapAfter(sent) >= 3 =>
    /\ state = Gap /\ ~gmii_en => idle = gap_counter
    /\ state = Idle /\ run /\ MoreFrames => idle = GapAfter(sent) - 2
    /\ state = Data /\ data_counter = 0 => idle = GapAfter(sent) - 1
    /\ state = Data /\ data_counter = 1 => idle = GapAfter(sent)

---------------------------------------------------------------------------
\* Facts about the model's operators.

LEMMA Mod64Facts == Mod64 \in Nat /\ Mod64 > 1
<1> DEFINE h == Half64
<1>1. h \in Nat /\ h > 1
  BY GeneratorAssumption
<1> HIDE DEF h
<1>2. h * h \in Nat /\ h * h > 1
  BY <1>1
<1> QED BY <1>2 DEF Mod64, h

LEMMA IncFacts ==
  ASSUME NEW m \in Nat \ {0}, NEW x \in 0 .. m - 1
  PROVE  /\ Inc(x, m) \in 0 .. m - 1
         /\ x + 1 < m => Inc(x, m) = x + 1
  BY DEF Inc

LEMMA Sub32Facts ==
  ASSUME NEW x \in 0 .. Mod32 - 1, NEW k \in 0 .. 3
  PROVE  /\ Sub32(x, k) \in 0 .. Mod32 - 1
         /\ x >= k => Sub32(x, k) = x - k
         /\ Sub32(x, k) + k >= x
  BY GeneratorAssumption DEF Sub32

\* A remainder is determined by its range and its quotient.
LEMMA ModUnique ==
  ASSUME NEW m \in Nat \ {0}, NEW q \in Int, NEW r \in 0 .. m - 1
  PROVE  (m * q + r) % m = r
OBVIOUS

LEMMA ModInc ==
  ASSUME NEW m \in Nat \ {0}, NEW x \in Nat
  PROVE  (x + 1) % m = Inc(x % m, m)
<1>1. x % m \in 0 .. m - 1 /\ x = m * (x \div m) + (x % m)
  OBVIOUS
<1> DEFINE q == x \div m
           r == x % m
<1>2. q \in Int /\ r \in 0 .. m - 1 /\ x = m * q + r
  BY <1>1
<1> HIDE DEF q, r
<1>3. CASE r + 1 < m
  <2>1. x + 1 = m * q + (r + 1) /\ r + 1 \in 0 .. m - 1
    BY <1>2, <1>3
  <2>2. (x + 1) % m = r + 1
    BY <1>2, <2>1, ModUnique
  <2> QED BY <1>3, <2>2 DEF Inc, r
<1>4. CASE r + 1 >= m
  <2>1. x + 1 = m * (q + 1) + 0 /\ q + 1 \in Int
    BY <1>2, <1>4
  <2>2. (x + 1) % m = 0
    BY <1>2, <2>1, ModUnique
  <2> QED BY <1>4, <2>2 DEF Inc, r
<1> QED BY <1>2, <1>3, <1>4

\* Appending to a sequence of anything.
LEMMA AppendFacts ==
  ASSUME NEW s, s \in Seq(Range(s)), NEW e
  PROVE  /\ Append(s, e) \in Seq(Range(Append(s, e)))
         /\ Len(Append(s, e)) = Len(s) + 1
         /\ Len(s) \in Nat
<1> DEFINE S == Range(s) \cup {e}
<1>1. s \in Seq(S) /\ e \in S
  BY SeqMonotonic
<1> HIDE DEF S
<1>2. Append(s, e) \in Seq(S) /\ Len(Append(s, e)) = Len(s) + 1
  BY <1>1, AppendProperties
<1>3. Append(s, e) \in Seq(Range(Append(s, e)))
  BY <1>2, SeqOfRange
<1> QED BY <1>1, <1>2, <1>3, LenProperties

\* The part of a sequence from m on, when an element is appended.
LEMMA SubSeqOfAppend ==
  ASSUME NEW s, s \in Seq(Range(s)), NEW e, NEW m \in 1 .. Len(s) + 1
  PROVE  /\ \A n \in 0 .. Len(s) : SubSeq(Append(s, e), m, n) = SubSeq(s, m, n)
         /\ SubSeq(Append(s, e), m, Len(s) + 1)
              = Append(SubSeq(s, m, Len(s)), e)
<1> DEFINE S == Range(s) \cup {e}
<1>1. s \in Seq(S) /\ e \in S
  BY SeqMonotonic
<1> HIDE DEF S
<1> DEFINE a == Append(s, e)
<1>2. /\ a \in Seq(S) /\ Len(a) = Len(s) + 1 /\ Len(s) \in Nat
      /\ \A i \in 1 .. Len(s) : a[i] = s[i]
      /\ a[Len(s) + 1] = e
  BY <1>1, AppendProperties, LenProperties
<1> HIDE DEF a
<1>3. \A i \in 1 .. Len(s) : s[i] \in S
  BY <1>1, ElementOfSeq
<1>4. \A i \in 1 .. Len(s) + 1 : a[i] \in S
  BY <1>1, <1>2, ElementOfSeq
<1>5. ASSUME NEW n \in 0 .. Len(s) PROVE SubSeq(a, m, n) = SubSeq(s, m, n)
  <2>1. m \in Int /\ n \in Int
    BY <1>2
  <2>2. \A i \in m .. n : s[i] \in S /\ a[i] \in S /\ a[i] = s[i]
    BY <1>2, <1>3, <1>4
  <2>3. /\ SubSeq(s, m, n) \in Seq(S)
        /\ Len(SubSeq(s, m, n)) = IF m <= n THEN n - m + 1 ELSE 0
        /\ \A i \in 1 .. n - m + 1 : SubSeq(s, m, n)[i] = s[m + i - 1]
    BY <2>1, <2>2, SubSeqProperties
  <2>4. /\ SubSeq(a, m, n) \in Seq(S)
        /\ Len(SubSeq(a, m, n)) = IF m <= n THEN n - m + 1 ELSE 0
        /\ \A i \in 1 .. n - m + 1 : SubSeq(a, m, n)[i] = a[m + i - 1]
    BY <2>1, <2>2, SubSeqProperties
  <2>5. \A i \in 1 .. Len(SubSeq(a, m, n)) : SubSeq(a, m, n)[i] = SubSeq(s, m, n)[i]
    <3> SUFFICES ASSUME NEW i \in 1 .. Len(SubSeq(a, m, n))
                 PROVE  SubSeq(a, m, n)[i] = SubSeq(s, m, n)[i]
      OBVIOUS
    <3>1. i \in 1 .. n - m + 1 /\ m + i - 1 \in m .. n
      BY <1>2, <2>4
    <3> QED BY <2>2, <2>3, <2>4, <3>1
  <2> QED BY <2>3, <2>4, <2>5, SeqEqual
<1>6. SubSeq(a, m, Len(s) + 1) = Append(SubSeq(s, m, Len(s)), e)
  <2> DEFINE b == SubSeq(s, m, Len(s))
             c == SubSeq(a, m, Len(s) + 1)
  <2>1. /\ b \in Seq(S) /\ Len(b) = Len(s) - m + 1
        /\ \A i \in 1 .. Len(s) - m + 1 : b[i] = s[m + i - 1]
    <3>1. m \in Int /\ Len(s) \in Int /\ \A i \in m .. Len(s) : s[i] \in S
      BY <1>2, <1>3
    <3> QED BY <1>2, <3>1, SubSeqProperties
  <2>2. /\ c \in Seq(S) /\ Len(c) = Len(s) - m + 2
        /\ \A i \in 1 .. Len(s) - m + 2 : c[i] = a[m + i - 1]
    <3>1. m \in Int /\ Len(s) + 1 \in Int /\ \A i \in m .. Len(s) + 1 : a[i] \in S
      BY <1>2, <1>4
    <3>2. /\ c \in Seq(S) /\ Len(c) = Len(s) + 1 - m + 1
          /\ \A i \in 1 .. Len(s) + 1 - m + 1 : c[i] = a[m + i - 1]
      BY <1>2, <3>1, SubSeqProperties
    <3> QED BY <1>2, <3>2
  <2> HIDE DEF b, c
  <2>3. /\ Append(b, e) \in Seq(S) /\ Len(Append(b, e)) = Len(b) + 1
        /\ \A i \in 1 .. Len(b) : Append(b, e)[i] = b[i]
        /\ Append(b, e)[Len(b) + 1] = e
    BY <1>1, <2>1, AppendProperties
  <2>4. \A i \in 1 .. Len(c) : c[i] = Append(b, e)[i]
    <3> SUFFICES ASSUME NEW i \in 1 .. Len(c) PROVE c[i] = Append(b, e)[i]
      OBVIOUS
    <3>1. CASE i <= Len(b)
      <4>1. i \in 1 .. Len(b) /\ m + i - 1 \in 1 .. Len(s)
        BY <1>2, <2>1, <3>1, <2>2
      <4> QED BY <1>2, <2>1, <2>2, <2>3, <4>1
    <3>2. CASE i > Len(b)
      <4>1. Len(b) \in Nat /\ Len(c) = Len(b) + 1
        BY <1>2, <2>1, <2>2
      <4>2. i = Len(b) + 1
        BY <3>2, <4>1
      <4>3. m + i - 1 = Len(s) + 1
        BY <1>2, <2>1, <4>2
      <4> QED BY <1>2, <2>2, <2>3, <4>2, <4>3
    <3> QED BY <1>2, <2>1, <2>2, <3>1, <3>2
  <2>5. Len(c) = Len(Append(b, e))
    BY <1>2, <2>1, <2>2, <2>3
  <2>6. c = Append(b, e)
    BY <2>2, <2>3, <2>4, <2>5, SeqEqual
  <2> QED BY <2>6 DEF b, c
<1> QED BY <1>5, <1>6 DEF a

---------------------------------------------------------------------------
\* The core keeps its invariant: one step per action.

LEMMA InitCoreInv == Init => CoreInv
<1> SUFFICES ASSUME Init PROVE CoreInv OBVIOUS
<1> USE GeneratorAssumption, Mod64Facts
<1>1. SoftwareTypes
  <2>1. total_frames_reg \in [msb : 0 .. Half64 - 1, lsb : 0 .. Half64 - 1]
    <3>1. total_frames_reg \in [msb : {0}, lsb : TotalHalves]
      BY DEF Init
    <3>2. {0} \subseteq 0 .. Half64 - 1 /\ TotalHalves \subseteq 0 .. Half64 - 1
      OBVIOUS
    <3> QED BY <3>1, <3>2
  <2>2. mem \in [0 .. Words - 1 -> Contents]
    BY DEF Init
  <2>3. control_reg \in [run : BOOLEAN, timestamp : BOOLEAN]
    BY DEF Init
  <2> QED BY <2>1, <2>2, <2>3 DEF Init, SoftwareTypes
<1>2. SampledTypes /\ OutputTypes
  <2>1. <<0, mem[0]>> \in Word
    BY <1>1 DEF SoftwareTypes, Word
  <2>2. SampledTypes
    BY <2>1 DEF Init, SampledTypes
  <2>3. frame_buf_out_data_r \in Word /\ frame_buf_out_address \in 0 .. Words - 1
    BY <2>1 DEF Init
  <2>4. /\ gmii_en \in BOOLEAN /\ crc_calc \in BOOLEAN /\ crc_init \in BOOLEAN
        /\ crc_d_valid \in BOOLEAN
    BY DEF Init
  <2> QED BY <2>2, <2>3, <2>4 DEF OutputTypes
<1>3. CounterTypes
  BY DEF Init, CounterTypes, Idle, Static
<1>4. FieldInv
  BY DEF Init, FieldInv, OnLine, Idle, Data, Gap, SeqNum, Timestamp, Crc, Static
<1> QED BY <1>1, <1>2, <1>3, <1>4 DEF CoreInv

\* What each cycle samples keeps its type.
LEMMA ClockedTypes ==
  ASSUME CoreInv, Clocked
  PROVE  SoftwareTypes' /\ SampledTypes' /\ UNCHANGED frame_size_reg
<1>1. SoftwareTypes /\ frame_buf_out_address \in 0 .. Words - 1
  BY DEF CoreInv, OutputTypes
<1>2. SoftwareTypes' /\ UNCHANGED frame_size_reg
  BY <1>1 DEF SoftwareTypes, Clocked, software, config, buffer
<1>3. frame_buf_out_data' \in Word
  BY <1>1 DEF SoftwareTypes, Clocked, BufferRead, Word
<1>4. run' \in BOOLEAN /\ timestamp_enable' \in BOOLEAN
  BY <1>1 DEF SoftwareTypes, Clocked
<1> QED BY <1>2, <1>3, <1>4 DEF SampledTypes

LEMMA PrepareTypes ==
  ASSUME CoreInv, Prepare
  PROVE  /\ data_counter' = 0 /\ gap_counter' = 0
         /\ data_counter_last' = frame_size_reg - 1
         /\ gap_counter_last' \in 0 .. Mod32 - 1
         /\ burst_index' \in 0 .. Mod32 - 1
         /\ seqnum_counter' = 0 /\ timestamp_counter' = 0 /\ crc_counter' = 0
<1> USE GeneratorAssumption
<1>1. SoftwareTypes /\ CounterTypes /\ frame_size_reg >= 2
  BY DEF CoreInv, FieldInv
<1>2. data_counter_last' = frame_size_reg - 1
  BY <1>1 DEF Prepare, SoftwareTypes, Sub32
<1>3. gap_counter_last' \in 0 .. Mod32 - 1
  <2> DEFINE gap == IF BurstCloses THEN interburst_gap_reg
                                   ELSE interframe_gap_reg
  <2>1. gap \in 0 .. Mod32 - 1
    BY <1>1 DEF SoftwareTypes
  <2>2. gap_counter_last' = Sub32(gap, 3)
    BY DEF Prepare, GapCycles
  <2> HIDE DEF gap
  <2> QED BY <2>1, <2>2, Sub32Facts
<1>4. burst_index' \in 0 .. Mod32 - 1
  BY <1>1, IncFacts DEF Prepare, CounterTypes
<1> QED BY <1>2, <1>3, <1>4 DEF Prepare, CrcCounterReset

\* A cycle in state 0 ...
LEMMA IdleCoreInv ==
  ASSUME CoreInv, Clocked, StartFrame \/ TotalReached \/ Stopped
  PROVE  CoreInv'
<1> USE GeneratorAssumption, Mod64Facts
<1>1. /\ SoftwareTypes /\ CounterTypes /\ OutputTypes /\ SampledTypes
      /\ SoftwareTypes' /\ SampledTypes' /\ frame_size_reg' = frame_size_reg
      /\ frame_size_reg \in 2 .. Mod32 - 1
  BY ClockedTypes DEF CoreInv, FieldInv, SoftwareTypes
<1>2. OutputTypes'
  <2>1. CASE StartFrame
    <3>1. /\ frame_buf_out_address' \in 0 .. Words - 1
          /\ frame_buf_out_data_r' \in Word
      BY <1>1, <2>1 DEF SampledTypes, StartFrame
    <3>2. gmii_en' \in BOOLEAN /\ UNCHANGED crcControls
      BY <2>1 DEF StartFrame, LineIdle
    <3> QED BY <1>1, <3>1, <3>2 DEF OutputTypes, crcControls
  <2>2. CASE TotalReached \/ Stopped
    BY <1>1, <2>2 DEF OutputTypes, TotalReached, Stopped, LineIdle, crcControls
  <2> QED BY <2>1, <2>2
<1>3. CASE StartFrame \/ TotalReached
  <2>1. CounterTypes' /\ state' \in {0, 1} /\ gmii_en' = FALSE
    BY <1>1, <1>3, PrepareTypes DEF CounterTypes, StartFrame, TotalReached,
       LineIdle, Idle, Data
  <2>2. FieldInv'
    <3>1. Prepare
      BY <1>3 DEF StartFrame, TotalReached
    <3> QED
    BY <1>1, <2>1, <3>1, PrepareTypes
    DEF FieldInv, OnLine, Idle, Data, Gap, SeqNum, Timestamp, Crc, Static
  <2> QED BY <1>1, <1>2, <2>1, <2>2 DEF CoreInv
<1>4. CASE Stopped
  <2>1. CounterTypes' /\ state' = 0 /\ gmii_en' = FALSE
    BY <1>1, <1>4 DEF CounterTypes, Stopped, LineIdle, Idle, FramesRestart,
       fieldCounters
  <2>2. FieldInv'
    BY <1>1, <2>1
    DEF FieldInv, OnLine, Idle, Data, Gap, SeqNum, Timestamp, Crc, Static
  <2> QED BY <1>1, <1>2, <2>1, <2>2 DEF CoreInv
<1> QED BY <1>3, <1>4

\* ... in state 1 ...
LEMMA DataCoreInv ==
  ASSUME CoreInv, Clocked, NEW now, SendData(now)
  PROVE  CoreInv'
<1> USE GeneratorAssumption, Mod64Facts
<1>1. /\ SoftwareTypes /\ CounterTypes /\ OutputTypes /\ SampledTypes
      /\ FieldInv /\ frame_size_reg' = frame_size_reg
      /\ SoftwareTypes' /\ SampledTypes'
      /\ state = 1 /\ data_counter <= data_counter_last
      /\ data_counter_last \in 1 .. Mod32 - 2
  BY ClockedTypes DEF CoreInv, FieldInv, SendData, Idle, Data
<1>2. /\ data_counter' = data_counter + 1
      /\ UNCHANGED <<data_counter_last, gap_counter, gap_counter_last,
                     seqnum_counter, timestamp_counter, crc_counter, frames,
                     burst_index>>
  BY <1>1, IncFacts DEF SendData, CounterTypes, fieldCounters
<1>3. /\ next_state' \in {3, 6} /\ pkts_reg' \in 0 .. Mod64 - 1
      /\ data_counter < data_counter_last => state' = 1
      /\ data_counter >= data_counter_last => state' \in {3, 6}
  BY <1>1, IncFacts DEF SendData, CounterTypes, LastData, SeqNum, Static, Data
<1>4. CounterTypes'
  BY <1>1, <1>2, <1>3 DEF CounterTypes
<1>5. /\ OutputTypes'
      /\ data_counter > 0 => gmii_en' = TRUE
      /\ data_counter = 0 => gmii_en' = FALSE
  <2>1. /\ frame_buf_out_address' \in 0 .. Words - 1
        /\ frame_buf_out_data_r' \in Word
    BY <1>1, IncFacts DEF SendData, OutputTypes, SampledTypes
  <2>2. /\ data_counter > 0 => gmii_en' = TRUE
        /\ data_counter = 0 => gmii_en' = FALSE
    <3>1. data_counter = 0 => gmii_en = FALSE
      BY <1>1 DEF FieldInv, OnLine, OutputTypes, Data, SeqNum, Timestamp, Crc,
         Static, Gap
    <3> QED BY <1>1, <3>1 DEF SendData, Drive, CounterTypes
  <2>3. crc_calc' \in BOOLEAN /\ crc_init' \in BOOLEAN
        /\ crc_d_valid' \in BOOLEAN
    BY <1>1 DEF SendData, OutputTypes, crcControls
  <2>4. data_counter > 0 \/ data_counter = 0
    BY <1>1 DEF CounterTypes
  <2>5. gmii_en' \in BOOLEAN
    BY <2>2, <2>4
  <2> QED BY <2>1, <2>2, <2>3, <2>5 DEF OutputTypes
<1>6. FieldInv'
  BY <1>1, <1>2, <1>3, <1>5
  DEF FieldInv, OnLine, CounterTypes, Idle, Data, Gap, SeqNum, Timestamp, Crc,
      Static
<1> QED BY <1>1, <1>4, <1>5, <1>6 DEF CoreInv

\* ... in states 3 to 6 ...
LEMMA FieldCoreInv ==
  ASSUME CoreInv, Clocked,
         SendSeqNum \/ SendTimestamp \/ SendCrc \/ SendLastStatic
  PROVE  CoreInv'
<1> USE GeneratorAssumption, Mod64Facts
<1>1. /\ SoftwareTypes /\ CounterTypes /\ OutputTypes /\ SampledTypes
      /\ FieldInv /\ frame_size_reg' = frame_size_reg
      /\ SoftwareTypes' /\ SampledTypes'
  BY ClockedTypes DEF CoreInv
<1>2. /\ UNCHANGED <<next_state, data_counter, data_counter_last, gap_counter,
                     gap_counter_last, frames, burst_index, pkts_reg,
                     frame_buf_out_address, frame_buf_out_data_r>>
      /\ state \in {3, 4, 5, 6} /\ gmii_en = TRUE
  BY <1>1 DEF SendSeqNum, SendTimestamp, SendCrc, SendLastStatic, unlessField,
     FieldInv, OnLine, OutputTypes, SeqNum, Timestamp, Crc, Static
<1> USE DEF Idle, Data, Gap, SeqNum, Timestamp, Crc, Static
<1>3. CASE SendSeqNum
  <2>1. CounterTypes' /\ UNCHANGED gmii_en /\ state' \in {3, 4}
    BY <1>1, <1>2, <1>3 DEF SendSeqNum, CounterTypes, FieldInv
  <2>2. FieldInv'
    BY <1>1, <1>2, <1>3, <2>1 DEF SendSeqNum, CounterTypes, FieldInv, OnLine
  <2>3. OutputTypes'
    BY <1>1, <1>2, <1>3 DEF SendSeqNum, OutputTypes, crcControls
  <2> QED BY <1>1, <2>1, <2>2, <2>3 DEF CoreInv
<1>4. CASE SendTimestamp
  <2>1. CounterTypes' /\ UNCHANGED gmii_en /\ state' \in {4, 5}
    BY <1>1, <1>2, <1>4 DEF SendTimestamp, AfterTimestamp, CounterTypes, FieldInv
  <2>2. FieldInv'
    BY <1>1, <1>2, <1>4, <2>1
    DEF SendTimestamp, AfterTimestamp, CounterTypes, FieldInv, OnLine
  <2>3. OutputTypes'
    BY <1>1, <1>2, <1>4 DEF SendTimestamp, OutputTypes, crcControls
  <2> QED BY <1>1, <2>1, <2>2, <2>3 DEF CoreInv
\* The CRC counter starts at 0 in state 5, and the gap counter in state 2.
<1>5. CASE SendCrc
  <2>1. CounterTypes' /\ gmii_en' = TRUE /\ state' \in {2, 5}
    BY <1>1, <1>2, <1>5 DEF SendCrc, Drive, CounterTypes, FieldInv
  <2>2. FieldInv'
    BY <1>1, <1>2, <1>5, <2>1 DEF SendCrc, CounterTypes, FieldInv, OnLine
  <2>3. OutputTypes'
    BY <1>1, <1>2, <1>5, <2>1 DEF SendCrc, OutputTypes
  <2> QED BY <1>1, <2>1, <2>2, <2>3 DEF CoreInv
<1>6. CASE SendLastStatic
  <2>1. CounterTypes' /\ UNCHANGED gmii_en /\ state' = 2
    BY <1>1, <1>2, <1>6 DEF SendLastStatic, CounterTypes, fieldCounters
  <2>2. FieldInv'
    BY <1>1, <1>2, <1>6, <2>1 DEF CounterTypes, FieldInv, OnLine
  <2>3. OutputTypes'
    BY <1>1, <1>2, <1>6 DEF SendLastStatic, OutputTypes, crcControls
  <2> QED BY <1>1, <2>1, <2>2, <2>3 DEF CoreInv
<1> QED BY <1>3, <1>4, <1>5, <1>6

\* ... and in state 2.
LEMMA GapCoreInv ==
  ASSUME CoreInv, Clocked, WaitGap
  PROVE  CoreInv'
<1> USE GeneratorAssumption, Mod64Facts
    DEF Idle, Data, Gap, SeqNum, Timestamp, Crc, Static
<1>1. /\ SoftwareTypes /\ CounterTypes /\ OutputTypes /\ SampledTypes
      /\ FieldInv /\ frame_size_reg' = frame_size_reg
      /\ SoftwareTypes' /\ SampledTypes'
  BY ClockedTypes DEF CoreInv
<1>2. /\ state = 2 /\ gmii_en' = FALSE
      /\ state' = IF gap_counter < gap_counter_last THEN 2 ELSE 0
      /\ gap_counter' \in 0 .. Mod32 - 1 /\ frames' \in 0 .. Mod64 - 1
      /\ gap_counter < gap_counter_last => gap_counter' = gap_counter + 1
  BY <1>1, IncFacts DEF WaitGap, GapOver, LineIdle, CounterTypes
<1>3. CounterTypes'
  BY <1>1, <1>2 DEF WaitGap, CounterTypes, fieldCounters
<1>4. OutputTypes'
  <2>1. 0 \in 0 .. Words - 1
    OBVIOUS
  <2> QED BY <1>1, <2>1, Zenon DEF WaitGap, OutputTypes, LineIdle, AddressRewinds
<1>5. FieldInv'
  BY <1>1, <1>2, <1>3 DEF WaitGap, FieldInv, OnLine, CounterTypes
<1> QED BY <1>1, <1>3, <1>4, <1>5 DEF CoreInv

\* Software's writes leave the machine alone, and what they store fits.
Written ==
  /\ SoftwareTypes' /\ frame_size_reg' >= 2
  /\ UNCHANGED <<sampled, machine>>

LEMMA ControlWritten ==
  ASSUME CoreInv, NEW go \in BOOLEAN, NEW ts \in BOOLEAN, WriteControl(go, ts)
  PROVE  Written
<1>1. control_reg' \in [run : BOOLEAN, timestamp : BOOLEAN]
  BY DEF WriteControl
<1> QED BY <1>1 DEF Written, CoreInv, FieldInv, SoftwareTypes, WriteControl,
                    config, buffer

LEMMA ConfigWritten ==
  ASSUME CoreInv, Reconfigure
  PROVE  Written
<1> USE GeneratorAssumption DEF CoreInv, FieldInv, SoftwareTypes, Written
<1>1. ASSUME NEW v \in InterframeGaps, WriteInterframeGap(v) PROVE Written
  BY <1>1 DEF WriteInterframeGap, buffer
<1>2. ASSUME NEW v \in InterburstGaps, WriteInterburstGap(v) PROVE Written
  BY <1>2 DEF WriteInterburstGap, buffer
<1>3. ASSUME NEW v \in FramesPerBurst, WriteFramesPerBurst(v) PROVE Written
  BY <1>3 DEF WriteFramesPerBurst, buffer
<1>4. ASSUME NEW v \in TotalHalves, WriteTotalHigh(v) \/ WriteTotalLow(v)
      PROVE  Written
  <2>1. total_frames_reg' \in [msb : 0 .. Half64 - 1, lsb : 0 .. Half64 - 1]
    BY <1>4 DEF WriteTotalHigh, WriteTotalLow
  <2> QED BY <1>4, <2>1 DEF WriteTotalHigh, WriteTotalLow, buffer
<1>5. ASSUME NEW v \in FrameSizes, WriteFrameSize(v) PROVE Written
  BY <1>5 DEF WriteFrameSize
<1>6. ASSUME NEW a \in 0 .. Words - 1, WriteFrameBufAddress(a) PROVE Written
  BY <1>6 DEF WriteFrameBufAddress, config
<1>7. ASSUME NEW c \in Contents, WriteFrameBuf(c) PROVE Written
  <2>1. frame_buf_address_next' \in 0 .. Words - 1
    BY <1>7, IncFacts DEF WriteFrameBuf
  <2>2. mem' \in [0 .. Words - 1 -> Contents]
    BY <1>7 DEF WriteFrameBuf
  <2> QED BY <1>7, <2>1, <2>2 DEF WriteFrameBuf, config
<1> QED BY <1>1, <1>2, <1>3, <1>4, <1>5, <1>6, <1>7 DEF Reconfigure

LEMMA WrittenCoreInv ==
  ASSUME CoreInv, Written
  PROVE  CoreInv'
<1>1. /\ SoftwareTypes' /\ frame_size_reg' >= 2
      /\ UNCHANGED <<run, timestamp_enable, frame_buf_out_data>>
      /\ UNCHANGED <<state, next_state, data_counter, data_counter_last,
           gap_counter, gap_counter_last, seqnum_counter, timestamp_counter,
           crc_counter, frames, burst_index, pkts_reg, frame_buf_out_address,
           frame_buf_out_data_r, gmii_en, crc_calc, crc_init, crc_d_valid>>
  BY DEF Written, sampled, machine, fieldCounters, crcControls
<1>2. SampledTypes' /\ OutputTypes'
  BY <1>1 DEF CoreInv, SampledTypes, OutputTypes
<1>3. CounterTypes'
  BY <1>1 DEF CoreInv, CounterTypes
<1>4. FieldInv'
  BY <1>1 DEF CoreInv, FieldInv, OnLine
<1> QED BY <1>1, <1>2, <1>3, <1>4 DEF CoreInv

LEMMA TickCoreInv ==
  ASSUME CoreInv, NEW now, Tick(now)
  PROVE  CoreInv'
  BY IdleCoreInv, DataCoreInv, FieldCoreInv, GapCoreInv DEF Tick

LEMMA NextCoreInv == CoreInv /\ [Next]_vars => CoreInv'
<1> SUFFICES ASSUME CoreInv, [Next]_vars PROVE CoreInv'
  OBVIOUS
<1>1. CASE \E now \in Times : Tick(now)
  BY <1>1, TickCoreInv
<1>2. CASE \E go, ts \in BOOLEAN : WriteControl(go, ts)
  BY <1>2, ControlWritten, WrittenCoreInv
<1>3. CASE Reconfigure
  BY <1>3, ConfigWritten, WrittenCoreInv
<1>4. CASE UNCHANGED vars
  <2>1. Written
    BY <1>4 DEF vars, software, config, buffer, Written, CoreInv, FieldInv,
       SoftwareTypes
  <2> QED BY <2>1, WrittenCoreInv
<1> QED BY <1>1, <1>2, <1>3, <1>4 DEF Next

(***************************************************************************)
(* The registers and counters of traffic_generator_gmii.v keep their       *)
(* widths, however software writes the registers meanwhile.                *)
(***************************************************************************)
THEOREM GeneratorTypes == Spec => []TypeOK
  BY InitCoreInv, NextCoreInv, CoreInvTypes, PTL DEF Spec

---------------------------------------------------------------------------
\* The frame on the line: the initial state, and software's writes.

LEMMA InitLineInv == LineInit => LineInv
<1> SUFFICES ASSUME LineInit PROVE LineInv OBVIOUS
<1> USE GeneratorAssumption, LineAssumption, Mod64Facts, InitCoreInv
    DEF LineInit, Idle, Data, Gap, SeqNum, Timestamp, Crc, Static
<1>1. CoreInv /\ state = 0 /\ gmii_en = FALSE /\ data_counter = 0 /\ crc_init
  BY DEF Init
<1>2. ConfigInv
  <2>1. line \in Seq(Range(line))
    BY EmptySeq
  <2>2. began \in [size : 2 .. Mod32 - 1, ifg : 0 .. MaxIdle,
                   ibg : 0 .. MaxIdle, gaps : SUBSET (0 .. MaxIdle)]
    BY DEF Init, Snapshot
  <2> QED BY <2>1, <2>2 DEF ConfigInv, Init
<1>3. LengthInv /\ TimeInv
  BY <1>1 DEF LengthInv, TimeInv
<1>4. NumberInv /\ TotalInv
  <2>1. run = FALSE
    BY DEF Init
  <2>2. TotalFrames \in Nat
    BY <1>1 DEF CoreInv, SoftwareTypes, TotalFrames
  <2> QED BY <1>1, <2>1, <2>2 DEF NumberInv, TotalInv
<1>5. PipeInv
  BY <1>1 DEF PipeInv, Init
<1>6. OctetInv /\ CrcInv
  BY <1>1 DEF OctetInv, CrcInv, CrcCoversFrame, Held, Folding
<1>7. GapInv
  BY <1>1, <1>2 DEF GapInv, ConfigInv, Snapshot
<1> QED BY <1>2, <1>3, <1>4, <1>5, <1>6, <1>7 DEF LineInv

LEMMA WrittenLineInv ==
  ASSUME CoreInv, LineInv, Written, UNCHANGED <<line, idle, sent, began, rise>>,
         interframe_gap_reg' <= MaxIdle, interburst_gap_reg' <= MaxIdle,
         \/ UNCHANGED <<stable, mem, total_frames_reg>>
         \/ stable' = FALSE
  PROVE  LineInv'
<1>1. UNCHANGED <<state, next_state, data_counter, data_counter_last,
        gap_counter, gap_counter_last, seqnum_counter, timestamp_counter,
        crc_counter, frames, run, timestamp, frame_buf_out_address,
        frame_buf_out_data, frame_buf_out_data_r, data_t0, gmii_d, gmii_en,
        crc_calc, crc_init, crc_d_valid, crc_octets, crc_index>>
  BY DEF Written, sampled, machine, fieldCounters, crcControls
<1>2. ConfigInv' /\ LengthInv'
  <2>1. ConfigInv /\ LengthInv
    BY DEF LineInv
  <2>2. stable' \in BOOLEAN
    BY <2>1 DEF ConfigInv
  <2>3. ConfigInv'
    BY <2>1, <2>2 DEF ConfigInv
  <2>4. LengthInv'
    BY <1>1, <2>1 DEF LengthInv
  <2> QED BY <2>3, <2>4
<1>3. NumberInv' /\ TimeInv'
  BY <1>1 DEF LineInv, NumberInv, TimeInv, Begun
<1>4. TotalInv'
  BY <1>1 DEF LineInv, TotalInv, TotalFrames
<1>5. PipeInv'
  BY <1>1 DEF LineInv, PipeInv, Fetched
<1>6. OctetInv'
  BY <1>1 DEF LineInv, OctetInv, Held, Fits, BufferOctet, Position
<1>7. CrcInv'
  BY <1>1 DEF LineInv, CrcInv, Folding, End, CrcCoversFrame, Position
<1>8. GapInv'
  BY <1>1 DEF LineInv, GapInv
<1> QED BY <1>2, <1>3, <1>4, <1>5, <1>6, <1>7, <1>8 DEF LineInv

LEMMA ControlLineInv ==
  ASSUME CoreInv, LineInv, NEW go \in BOOLEAN, NEW ts \in BOOLEAN,
         WriteControl(go, ts), UNCHANGED observers
  PROVE  LineInv'
  BY ControlWritten, WrittenLineInv
  DEF WriteControl, config, buffer, observers, LineInv, ConfigInv

LEMMA ConfigLineInv ==
  ASSUME CoreInv, LineInv, Reconfigure, stable' = FALSE,
         UNCHANGED <<line, idle, sent, began, rise>>
  PROVE  LineInv'
<1>1. interframe_gap_reg <= MaxIdle /\ interburst_gap_reg <= MaxIdle
  BY DEF LineInv, ConfigInv
<1>2. interframe_gap_reg' <= MaxIdle /\ interburst_gap_reg' <= MaxIdle
  BY <1>1, LineAssumption
  DEF Reconfigure, WriteInterframeGap, WriteInterburstGap, WriteFramesPerBurst,
      WriteTotalHigh, WriteTotalLow, WriteFrameSize, WriteFrameBufAddress,
      WriteFrameBuf, config, LineInv, ConfigInv
<1> QED BY <1>2, ConfigWritten, WrittenLineInv

---------------------------------------------------------------------------
\* The frame on the line: a cycle of clk.

\* What every cycle leaves alone, and how the line grows.
LEMMA TickFacts ==
  ASSUME CoreInv, LineInv, NEW now, Tick(now), Observe(now)
  PROVE  /\ CoreInv'
         /\ UNCHANGED <<frame_size_reg, interframe_gap_reg, interburst_gap_reg,
                        frames_per_burst_reg, total_frames_reg, mem>>
         /\ gmii_en' => line' = Append(line, gmii_d')
         /\ ~gmii_en' => line' = <<>>
         /\ line' \in Seq(Range(line'))
         /\ Len(line) \in Nat
         /\ Len(line') = IF gmii_en' THEN Len(line) + 1 ELSE 0
<1>1. CoreInv'
  BY TickCoreInv
<1>2. UNCHANGED <<frame_size_reg, interframe_gap_reg, interburst_gap_reg,
                  frames_per_burst_reg, total_frames_reg, mem>>
  BY DEF Tick, Clocked, software, config, buffer
<1>3. line \in Seq(Range(line)) /\ Len(line) \in Nat
  BY LenProperties DEF LineInv, ConfigInv
<1>4. CASE gmii_en'
  <2>1. line' = Append(line, gmii_d')
    BY <1>4 DEF Observe, LineInv, LengthInv
  <2> QED BY <1>1, <1>2, <1>3, <1>4, <2>1, AppendFacts
<1>5. CASE ~gmii_en'
  <2>1. line' = <<>>
    BY <1>5 DEF Observe
  <2>2. line' \in Seq(Range(line')) /\ Len(line') = 0
    BY <2>1, EmptySeq
  <2> QED BY <1>1, <1>2, <1>3, <1>5, <2>1, <2>2
<1> QED BY <1>4, <1>5

LEMMA TickConfig ==
  ASSUME CoreInv, LineInv, NEW now, Tick(now), Observe(now)
  PROVE  ConfigInv'
<1> USE GeneratorAssumption, LineAssumption, Mod64Facts
<1>1. /\ ConfigInv /\ SoftwareTypes /\ frame_size_reg >= 2
      /\ line' \in Seq(Range(line'))
      /\ UNCHANGED <<interframe_gap_reg, interburst_gap_reg>>
  BY TickFacts DEF LineInv, CoreInv, FieldInv
<1>2. began' \in [size : 2 .. Mod32 - 1, ifg : 0 .. MaxIdle, ibg : 0 .. MaxIdle,
                  gaps : SUBSET (0 .. MaxIdle)]
  BY <1>1 DEF Observe, Snapshot, ConfigInv, SoftwareTypes
<1>3. idle' \in Nat /\ sent' \in 0 .. Mod64 - 1
  <2> DEFINE m == Mod64
  <2>1. m \in Nat \ {0} /\ idle \in Nat /\ sent \in 0 .. m - 1
    BY <1>1 DEF ConfigInv
  <2> HIDE DEF m
  <2>2. Inc(sent, m) \in 0 .. m - 1
    BY <2>1, IncFacts
  <2>3. idle' \in {idle, 1, idle + 1}
    BY DEF Observe
  <2>4. sent' \in {0, Inc(sent, Mod64), sent}
    BY DEF Observe
  <2> QED BY <2>1, <2>3, <2>4, <2>2 DEF m
<1>4. stable' \in BOOLEAN
  BY DEF Observe
<1> QED BY <1>1, <1>2, <1>3, <1>4 DEF ConfigInv

(***************************************************************************)
(* What the cycle of each state does to the counters and to the line.      *)
(***************************************************************************)
LEMMA Sizes ==
  ASSUME CoreInv, LineInv
  PROVE  /\ began.size \in Nat /\ began.size >= 2 /\ began.size <= Mod32 - 1
         /\ idle \in Nat /\ sent \in 0 .. Mod64 - 1 /\ frames \in 0 .. Mod64 - 1
         /\ SeqOctets \in Nat /\ TsOctets \in Nat /\ CrcOctets \in Nat
         /\ SeqOctets > 0 /\ TsOctets > 0 /\ CrcOctets > 0
         /\ Len(line) \in Nat
         /\ ~gmii_en => line = <<>> /\ Len(line) = 0
  BY GeneratorAssumption, LenProperties, EmptySeq
  DEF CoreInv, CounterTypes, LineInv, ConfigInv, LengthInv

\* In the middle of a frame the observers only extend the line.
MidFrame ==
  /\ gmii_en /\ gmii_en' /\ gmii_d' = data_t0
  /\ line' = Append(line, data_t0) /\ Len(line') = Len(line) + 1
  /\ UNCHANGED <<began, idle, sent, rise, stable, timestamp, frames>>

LEMMA ObserveMidFrame ==
  ASSUME CoreInv, LineInv, NEW now, Tick(now), Observe(now),
         state # Idle, gmii_en, gmii_en'
  PROVE  /\ line' = Append(line, gmii_d') /\ Len(line') = Len(line) + 1
         /\ UNCHANGED <<began, idle, sent, rise, stable>>
<1>1. line' = Append(line, gmii_d') /\ Len(line') = Len(line) + 1
  BY TickFacts
<1>2. UNCHANGED <<began, idle, sent, rise>>
  BY DEF Observe
<1>3. stable' = stable
  <2>1. stable \in BOOLEAN
    BY DEF LineInv, ConfigInv
  <2> QED BY <2>1, Zenon DEF Observe
<1> QED BY <1>1, <1>2, <1>3

SeqNumEffect ==
  /\ state = 3 /\ MidFrame
  /\ Len(line') = Len(line) + 1 /\ began' = began
  /\ seqnum_counter \in 0 .. SeqOctets - 1
  /\ Len(line) = began.size - 1 + seqnum_counter
  /\ data_t0' = <<"seq", frames, seqnum_counter>>
  /\ UNCHANGED <<data_counter_last, gap_counter_last>>
  /\ UNCHANGED <<crc_calc, crc_init, crc_d_valid>>
  /\ \/ state' = 3 /\ seqnum_counter' = seqnum_counter + 1
     \/ /\ state' = 4 /\ seqnum_counter + 1 = SeqOctets
        /\ timestamp_counter' = 0

LEMMA SeqNumStep ==
  ASSUME CoreInv, LineInv, NEW now, Tick(now), Observe(now), SendSeqNum
  PROVE  SeqNumEffect
<1> USE GeneratorAssumption DEF Idle, Data, Gap, SeqNum, Timestamp, Crc, Static
<1>1. /\ state = 3 /\ gmii_en /\ gmii_en' /\ timestamp_counter = 0
      /\ seqnum_counter \in 0 .. SeqOctets - 1
      /\ Len(line) = began.size - 1 + seqnum_counter
  BY DEF SendSeqNum, CoreInv, FieldInv, OnLine, CounterTypes, LineInv, LengthInv
<1>2. MidFrame
  BY <1>1, ObserveMidFrame DEF MidFrame, SendSeqNum, unlessField
<1>3. Len(line') = Len(line) + 1 /\ began' = began
  BY <1>2 DEF MidFrame
<1> QED BY <1>1, <1>2, <1>3 DEF SeqNumEffect, SendSeqNum, unlessField, crcControls

TimestampEffect ==
  /\ state = 4 /\ MidFrame
  /\ Len(line') = Len(line) + 1 /\ began' = began
  /\ timestamp_counter \in 0 .. TsOctets - 1
  /\ Len(line) = began.size - 1 + SeqOctets + timestamp_counter
  /\ data_t0' = <<"ts", timestamp, timestamp_counter>>
  /\ UNCHANGED <<data_counter_last, gap_counter_last>>
  /\ UNCHANGED <<crc_calc, crc_init, crc_d_valid>>
  /\ \/ state' = 4 /\ timestamp_counter' = timestamp_counter + 1
     \/ /\ state' = 5 /\ timestamp_counter + 1 = TsOctets
        /\ crc_counter' = 0

LEMMA TimestampStep ==
  ASSUME CoreInv, LineInv, NEW now, Tick(now), Observe(now), SendTimestamp
  PROVE  TimestampEffect
<1> USE GeneratorAssumption DEF Idle, Data, Gap, SeqNum, Timestamp, Crc, Static
<1>1. /\ state = 4 /\ gmii_en /\ gmii_en' /\ crc_counter = 0
      /\ timestamp_counter \in 0 .. TsOctets - 1
      /\ Len(line) = began.size - 1 + SeqOctets + timestamp_counter
  BY DEF SendTimestamp, CoreInv, FieldInv, OnLine, CounterTypes, LineInv,
         LengthInv
<1>2. MidFrame
  BY <1>1, ObserveMidFrame DEF MidFrame, SendTimestamp, unlessField
<1>3. Len(line') = Len(line) + 1 /\ began' = began
  BY <1>2 DEF MidFrame
<1> QED BY <1>1, <1>2, <1>3 DEF TimestampEffect, SendTimestamp, AfterTimestamp, unlessField, crcControls

StaticEffect ==
  /\ state = 6 /\ MidFrame
  /\ Len(line') = Len(line) + 1 /\ began' = began
  /\ Len(line) = began.size - 1
  /\ state' = 2 /\ gap_counter' = 0
  /\ UNCHANGED <<data_counter_last, gap_counter_last>>

LEMMA StaticStep ==
  ASSUME CoreInv, LineInv, NEW now, Tick(now), Observe(now), SendLastStatic
  PROVE  StaticEffect
<1> USE GeneratorAssumption DEF Idle, Data, Gap, SeqNum, Timestamp, Crc, Static
<1>1. /\ state = 6 /\ gmii_en /\ gmii_en' /\ gap_counter = 0
      /\ Len(line) = began.size - 1
  BY DEF SendLastStatic, CoreInv, FieldInv, OnLine, LineInv, LengthInv
<1>2. MidFrame
  BY <1>1, ObserveMidFrame DEF MidFrame, SendLastStatic, unlessField
<1>3. Len(line') = Len(line) + 1 /\ began' = began
  BY <1>2 DEF MidFrame
<1> QED BY <1>1, <1>2, <1>3 DEF StaticEffect, SendLastStatic, unlessField

CrcEffect ==
  /\ state = 5 /\ gmii_en /\ gmii_en'
  /\ gmii_d' = IF crc_counter = 0 THEN data_t0
               ELSE <<"crc", crc_octets, crc_index>>
  /\ line' = Append(line, gmii_d') /\ Len(line') = Len(line) + 1
  /\ UNCHANGED <<began, idle, sent, rise, stable, timestamp, frames>>
  /\ crc_counter \in 0 .. CrcOctets /\ crc_counter' = crc_counter + 1
  /\ Len(line) = began.size - 1 + SeqOctets + TsOctets + crc_counter
  /\ ~crc_calc'
  /\ UNCHANGED <<data_counter_last, gap_counter_last>>
  /\ UNCHANGED <<data_t0, crc_init, crc_d_valid>>
  /\ state' = 5 \/ (state' = 2 /\ crc_counter = CrcOctets /\ gap_counter' = 0)

LEMMA CrcStep ==
  ASSUME CoreInv, LineInv, NEW now, Tick(now), Observe(now), SendCrc
  PROVE  CrcEffect
<1> USE GeneratorAssumption DEF Idle, Data, Gap, SeqNum, Timestamp, Crc, Static
<1>1. /\ state = 5 /\ gmii_en /\ gmii_en' /\ gap_counter = 0
      /\ crc_counter \in 0 .. CrcOctets
      /\ Len(line) = began.size - 1 + SeqOctets + TsOctets + crc_counter
  BY DEF SendCrc, Drive, CoreInv, FieldInv, OnLine, CounterTypes, LineInv,
         LengthInv
<1>2. /\ line' = Append(line, gmii_d') /\ Len(line') = Len(line) + 1
      /\ UNCHANGED <<began, idle, sent, rise, stable>>
  BY <1>1, ObserveMidFrame
<1> QED BY <1>1, <1>2 DEF CrcEffect, SendCrc, Drive, unlessField

DataEffect ==
  /\ state = 1
  /\ data_counter \in 0 .. began.size - 1
  /\ gmii_en <=> data_counter >= 2
  /\ gmii_en' <=> data_counter >= 1
  /\ data_counter >= 1 => Len(line) = data_counter - 1
  /\ data_counter' = data_counter + 1
  /\ data_t0' = <<"buf", frame_buf_out_data_r, data_counter % 4>>
  /\ data_counter >= 1 =>
       /\ gmii_d' = data_t0 /\ line' = Append(line, data_t0)
       /\ Len(line') = Len(line) + 1
  /\ UNCHANGED <<began, stable, frames>>
  /\ UNCHANGED <<data_counter_last, gap_counter_last>>
  /\ \/ state' = 1 /\ data_counter < began.size - 1
     \/ /\ state' \in {3, 6} /\ data_counter = began.size - 1
        /\ seqnum_counter' = 0

LEMMA DataStep ==
  ASSUME CoreInv, LineInv, NEW now, Tick(now), Observe(now), SendData(now)
  PROVE  DataEffect
<1> USE GeneratorAssumption DEF Idle, Data, Gap, SeqNum, Timestamp, Crc, Static
<1>1. /\ state = 1 /\ data_counter_last = began.size - 1
      /\ data_counter <= data_counter_last /\ data_counter \in 0 .. Mod32 - 1
      /\ data_counter_last \in 1 .. Mod32 - 2
      /\ gmii_en <=> data_counter >= 2
      /\ seqnum_counter = 0 /\ next_state \in {3, 6}
  BY DEF SendData, CoreInv, FieldInv, OnLine, CounterTypes, LineInv, LengthInv
<1>2. data_counter' = data_counter + 1
  BY <1>1, IncFacts DEF SendData
<1>3. \/ state' = 1 /\ data_counter < began.size - 1
      \/ /\ state' \in {3, 6} /\ data_counter = began.size - 1
         /\ seqnum_counter' = 0
  BY <1>1 DEF SendData, LastData, fieldCounters
<1>4. gmii_en' <=> data_counter >= 1
  BY <1>1, <1>2, <1>3, TickFacts DEF CoreInv, FieldInv, OnLine
<1>5. data_counter >= 1 => Len(line) = data_counter - 1
  BY <1>1, Sizes DEF LineInv, LengthInv
<1>6. data_counter >= 1 =>
        /\ gmii_d' = data_t0 /\ line' = Append(line, data_t0)
        /\ Len(line') = Len(line) + 1
  BY <1>1, <1>4, TickFacts DEF SendData, Drive
<1>7. UNCHANGED <<began, stable>>
  BY <1>1 DEF Observe, LineInv, ConfigInv
<1> QED BY <1>1, <1>2, <1>3, <1>4, <1>5, <1>6, <1>7 DEF DataEffect, SendData, Lane, Lanes

StartEffect ==
  /\ state = 0 /\ run /\ state' = 1 /\ MoreFrames
  /\ ~gmii_en /\ ~gmii_en' /\ line' = <<>>
  /\ data_counter' = 0 /\ data_counter_last' = frame_size_reg - 1
  /\ began' = [size |-> frame_size_reg, ifg |-> interframe_gap_reg,
               ibg |-> interburst_gap_reg,
               gaps |-> {began.ifg, began.ibg}]
  /\ idle' = IF idle < MaxIdle THEN idle + 1 ELSE idle
  /\ UNCHANGED <<sent, rise, stable, frames, crc_init, timestamp>>

LEMMA StartStep ==
  ASSUME CoreInv, LineInv, NEW now, Tick(now), Observe(now), StartFrame
  PROVE  StartEffect
<1> USE GeneratorAssumption DEF Idle, Data, Gap, SeqNum, Timestamp, Crc, Static
<1>1. state = 0 /\ run /\ state' = 1 /\ MoreFrames /\ ~gmii_en /\ ~gmii_en'
  BY DEF StartFrame, Runs, LineIdle, CoreInv, FieldInv, OnLine
<1>2. data_counter' = 0 /\ data_counter_last' = frame_size_reg - 1
  BY PrepareTypes DEF StartFrame
<1>3. /\ line' = <<>> /\ UNCHANGED <<sent, rise>>
      /\ idle' = IF idle < MaxIdle THEN idle + 1 ELSE idle
  BY <1>1 DEF Observe
<1>4. began' = [size |-> frame_size_reg, ifg |-> interframe_gap_reg,
                ibg |-> interburst_gap_reg, gaps |-> {began.ifg, began.ibg}]
  BY <1>1 DEF Observe, Snapshot
<1>5. stable' = stable
  <2>1. stable \in BOOLEAN
    BY DEF LineInv, ConfigInv
  <2> QED BY <1>1, <2>1, Zenon DEF Observe
<1> QED BY <1>1, <1>2, <1>3, <1>4, <1>5 DEF StartEffect, StartFrame, crcControls

WaitEffect ==
  /\ state = 0 /\ state' = 0 /\ ~gmii_en /\ ~gmii_en' /\ line' = <<>>
  /\ idle' = IF idle < MaxIdle THEN idle + 1 ELSE idle
  /\ UNCHANGED <<began, rise, crc_init>>
  /\ ~run => frames' = 0 /\ sent' = 0
  /\ run => UNCHANGED <<frames, sent, stable>>
  /\ UNCHANGED <<frame_buf_out_address, frame_buf_out_data_r>>

LEMMA WaitStep ==
  ASSUME CoreInv, LineInv, NEW now, Tick(now), Observe(now),
         TotalReached \/ Stopped
  PROVE  WaitEffect
<1> USE GeneratorAssumption DEF Idle, Data, Gap, SeqNum, Timestamp, Crc, Static
<1>1. state = 0 /\ state' = 0 /\ ~gmii_en /\ ~gmii_en'
  BY DEF TotalReached, Stopped, LineIdle, CoreInv, FieldInv, OnLine
<1>2. /\ line' = <<>> /\ UNCHANGED <<began, rise>>
      /\ idle' = IF idle < MaxIdle THEN idle + 1 ELSE idle
      /\ ~run => sent' = 0
      /\ run => sent' = sent
  BY <1>1 DEF Observe
<1>3. run => stable' = stable
  <2>1. stable \in BOOLEAN
    BY DEF LineInv, ConfigInv
  <2> QED BY <1>1, <2>1, Zenon DEF Observe
<1> QED BY <1>1, <1>2, <1>3
        DEF WaitEffect, TotalReached, Stopped, Runs, FramesRestart, crcControls

GapEffect ==
  /\ state = 2 /\ ~gmii_en' /\ line' = <<>> /\ crc_init'
  /\ gmii_en <=> gap_counter = 0
  /\ idle' = IF gmii_en THEN 1 ELSE IF idle < MaxIdle THEN idle + 1 ELSE idle
  /\ gap_counter \in Nat /\ gap_counter_last \in Nat
  /\ UNCHANGED <<began, sent, rise, stable, gap_counter_last,
                 data_counter_last>>
  /\ frame_buf_out_address' = 0
  /\ \/ /\ state' = 2 /\ gap_counter < gap_counter_last
        /\ gap_counter' = gap_counter + 1 /\ frames' = frames
     \/ /\ state' = 0 /\ gap_counter = gap_counter_last
        /\ frames' = Inc(frames, Mod64)

LEMMA GapStep ==
  ASSUME CoreInv, LineInv, NEW now, Tick(now), Observe(now), WaitGap
  PROVE  GapEffect
<1> USE GeneratorAssumption DEF Idle, Data, Gap, SeqNum, Timestamp, Crc, Static
<1>1. /\ state = 2 /\ ~gmii_en' /\ (gmii_en <=> gap_counter = 0) /\ crc_init'
      /\ gap_counter <= gap_counter_last /\ frame_buf_out_address' = 0
      /\ gap_counter \in 0 .. Mod32 - 1 /\ gap_counter_last \in 0 .. Mod32 - 1
  BY DEF WaitGap, LineIdle, AddressRewinds, CoreInv, FieldInv, OnLine,
         CounterTypes
<1>2. /\ line' = <<>> /\ UNCHANGED <<began, sent, rise>>
      /\ idle' = IF gmii_en THEN 1 ELSE IF idle < MaxIdle THEN idle + 1 ELSE idle
  BY <1>1 DEF Observe
<1>3. stable' = stable
  <2>1. stable \in BOOLEAN
    BY DEF LineInv, ConfigInv
  <2>2. state # Idle
    BY <1>1
  <2> QED BY <2>1, <2>2, Zenon DEF Observe
<1>4. \/ /\ state' = 2 /\ gap_counter < gap_counter_last
         /\ gap_counter' = gap_counter + 1 /\ frames' = frames
      \/ /\ state' = 0 /\ gap_counter = gap_counter_last
         /\ frames' = Inc(frames, Mod64)
  BY <1>1, IncFacts DEF WaitGap, GapOver
<1> QED BY <1>1, <1>2, <1>3, <1>4 DEF GapEffect, WaitGap

\* A cycle has one of these effects.
LEMMA TickEffects ==
  ASSUME CoreInv, LineInv, NEW now, Tick(now), Observe(now)
  PROVE  \/ StartEffect \/ WaitEffect \/ DataEffect
         \/ SeqNumEffect \/ TimestampEffect \/ CrcEffect \/ StaticEffect
         \/ GapEffect
  BY StartStep, WaitStep, DataStep, SeqNumStep, TimestampStep, CrcStep,
     StaticStep, GapStep DEF Tick

---------------------------------------------------------------------------
\* Each part of the invariant is kept by a cycle: one step per effect.

LEMMA TickLength ==
  ASSUME CoreInv, LineInv, NEW now, Tick(now), Observe(now)
  PROVE  LengthInv'
<1> USE DEF Idle, Data, Gap, SeqNum, Timestamp, Crc, Static
<1>1. /\ LengthInv /\ (~gmii_en' => line' = <<>>)
      /\ began.size \in Nat /\ Len(line) \in Nat
      /\ SeqOctets \in Nat /\ TsOctets \in Nat /\ CrcOctets \in Nat
  BY TickFacts, Sizes DEF LineInv
<1>2. CASE StartEffect
  BY <1>1, <1>2 DEF StartEffect, LengthInv
<1>3. CASE WaitEffect
  BY <1>1, <1>3 DEF WaitEffect, LengthInv
<1>4. CASE DataEffect
  <2>1. /\ state # 0 /\ state' # 0 /\ UNCHANGED <<began, data_counter_last>>
        /\ state' = 1 /\ gmii_en' => Len(line') = data_counter' - 1
        /\ state' = 6 => Len(line') = began.size - 1
        /\ state' = 3 => Len(line') = began.size - 1 + seqnum_counter'
        /\ state' \in {1, 3, 6}
    BY <1>1, <1>4 DEF DataEffect
  <2> QED BY <1>1, <2>1 DEF LengthInv
<1>5. CASE SeqNumEffect
  <2>1. /\ state = 3 /\ state' \in {3, 4} /\ gmii_en' /\ began' = began
        /\ data_counter_last' = data_counter_last
    BY <1>5 DEF SeqNumEffect, MidFrame
  <2>2. /\ state' = 3 => Len(line') = began.size - 1 + seqnum_counter'
        /\ state' = 4 =>
             Len(line') = began.size - 1 + SeqOctets + timestamp_counter'
    <3>1. /\ Len(line') = Len(line) + 1 /\ seqnum_counter \in Nat
          /\ Len(line) = began.size - 1 + seqnum_counter
          /\ \/ state' = 3 /\ seqnum_counter' = seqnum_counter + 1
             \/ /\ state' = 4 /\ seqnum_counter + 1 = SeqOctets
                /\ timestamp_counter' = 0
      BY <1>1, <1>5 DEF SeqNumEffect
    <3> QED BY <1>1, <3>1
  <2> QED BY <1>1, <2>1, <2>2 DEF LengthInv
<1>6. CASE TimestampEffect
  <2>1. /\ state = 4 /\ state' \in {4, 5} /\ gmii_en' /\ began' = began
        /\ data_counter_last' = data_counter_last
    BY <1>6 DEF TimestampEffect, MidFrame
  <2>2. /\ state' = 4 =>
             Len(line') = began.size - 1 + SeqOctets + timestamp_counter'
        /\ state' = 5 =>
             Len(line') = began.size - 1 + SeqOctets + TsOctets + crc_counter'
    <3>1. /\ Len(line') = Len(line) + 1 /\ timestamp_counter \in Nat
          /\ Len(line) = began.size - 1 + SeqOctets + timestamp_counter
          /\ \/ state' = 4 /\ timestamp_counter' = timestamp_counter + 1
             \/ /\ state' = 5 /\ timestamp_counter + 1 = TsOctets
                /\ crc_counter' = 0
      BY <1>1, <1>6 DEF TimestampEffect
    <3> QED BY <1>1, <3>1
  <2> QED BY <1>1, <2>1, <2>2 DEF LengthInv
<1>7. CASE CrcEffect
  <2>1. /\ state = 5 /\ state' \in {2, 5} /\ gmii_en' /\ began' = began
        /\ data_counter_last' = data_counter_last
    BY <1>7 DEF CrcEffect
  <2>2. /\ state' = 5 =>
             Len(line') = began.size - 1 + SeqOctets + TsOctets + crc_counter'
        /\ state' = 2 => Len(line') = began.size + DynamicOctets
    <3>1. /\ Len(line') = Len(line) + 1 /\ crc_counter \in Nat
          /\ Len(line) = began.size - 1 + SeqOctets + TsOctets + crc_counter
          /\ crc_counter' = crc_counter + 1
          /\ state' = 5 \/ (state' = 2 /\ crc_counter = CrcOctets)
      BY <1>1, <1>7 DEF CrcEffect
    <3> QED BY <1>1, <3>1 DEF DynamicOctets
  <2> QED BY <1>1, <2>1, <2>2 DEF LengthInv
<1>8. CASE StaticEffect
  BY <1>1, <1>8 DEF StaticEffect, LengthInv
<1>9. CASE GapEffect
  BY <1>1, <1>9 DEF GapEffect, LengthInv
<1> QED BY <1>2, <1>3, <1>4, <1>5, <1>6, <1>7, <1>8, <1>9, TickEffects

LEMMA TickNumber ==
  ASSUME CoreInv, LineInv, NEW now, Tick(now), Observe(now)
  PROVE  NumberInv'
<1> USE DEF Idle, Data, Gap, SeqNum, Timestamp, Crc, Static, NumberInv, Begun
<1>1. NumberInv /\ (gmii_en <=> OnLine) /\ data_counter \in Nat
  BY DEF LineInv, CoreInv, FieldInv, CounterTypes
<1>2. CASE StartEffect
  BY <1>1, <1>2 DEF StartEffect
<1>3. CASE WaitEffect
  BY <1>1, <1>3 DEF WaitEffect
<1>4. CASE DataEffect
  <2>1. state = 1 /\ state' # 2 /\ frames' = frames
        /\ (gmii_en <=> data_counter >= 2) /\ (gmii_en' <=> data_counter >= 1)
    BY <1>4 DEF DataEffect
  <2>2. sent' = IF gmii_en' /\ ~gmii_en THEN Inc(sent, Mod64) ELSE sent
    BY <2>1 DEF Observe
  <2> QED BY <1>1, <2>1, <2>2
<1>5. CASE SeqNumEffect
  BY <1>1, <1>5 DEF SeqNumEffect, MidFrame
<1>6. CASE TimestampEffect
  BY <1>1, <1>6 DEF TimestampEffect, MidFrame
<1>7. CASE CrcEffect
  BY <1>1, <1>7 DEF CrcEffect
<1>8. CASE StaticEffect
  BY <1>1, <1>8 DEF StaticEffect, MidFrame
<1>9. CASE GapEffect
  BY <1>1, <1>9 DEF GapEffect
<1> QED BY <1>2, <1>3, <1>4, <1>5, <1>6, <1>7, <1>8, <1>9, TickEffects

LEMMA TickTotal ==
  ASSUME CoreInv, LineInv, NEW now, Tick(now), Observe(now)
  PROVE  TotalInv'
<1> USE DEF Idle, Data, Gap, SeqNum, Timestamp, Crc, Static
<1>1. /\ TotalInv /\ NumberInv /\ NumberInv'
      /\ sent \in Nat /\ frames \in Nat /\ TotalFrames \in Nat
      /\ TotalFrames' = TotalFrames
  <2>1. TotalFrames \in Nat
    BY GeneratorAssumption DEF TotalFrames, CoreInv, SoftwareTypes
  <2> QED BY <2>1, TickNumber, TickFacts, Sizes, Mod64Facts
          DEF LineInv, TotalFrames
<1>2. Inc(frames, Mod64) \in {0, frames + 1}
  BY DEF Inc
<1>3. CASE StartEffect
  BY <1>1, <1>3 DEF StartEffect, TotalInv, NumberInv, Begun, MoreFrames
<1>4. CASE WaitEffect
  <2>1. CASE run
    BY <1>1, <1>4, <2>1 DEF WaitEffect, TotalInv
  <2>2. CASE ~run
    BY <1>1, <1>4, <2>2 DEF WaitEffect, TotalInv
  <2> QED BY <2>1, <2>2
<1>5. CASE DataEffect
  <2>1. state = 1 /\ state' # 0 /\ frames' = frames /\ stable' = stable
    BY <1>5 DEF DataEffect
  <2>2. sent' \in {frames, Inc(frames, Mod64)}
    BY <1>1, <2>1 DEF NumberInv
  <2> QED BY <1>1, <1>2, <2>1, <2>2 DEF TotalInv
<1>6. CASE SeqNumEffect
  BY <1>1, <1>6 DEF SeqNumEffect, MidFrame, TotalInv
<1>7. CASE TimestampEffect
  BY <1>1, <1>7 DEF TimestampEffect, MidFrame, TotalInv
<1>8. CASE CrcEffect
  BY <1>1, <1>8 DEF CrcEffect, TotalInv
<1>9. CASE StaticEffect
  BY <1>1, <1>9 DEF StaticEffect, MidFrame, TotalInv
<1>10. CASE GapEffect
  BY <1>1, <1>10 DEF GapEffect, TotalInv
<1> QED BY <1>3, <1>4, <1>5, <1>6, <1>7, <1>8, <1>9, <1>10, TickEffects

LEMMA TickTime ==
  ASSUME CoreInv, LineInv, NEW now, Tick(now), Observe(now)
  PROVE  TimeInv'
<1> USE DEF Idle, Data, Gap, SeqNum, Timestamp, Crc, Static, TimeInv
<1>1. TimeInv /\ data_counter \in Nat
  BY DEF LineInv, CoreInv, CounterTypes
<1>2. CASE StartEffect \/ WaitEffect \/ GapEffect
  BY <1>2 DEF StartEffect, WaitEffect, GapEffect
<1>3. CASE SendData(now)
  <2>1. /\ state = 1 /\ (gmii_en <=> data_counter >= 2)
        /\ (gmii_en' <=> data_counter >= 1)
    BY <1>3, DataStep DEF DataEffect
  <2>2. /\ rise' = IF gmii_en' /\ ~gmii_en THEN now ELSE rise
        /\ timestamp' = IF data_counter = 1 THEN now ELSE timestamp
    BY <1>3 DEF Observe, SendData, Stamps
  <2> QED BY <1>1, <2>1, <2>2
<1>4. CASE SeqNumEffect \/ TimestampEffect \/ StaticEffect
  BY <1>1, <1>4 DEF SeqNumEffect, TimestampEffect, StaticEffect, MidFrame
<1>5. CASE CrcEffect
  BY <1>1, <1>5 DEF CrcEffect
<1>6. StartFrame \/ TotalReached \/ Stopped => StartEffect \/ WaitEffect
  BY StartStep, WaitStep
<1> QED BY <1>2, <1>3, <1>4, <1>5, <1>6, SeqNumStep, TimestampStep, CrcStep,
           StaticStep, GapStep DEF Tick

LEMMA TickGap ==
  ASSUME CoreInv, LineInv, NEW now, Tick(now), Observe(now)
  PROVE  GapInv'
<1> USE DEF Idle, Data, Gap, SeqNum, Timestamp, Crc, Static
<1>1. /\ GapInv /\ ConfigInv /\ idle \in Nat /\ MaxIdle \in Nat
      /\ began.ifg \in 0 .. MaxIdle /\ began.ibg \in 0 .. MaxIdle
      /\ began.gaps \subseteq 0 .. MaxIdle
  BY LineAssumption DEF LineInv, ConfigInv
<1>2. CASE StartFrame
  <2>1. StartEffect
    BY <1>2, StartStep
  <2>2. gap_counter_last' \in {GapCycles(interframe_gap_reg),
                               GapCycles(interburst_gap_reg)}
    BY <1>2 DEF StartFrame, Prepare
  <2>3. /\ began'.ifg = interframe_gap_reg /\ began'.ibg = interburst_gap_reg
        /\ began'.gaps = {began.ifg, began.ibg}
        /\ state = 0 /\ state' = 1 /\ data_counter' = 0 /\ ~gmii_en'
        /\ idle' = IF idle < MaxIdle THEN idle + 1 ELSE idle
    BY <2>1 DEF StartEffect
  <2>4. \E g \in began'.gaps : idle' + 1 >= g
    BY <1>1, <2>3 DEF GapInv
  <2> QED BY <2>2, <2>3, <2>4 DEF GapInv, GapCycles, Sub32
<1>3. CASE WaitEffect
  BY <1>1, <1>3 DEF WaitEffect, GapInv
<1>4. CASE DataEffect
  <2>1. /\ state = 1 /\ state' \in {1, 3, 6} /\ UNCHANGED <<began, gap_counter_last>>
        /\ data_counter \in Nat /\ data_counter' = data_counter + 1
        /\ (gmii_en <=> data_counter >= 2) /\ (gmii_en' <=> data_counter >= 1)
    BY <1>4, Sizes DEF DataEffect
  <2>2. data_counter >= 1 => idle' = idle
    BY <2>1 DEF Observe
  <2>3. data_counter = 0 => idle' = IF idle < MaxIdle THEN idle + 1 ELSE idle
    BY <2>1 DEF Observe
  <2>4. \E g \in began.gaps : idle' >= g
    BY <1>1, <2>1, <2>2, <2>3 DEF GapInv
  <2> QED BY <1>1, <2>1, <2>4 DEF GapInv
<1>5. CASE SeqNumEffect
  BY <1>1, <1>5 DEF SeqNumEffect, MidFrame, GapInv
<1>6. CASE TimestampEffect
  BY <1>1, <1>6 DEF TimestampEffect, MidFrame, GapInv
<1>7. CASE CrcEffect
  BY <1>1, <1>7 DEF CrcEffect, GapInv
<1>8. CASE StaticEffect
  BY <1>1, <1>8 DEF StaticEffect, MidFrame, GapInv
<1>9. CASE GapEffect
  <2>1. CASE state' = 2
    BY <1>1, <1>9, <2>1 DEF GapEffect, GapInv
  <2>2. CASE state' = 0
    <3>1. PICK g \in 0 .. MaxIdle :
            g \in {began.ifg, began.ibg} /\ gap_counter_last = GapCycles(g)
      BY <1>1, <1>9 DEF GapEffect, GapInv
    <3>2. gap_counter_last + 3 >= g
      BY <1>1, <3>1, GeneratorAssumption DEF GapCycles, Sub32
    <3>3. idle' \in Nat /\ (idle' >= gap_counter_last + 1 \/ idle' >= MaxIdle)
      BY <1>1, <1>9, <2>2 DEF GapEffect, GapInv
    <3>4. began' = began /\ ~gmii_en' /\ gap_counter_last \in Nat
      BY <1>9 DEF GapEffect
    <3>5. idle' + 2 >= g
      BY <1>1, <3>2, <3>3, <3>4
    <3> QED BY <2>2, <3>1, <3>4, <3>5 DEF GapInv
  <2> QED BY <1>9, <2>1, <2>2 DEF GapEffect
<1> QED BY <1>2, <1>3, <1>4, <1>5, <1>6, <1>7, <1>8, <1>9, TickEffects,
           WaitStep, DataStep, SeqNumStep, TimestampStep, CrcStep, StaticStep,
           GapStep DEF Tick

\* How words move through the pipeline.
LEMMA PipeStep ==
  ASSUME CoreInv, LineInv, NEW now, Tick(now), Observe(now)
  PROVE  /\ frame_buf_out_data'[1] = frame_buf_out_address
         /\ frame_buf_out_data'[2] = mem[frame_buf_out_address]
         /\ StartFrame => /\ frame_buf_out_data_r' = frame_buf_out_data
                          /\ frame_buf_out_address' = 1
         /\ SendData(now) =>
              IF data_counter % 4 = 3
                THEN /\ frame_buf_out_address' = Inc(frame_buf_out_address, Words)
                     /\ frame_buf_out_data_r' = frame_buf_out_data
                ELSE UNCHANGED <<frame_buf_out_address, frame_buf_out_data_r>>
         /\ ~StartFrame /\ ~SendData(now) =>
              frame_buf_out_data_r' = frame_buf_out_data_r
<1>1. frame_buf_out_data' = <<frame_buf_out_address, mem[frame_buf_out_address]>>
  BY DEF Tick, Clocked, BufferRead
<1> QED BY <1>1 DEF Tick, StartFrame, TotalReached, Stopped, SendData, Lane,
               Lanes, SendSeqNum, SendTimestamp, SendCrc, SendLastStatic,
               unlessField, WaitGap

\* Cycles of a frame's first octets, as the pipeline counts them.
LEMMA FetchedStep ==
  ASSUME CoreInv, LineInv, NEW now, Tick(now), Observe(now), SendData(now),
         idle' >= 4
  PROVE  Fetched
<1>1. /\ data_counter \in Nat
      /\ (gmii_en <=> data_counter >= 2) /\ (gmii_en' <=> data_counter >= 1)
  BY DataStep, Sizes DEF DataEffect
<1>2. data_counter >= 1 => idle' = idle
  BY <1>1 DEF Observe
<1>3. data_counter = 0 => idle' \in {idle, idle + 1}
  BY <1>1 DEF Observe
<1> QED BY <1>1, <1>2, <1>3, Sizes DEF Fetched

LEMMA TickPipe ==
  ASSUME CoreInv, LineInv, NEW now, Tick(now), Observe(now)
  PROVE  PipeInv'
<1> USE GeneratorAssumption DEF Idle, Data, Gap, SeqNum, Timestamp, Crc, Static
<1>1. /\ PipeInv /\ mem' = mem /\ idle \in Nat
      /\ frame_buf_out_data'[1] = frame_buf_out_address
      /\ frame_buf_out_data'[2] = mem[frame_buf_out_address]
  BY PipeStep, TickFacts, Sizes DEF LineInv
<1>2. CASE StartFrame
  <2>1. StartEffect /\ frame_buf_out_data_r' = frame_buf_out_data
        /\ frame_buf_out_address' = 1
    BY <1>2, StartStep, PipeStep
  <2>2. Fetched' => frame_buf_out_data_r'[1] = 0
    <3>1. state = 0 /\ ~gmii_en /\ data_counter' = 0 /\ idle' \in {idle, idle + 1}
      BY <2>1 DEF StartEffect
    <3>2. Fetched' => idle >= 2
      BY <1>1, <3>1 DEF Fetched
    <3> QED BY <1>1, <2>1, <3>1, <3>2 DEF PipeInv
  <2>3. 0 % Words = 0 /\ 1 % Words = 1
    <3>1. 0 = Words * 0 + 0 /\ 1 = Words * 0 + 1 /\ 0 \in Int
          /\ 0 \in 0 .. Words - 1 /\ 1 \in 0 .. Words - 1 /\ Words \in Nat \ {0}
      OBVIOUS
    <3> QED BY <3>1, ModUnique
  <2>4. /\ state' = 1 /\ data_counter' = 0 /\ stable' = stable
        /\ data_counter' \div Lanes = 0 /\ data_counter' % Lanes = 0
    BY <2>1 DEF StartEffect, Lanes
  <2> QED BY <1>1, <2>1, <2>2, <2>3, <2>4 DEF PipeInv
<1>3. CASE SendData(now)
  <2>1. /\ state = 1 /\ data_counter \in Nat /\ data_counter' = data_counter + 1
        /\ stable' = stable /\ state' \in {1, 3, 6}
    BY <1>3, DataStep, Sizes DEF DataEffect
  <2>2. Fetched' => Fetched
    BY <1>3, <2>1, FetchedStep DEF Fetched
  <2> DEFINE w == data_counter \div Lanes
  <2>3. w \in Nat /\ (w + 1) % Words = Inc(w % Words, Words)
        /\ (w + 1 + 1) % Words = Inc((w + 1) % Words, Words)
    <3>1. w \in Nat /\ Words \in Nat \ {0}
      BY <2>1 DEF Lanes
    <3> HIDE DEF w
    <3>2. w + 1 \in Nat
      BY <3>1
    <3> QED BY <3>1, <3>2, ModInc
  <2>4. CASE data_counter % Lanes = 3
    <3>1. data_counter' \div Lanes = w + 1 /\ data_counter' % Lanes = 0
      BY <2>1, <2>4 DEF Lanes
    <3>2. frame_buf_out_address' = Inc(frame_buf_out_address, Words)
          /\ frame_buf_out_data_r' = frame_buf_out_data
      BY <1>3, <2>4, PipeStep DEF Lanes
    <3>3. Fetched => /\ frame_buf_out_address = (w + 1) % Words
                     /\ frame_buf_out_data[1] = (w + 1) % Words
      BY <1>1, <2>1, <2>4 DEF PipeInv
    <3> HIDE DEF w
    <3> QED BY <1>1, <2>1, <2>2, <2>3, <3>1, <3>2, <3>3 DEF PipeInv
  <2>5. CASE data_counter % Lanes # 3
    <3>1. data_counter' \div Lanes = w
      BY <2>1, <2>5 DEF Lanes
    <3>2. UNCHANGED <<frame_buf_out_address, frame_buf_out_data_r>>
      BY <1>3, <2>5, PipeStep DEF Lanes
    <3>3. Fetched => /\ frame_buf_out_address = (w + 1) % Words
                     /\ frame_buf_out_data_r[1] = w % Words
      BY <1>1, <2>1 DEF PipeInv
    <3> HIDE DEF w
    <3> QED BY <1>1, <2>1, <2>2, <3>1, <3>2, <3>3 DEF PipeInv
  <2> QED BY <2>4, <2>5
<1>4. CASE ~StartFrame /\ ~SendData(now)
  <2>1. frame_buf_out_data_r' = frame_buf_out_data_r
    BY <1>4, PipeStep
  <2>2. CASE WaitEffect
    BY <1>1, <2>1, <2>2 DEF WaitEffect, PipeInv
  <2>3. CASE SeqNumEffect \/ TimestampEffect \/ StaticEffect
    BY <1>1, <2>1, <2>3
    DEF SeqNumEffect, TimestampEffect, StaticEffect, MidFrame, PipeInv
  <2>4. CASE CrcEffect
    BY <1>1, <2>1, <2>4 DEF CrcEffect, PipeInv
  <2>5. CASE GapEffect
    BY <1>1, <2>1, <2>5 DEF GapEffect, PipeInv
  <2> QED BY <1>4, <2>2, <2>3, <2>4, <2>5, WaitStep, SeqNumStep, TimestampStep,
             CrcStep, StaticStep, GapStep DEF Tick
<1> QED BY <1>2, <1>3, <1>4

\* The octet loaded from the pipeline belongs where it will be sent.
LEMMA LoadedOctet ==
  ASSUME CoreInv, LineInv, state = 1, Fetched, data_counter \in Nat
  PROVE  BufferOctet(data_counter,
                     <<"buf", frame_buf_out_data_r, data_counter % 4>>)
<1> DEFINE r == frame_buf_out_data_r
           a == (data_counter \div Lanes) % Words
<1>1. r \in Word /\ r[1] = a /\ (stable => r[2] = mem[r[1]])
  BY DEF CoreInv, OutputTypes, LineInv, PipeInv, Data, Idle
<1>2. r = <<r[1], r[2]>>
  BY <1>1 DEF Word
<1> HIDE DEF r, a
<1>3. stable => r = <<a, mem[a]>>
  BY <1>1, <1>2
<1> QED BY <1>1, <1>3 DEF BufferOctet, Lanes, r, a

\* The sequence field numbers the frame on the line.
LEMMA NumberOnLine ==
  ASSUME CoreInv, LineInv, gmii_en
  PROVE  (sent - 1) % Mod64 = frames
<1> DEFINE m == Mod64
<1>1. m \in Nat /\ m > 1 /\ frames \in 0 .. m - 1 /\ sent = Inc(frames, m)
  BY Sizes, Mod64Facts DEF CoreInv, FieldInv, OnLine, LineInv, NumberInv, Begun,
     Idle, Data, Gap, SeqNum, Timestamp, Crc, Static
<1> HIDE DEF m
<1>2. CASE frames + 1 < m
  <2>1. sent - 1 = m * 0 + frames
    BY <1>1, <1>2 DEF Inc
  <2>2. (m * 0 + frames) % m = frames
    BY <1>1, ModUnique
  <2> QED BY <2>1, <2>2 DEF m
<1>3. CASE frames + 1 >= m
  <2>1. sent - 1 = m * (-1) + frames
    BY <1>1, <1>3 DEF Inc
  <2>2. -1 \in Int /\ m \in Nat \ {0}
    BY <1>1
  <2>3. (m * (-1) + frames) % m = frames
    BY <1>1, <2>2, ModUnique
  <2> QED BY <2>1, <2>3 DEF m
<1> QED BY <1>1, <1>2, <1>3

LEMMA TickOctet ==
  ASSUME CoreInv, LineInv, NEW now, Tick(now), Observe(now)
  PROVE  OctetInv'
<1> USE DEF Idle, Data, Gap, SeqNum, Timestamp, Crc, Static
<1>1. /\ OctetInv /\ mem' = mem /\ data_counter \in Nat
      /\ began.size \in Nat /\ began.size >= 2 /\ Len(line) \in Nat
      /\ SeqOctets \in Nat /\ TsOctets \in Nat
      /\ SeqOctets > 0 /\ TsOctets > 0
  BY TickFacts, Sizes DEF LineInv, CoreInv, CounterTypes
<1>2. CASE StartEffect \/ WaitEffect \/ GapEffect
  BY <1>2 DEF StartEffect, WaitEffect, GapEffect, OctetInv, Held
<1>3. CASE SendData(now)
  <2>1. DataEffect
    BY <1>3, DataStep
  <2>2. idle' >= 4 =>
          BufferOctet(data_counter,
                      <<"buf", frame_buf_out_data_r, data_counter % 4>>)
    BY <1>1, <1>3, <2>1, FetchedStep, LoadedOctet DEF DataEffect
  <2>3. /\ Len(line') = data_counter /\ data_counter < began.size
        /\ began' = began /\ stable' = stable
        /\ data_t0' = <<"buf", frame_buf_out_data_r, data_counter % 4>>
    BY <1>1, <2>1, TickFacts DEF DataEffect
  <2>4. Fits(Len(line), data_t0)'
    BY <1>1, <2>2, <2>3 DEF Fits, BufferOctet
  <2>5. CASE data_counter = 0
    BY <2>1, <2>4, <2>5 DEF OctetInv, DataEffect
  <2>6. CASE data_counter >= 1
    <3>1. /\ Len(line) = data_counter - 1 /\ gmii_d' = data_t0
          /\ Len(line') - 1 = Len(line) /\ Len(line) < began.size
      BY <1>1, <2>1, <2>3, <2>6 DEF DataEffect
    <3>2. idle' >= 4 => BufferOctet(Len(line), data_t0)
      <4>1. idle' = idle
        BY <1>1, <2>1, <2>6 DEF DataEffect, Observe
      <4>2. Held
        BY <1>1, <2>1, <2>6 DEF Held, DataEffect
      <4> QED BY <1>1, <3>1, <4>1, <4>2 DEF OctetInv, Fits
    <3>3. Fits(Position, gmii_d)'
      BY <1>1, <2>3, <3>1, <3>2 DEF Fits, BufferOctet, Position
    <3> QED BY <2>4, <3>3 DEF OctetInv
  <2> QED BY <1>1, <2>5, <2>6
\* The octet that was held goes on the line; the next one is held.
<1>4. ASSUME MidFrame, Held PROVE Fits(Position, gmii_d)'
  <2>1. /\ gmii_d' = data_t0 /\ Len(line') - 1 = Len(line)
        /\ UNCHANGED <<began, idle, sent, rise, stable>>
    BY <1>1, <1>4 DEF MidFrame
  <2>2. Fits(Len(line), data_t0)
    BY <1>1, <1>4 DEF OctetInv
  <2> QED BY <1>1, <2>1, <2>2 DEF Fits, BufferOctet, Position
<1>5. CASE SeqNumEffect
  <2>1. MidFrame /\ Held
    BY <1>5 DEF SeqNumEffect, Held
  <2>2. /\ Len(line') = began.size + seqnum_counter
        /\ seqnum_counter \in 0 .. SeqOctets - 1
        /\ began' = began /\ sent' = sent
        /\ data_t0' = <<"seq", frames, seqnum_counter>>
    BY <1>1, <1>5 DEF SeqNumEffect, MidFrame
  <2>3. (sent - 1) % Mod64 = frames
    BY <2>1, NumberOnLine DEF MidFrame
  <2>4. Fits(Len(line), data_t0)'
    BY <1>1, <2>2, <2>3 DEF Fits
  <2> QED BY <1>4, <2>1, <2>4 DEF OctetInv
<1>6. CASE TimestampEffect
  <2>1. MidFrame /\ Held
    BY <1>6 DEF TimestampEffect, Held
  <2>2. /\ Len(line') = began.size + SeqOctets + timestamp_counter
        /\ timestamp_counter \in 0 .. TsOctets - 1
        /\ began' = began /\ rise' = rise
        /\ data_t0' = <<"ts", timestamp, timestamp_counter>>
    BY <1>1, <1>6 DEF TimestampEffect, MidFrame
  <2>3. timestamp = rise
    BY <1>6, <2>1 DEF TimestampEffect, MidFrame, LineInv, TimeInv
  <2>4. Fits(Len(line), data_t0)'
    BY <1>1, <2>2, <2>3 DEF Fits
  <2> QED BY <1>4, <2>1, <2>4 DEF OctetInv
<1>7. CASE StaticEffect
  <2>1. MidFrame /\ Held /\ state' = 2
    BY <1>7 DEF StaticEffect, Held
  <2> QED BY <1>4, <2>1 DEF OctetInv, Held
<1>8. CASE CrcEffect
  <2>1. CASE crc_counter = 0
    <3>1. MidFrame /\ Held /\ crc_counter' = 1 /\ state' \in {2, 5}
      BY <1>8, <2>1 DEF CrcEffect, MidFrame, Held
    <3> QED BY <1>4, <3>1 DEF OctetInv, Held
  <2>2. CASE crc_counter # 0
    <3>1. /\ crc_counter' # 0 /\ state' \in {2, 5} /\ began' = began
          /\ Len(line') - 1 >= began.size + SeqOctets + TsOctets
          /\ Len(line') \in Nat
      <4>1. CrcOctets \in Nat
        BY Sizes
      <4>2. /\ crc_counter \in 0 .. CrcOctets /\ crc_counter' = crc_counter + 1
            /\ Len(line) = began.size - 1 + SeqOctets + TsOctets + crc_counter
            /\ Len(line') = Len(line) + 1
            /\ state' \in {2, 5} /\ began' = began
        BY <1>8 DEF CrcEffect
      <4> QED BY <1>1, <2>2, <4>1, <4>2
    <3>2. Fits(Position, gmii_d)'
      BY <1>1, <3>1, SMTT(30) DEF Fits, Position
    <3> QED BY <3>1, <3>2 DEF OctetInv, Held
  <2> QED BY <2>1, <2>2
<1>9. StartFrame \/ TotalReached \/ Stopped => StartEffect \/ WaitEffect
  BY StartStep, WaitStep
<1> QED BY <1>2, <1>3, <1>5, <1>6, <1>7, <1>8, <1>9, SeqNumStep, TimestampStep,
           CrcStep, StaticStep, GapStep DEF Tick

\* A cycle that folds the octet it puts on the line.
LEMMA FoldStep ==
  ASSUME CoreInv, LineInv, NEW now, Tick(now), Observe(now),
         began.size > PreambleOctets, Folding, Len(line) >= PreambleOctets,
         line' = Append(line, data_t0)
  PROVE  /\ ~crc_init /\ crc_d_valid /\ crc_calc /\ crc_index' = 0
         /\ crc_octets' = SubSeq(line', PreambleOctets + 1, Len(line'))
<1>1. /\ ~crc_init /\ crc_d_valid /\ crc_calc
      /\ crc_octets = SubSeq(line, PreambleOctets + 1, Len(line))
  BY DEF LineInv, CrcInv
<1>2. crc_octets' = Append(crc_octets, data_t0) /\ crc_index' = 0
  BY <1>1 DEF Tick, Clocked, CrcUnit
<1>3. /\ line \in Seq(Range(line)) /\ Len(line) \in Nat
      /\ PreambleOctets + 1 \in 1 .. Len(line) + 1
  BY Sizes, GeneratorAssumption DEF LineInv, ConfigInv
<1>4. SubSeq(line', PreambleOctets + 1, Len(line) + 1) = crc_octets'
  BY <1>1, <1>2, <1>3, SubSeqOfAppend
<1>5. Len(line') = Len(line) + 1
  BY <1>3, AppendFacts
<1> QED BY <1>1, <1>2, <1>4, <1>5

LEMMA TickCrc ==
  ASSUME CoreInv, LineInv, NEW now, Tick(now), Observe(now)
  PROVE  CrcInv'
<1> USE DEF Idle, Data, Gap, SeqNum, Timestamp, Crc, Static
<1> DEFINE Pre == PreambleOctets
<1>1. /\ CrcInv /\ data_counter \in Nat /\ Pre \in Nat /\ Pre > 1
      /\ began.size \in Nat /\ began.size >= 2 /\ Len(line) \in Nat
      /\ SeqOctets \in Nat /\ TsOctets \in Nat /\ CrcOctets \in Nat
      /\ SeqOctets > 0 /\ TsOctets > 0 /\ CrcOctets > 0
      /\ line \in Seq(Range(line))
  BY GeneratorAssumption, Sizes DEF LineInv, CoreInv, CounterTypes, ConfigInv
<1>2. /\ began.size \in Nat /\ SeqOctets \in Nat /\ TsOctets \in Nat
       /\ SeqOctets > 0 /\ TsOctets > 0 /\ CrcOctets \in Nat
  BY <1>1
<1>3. CASE StartEffect
  BY <1>1, <1>3 DEF StartEffect, CrcInv, Folding, CrcCoversFrame
<1>4. CASE WaitEffect
  BY <1>1, <1>4 DEF WaitEffect, CrcInv, Folding, CrcCoversFrame
<1>5. CASE GapEffect
  BY <1>1, <1>5 DEF GapEffect, CrcInv, Folding, CrcCoversFrame
<1>6. ASSUME Len(line') - 1 < began'.size + SeqOctets + TsOctets,
             Len(line') \in Nat, began' = began
      PROVE  CrcCoversFrame'
  BY <1>1, <1>6 DEF CrcCoversFrame, Position
<1>7. CASE SendData(now)
  <2>1. /\ DataEffect /\ Len(line') = data_counter /\ data_counter < began.size
        /\ began' = began /\ state = 1 /\ state' \in {1, 3, 6}
        /\ data_counter' = data_counter + 1
    BY <1>1, <1>7, DataStep, TickFacts DEF DataEffect
  <2>2. CrcCoversFrame'
    BY <1>1, <1>6, <2>1
  <2>3. CASE data_counter < Pre
    <3>1. crc_init' = crc_init /\ crc_init
      BY <1>1, <1>7, <2>1, <2>3 DEF SendData, CrcStarts, crcControls, CrcInv
    <3>2. state' # 1 => began.size <= Pre
      BY <1>1, <2>1, <2>3 DEF DataEffect
    <3>3. state' = 1 => data_counter' <= Pre
      BY <1>1, <2>1, <2>3
    <3> QED BY <1>1, <2>1, <2>2, <3>1, <3>2, <3>3 DEF CrcInv, Folding
  <2>4. CASE data_counter = Pre
    <3>1. ~crc_init' /\ crc_d_valid' /\ crc_calc' /\ crc_octets' = <<>>
      BY <1>1, <1>7, <2>1, <2>4
      DEF SendData, CrcStarts, CrcInv, Tick, Clocked, CrcUnit
    <3>2. SubSeq(line', Pre + 1, Len(line')) = <<>>
      BY <1>1, <2>1, <2>4, SubSeqEmpty
    <3>3. ~(data_counter' <= Pre)
      BY <1>1, <2>1, <2>4
    <3> QED BY <1>1, <2>1, <2>2, <3>1, <3>2, <3>3 DEF CrcInv, Folding
  <2>5. CASE data_counter > Pre
    <3>1. /\ Len(line) = data_counter - 1 /\ line' = Append(line, data_t0)
      BY <1>1, <2>1, <2>5 DEF DataEffect
    <3>2. /\ Folding /\ began.size > Pre /\ Len(line) >= Pre
          /\ ~(data_counter' <= Pre) /\ state' # 0 /\ state' # 2
          /\ ~(state' = 1 /\ data_counter' <= Pre)
          /\ ~(state' = 5 /\ crc_counter' > 0)
      <4>1. /\ began.size > Pre /\ Len(line) >= Pre /\ ~(data_counter' <= Pre)
        BY <1>1, <2>1, <2>5, <3>1
      <4> QED BY <2>1, <2>5, <4>1 DEF Folding
    <3>3. /\ ~crc_init /\ crc_d_valid /\ crc_calc
          /\ crc_octets' = SubSeq(line', Pre + 1, Len(line'))
      BY <3>1, <3>2, FoldStep
    <3>4. UNCHANGED <<crc_init, crc_d_valid, crc_calc>>
      BY <1>1, <1>7, <2>5 DEF SendData, CrcStarts, crcControls
    <3> QED BY <2>2, <3>3, <3>4, <3>2 DEF CrcInv
  <2> QED BY <1>1, <2>3, <2>4, <2>5
<1>8. ASSUME MidFrame, UNCHANGED <<crc_init, crc_d_valid, crc_calc>>, Folding,
              Len(line) >= began.size - 1,
              Len(line) < began.size + SeqOctets + TsOctets,
              state' \in {3, 4} \/ (state' = 5 /\ crc_counter' = 0)
       PROVE  CrcInv'
  <2>1. /\ line' = Append(line, data_t0) /\ began' = began
        /\ Len(line') = Len(line) + 1
    BY <1>8 DEF MidFrame
  <2>2. Len(line') \in Nat /\ Len(line') - 1 < began.size + SeqOctets + TsOctets
    BY <1>1, <1>8, <2>1
  <2>3. CrcCoversFrame'
    BY <1>6, <2>1, <2>2
  <2>4. CASE began.size > Pre
    <3>1. Len(line) >= Pre
      BY <1>1, <1>8, <2>4
    <3>2. /\ ~crc_init /\ crc_d_valid /\ crc_calc
          /\ crc_octets' = SubSeq(line', Pre + 1, Len(line'))
      BY <1>8, <2>1, <2>4, <3>1, FoldStep
    <3>3. state' # 0 /\ state' # 2 /\ state' # 1 /\ ~(state' = 5 /\ crc_counter' > 0)
      BY <1>8
    <3> QED BY <1>8, <2>3, <3>2, <3>3 DEF CrcInv
  <2>5. CASE ~(began.size > Pre)
    <3>1. state' # 0 /\ state' # 2 /\ state' # 1
      BY <1>8
    <3> QED BY <2>1, <2>3, <2>5, <3>1 DEF CrcInv
  <2> QED BY <2>4, <2>5
<1>9. CASE SeqNumEffect
  <2>1. /\ state = 3 /\ MidFrame /\ UNCHANGED <<crc_init, crc_d_valid, crc_calc>>
        /\ seqnum_counter \in 0 .. SeqOctets - 1
        /\ Len(line) = began.size - 1 + seqnum_counter
        /\ state' \in {3, 4}
    BY <1>9 DEF SeqNumEffect
  <2>2. Len(line) >= began.size - 1 /\ Len(line) < began.size + SeqOctets + TsOctets
    BY <1>2, <2>1
  <2> QED BY <1>8, <2>1, <2>2 DEF Folding
<1>10. CASE TimestampEffect
  <2>1. /\ state = 4 /\ MidFrame /\ UNCHANGED <<crc_init, crc_d_valid, crc_calc>>
        /\ timestamp_counter \in 0 .. TsOctets - 1
        /\ Len(line) = began.size - 1 + SeqOctets + timestamp_counter
        /\ state' = 4 \/ (state' = 5 /\ crc_counter' = 0)
    BY <1>10 DEF TimestampEffect
  <2>2. Len(line) >= began.size - 1 /\ Len(line) < began.size + SeqOctets + TsOctets
    BY <1>2, <2>1
  <2> QED BY <1>8, <2>1, <2>2 DEF Folding
<1>11. CASE StaticEffect
  <2>1. /\ Len(line') - 1 < began.size + SeqOctets + TsOctets
        /\ Len(line') \in Nat /\ began' = began /\ state' = 2 /\ gmii_en'
    BY <1>1, <1>11 DEF StaticEffect, MidFrame
  <2>2. CrcCoversFrame'
    BY <1>6, <2>1
  <2> QED BY <2>1, <2>2 DEF CrcInv, Folding
<1>12. CASE CrcEffect
  <2>1. /\ state = 5 /\ state' \in {2, 5} /\ gmii_en' /\ began' = began
        /\ crc_counter \in 0 .. CrcOctets /\ crc_counter' = crc_counter + 1
        /\ Len(line) = began.size - 1 + SeqOctets + TsOctets + crc_counter
        /\ Len(line') = Len(line) + 1 /\ line' = Append(line, gmii_d')
        /\ ~crc_calc' /\ UNCHANGED <<crc_init, crc_d_valid>>
    BY <1>12 DEF CrcEffect
  <2>2. /\ state = 5 /\ state' \in {2, 5} /\ gmii_en' /\ began' = began
        /\ crc_counter \in 0 .. CrcOctets /\ crc_counter' = crc_counter + 1
        /\ Len(line) = End - 1 + crc_counter /\ Len(line') = Len(line) + 1
        /\ line' = Append(line, gmii_d')
        /\ ~crc_calc' /\ UNCHANGED <<crc_init, crc_d_valid>>
        /\ End \in Nat /\ End > began.size /\ End' = End
    <3>1. End = began.size + SeqOctets + TsOctets /\ End' = End
      BY <2>1 DEF End
    <3>2. End \in Nat /\ End > began.size /\ Len(line) = End - 1 + crc_counter
      <4>1. /\ crc_counter \in 0 .. CrcOctets
            /\ Len(line) = began.size - 1 + SeqOctets + TsOctets + crc_counter
        BY <2>1
      <4>2. End = began.size + SeqOctets + TsOctets
        BY <3>1
      <4>3. crc_counter \in Nat
        BY <1>2, <4>1
      <4>4. Len(line) = End - 1 + crc_counter
        BY <1>2, <4>1, <4>2, <4>3
      <4>5. End \in Nat /\ End > began.size
        BY <1>2, <4>2
      <4> QED BY <4>4, <4>5
    <3> QED BY <2>1, <3>1, <3>2
  <2>3. CASE crc_counter = 0
    <3>1. /\ Folding /\ line' = Append(line, data_t0)
          /\ Len(line) >= began.size - 1 /\ Len(line') = End
      <4>1. gmii_d' = data_t0
        BY <1>12, <2>3 DEF CrcEffect
      <4>2. Folding
        BY <2>2, <2>3 DEF Folding
      <4>3. Len(line) >= began.size - 1 /\ Len(line') = End
        BY <1>1, <2>2, <2>3
      <4> QED BY <2>2, <4>1, <4>2, <4>3
    <3>2. began.size > Pre =>
            /\ ~crc_init /\ crc_d_valid /\ crc_index' = 0
            /\ crc_octets' = SubSeq(line', Pre + 1, End)
      <4>1. began.size > Pre => Len(line) >= Pre
        BY <1>1, <3>1
      <4> QED BY <3>1, <4>1, FoldStep
    <3>3. CrcCoversFrame'
      <4>1. Len(line') - 1 < began'.size + SeqOctets + TsOctets /\ Len(line') \in Nat
        BY <1>1, <2>2, <3>1 DEF End
      <4> QED BY <1>6, <2>2, <4>1
    <3>4. crc_counter' = 1
      BY <2>2, <2>3
    <3>5. /\ ~(state' = 0 \/ (state' = 2 /\ ~gmii_en')
                \/ (state' = 1 /\ data_counter' <= Pre))
          /\ ~Folding'
      BY <2>2, <3>4 DEF Folding
    <3>6. crc_index' = 0 => crc_index' = crc_counter' - 1
      BY <3>4
    <3> QED BY <2>2, <3>2, <3>3, <3>5, <3>6 DEF CrcInv
  <2>4. CASE crc_counter > 0
    <3>1. began.size > Pre =>
            /\ ~crc_init /\ crc_d_valid /\ ~crc_calc
            /\ crc_octets = SubSeq(line, Pre + 1, End)
            /\ crc_index = crc_counter - 1
      BY <1>1, <2>2, <2>4 DEF CrcInv
    <3>2. began.size > Pre =>
            crc_octets' = crc_octets /\ crc_index' = crc_index + 1
      BY <3>1 DEF Tick, Clocked, CrcUnit
    <3>3. began.size > Pre => SubSeq(line', Pre + 1, End) = SubSeq(line, Pre + 1, End)
      <4>1. began.size > Pre =>
              Pre + 1 \in 1 .. Len(line) + 1 /\ End \in 0 .. Len(line)
        BY <1>1, <2>2, <2>4
      <4> QED BY <1>1, <2>2, <4>1, SubSeqOfAppend
    <3>4. gmii_d' = <<"crc", crc_octets, crc_index>>
      BY <1>12, <2>4 DEF CrcEffect
    <3>5. CrcCoversFrame'
      <4>1. /\ began'.size = began.size
            /\ began'.size + SeqOctets + TsOctets = End
        BY <2>2 DEF End
      <4>2. Position' - (began'.size + SeqOctets + TsOctets) = crc_counter - 1
        <5>1. /\ Len(line') = Len(line) + 1 /\ Len(line) = End - 1 + crc_counter
              /\ End \in Nat /\ crc_counter \in Nat
          BY <1>2, <2>2
        <5>2. Position' = Len(line') - 1
          BY DEF Position
        <5>3. Len(line') - 1 - End = crc_counter - 1
          BY <5>1
        <5> QED BY <4>1, <5>2, <5>3
      <4>3. began.size > Pre =>
              gmii_d' = <<"crc", SubSeq(line', Pre + 1, End), crc_counter - 1>>
        BY <3>1, <3>3, <3>4
      <4> QED BY <4>1, <4>2, <4>3 DEF CrcCoversFrame
    <3>6. began.size > Pre => crc_index' = crc_counter' - 1
      <4>1. crc_counter \in Int
        BY <2>2
      <4> QED BY <2>2, <3>1, <3>2, <4>1
    <3>7. /\ ~(state' = 0 \/ (state' = 2 /\ ~gmii_en')
                \/ (state' = 1 /\ data_counter' <= Pre))
          /\ ~Folding'
      BY <1>1, <2>2, <2>4 DEF Folding
    <3> QED BY <2>2, <3>1, <3>2, <3>3, <3>5, <3>6, <3>7 DEF CrcInv
  <2> QED BY <2>2, <2>3, <2>4
<1>13. StartFrame \/ TotalReached \/ Stopped => StartEffect \/ WaitEffect
  BY StartStep, WaitStep
<1> QED BY <1>3, <1>4, <1>5, <1>7, <1>9, <1>11, <1>12, <1>13, <1>10,
           SeqNumStep, TimestampStep, CrcStep, StaticStep, GapStep DEF Tick

---------------------------------------------------------------------------
\* The invariant holds throughout.

LEMMA NextLineInv ==
  CoreInv /\ LineInv /\ [LineNext]_lineVars => CoreInv' /\ LineInv'
<1> SUFFICES ASSUME CoreInv, LineInv, [LineNext]_lineVars
             PROVE  CoreInv' /\ LineInv'
  OBVIOUS
<1>1. ASSUME NEW now \in Times, Tick(now), Observe(now)
      PROVE  CoreInv' /\ LineInv'
  <2>1. ConfigInv' /\ LengthInv' /\ NumberInv' /\ TotalInv' /\ TimeInv'
    BY <1>1, TickConfig, TickLength, TickNumber, TickTotal, TickTime
  <2>2. PipeInv' /\ OctetInv' /\ CrcInv' /\ GapInv'
    BY <1>1, TickPipe, TickOctet, TickCrc, TickGap
  <2> QED BY <1>1, <2>1, <2>2, TickCoreInv DEF LineInv
<1>2. ASSUME NEW go \in BOOLEAN, NEW ts \in BOOLEAN, WriteControl(go, ts),
             UNCHANGED observers
      PROVE  CoreInv' /\ LineInv'
  BY <1>2, ControlWritten, WrittenCoreInv, ControlLineInv
<1>3. ASSUME Reconfigure, stable' = FALSE,
             UNCHANGED <<line, idle, sent, began, rise>>
      PROVE  CoreInv' /\ LineInv'
  <2>1. CoreInv'
    BY <1>3, ConfigWritten, WrittenCoreInv
  <2>2. LineInv'
    BY <1>3, ConfigLineInv
  <2> QED BY <2>1, <2>2
<1>4. CASE UNCHANGED lineVars
  <2>1. UNCHANGED vars /\ UNCHANGED observers
    BY <1>4 DEF lineVars
  <2>2. Written
    BY <2>1 DEF vars, software, config, buffer, Written, CoreInv, FieldInv,
       SoftwareTypes
  <2>3. /\ UNCHANGED <<line, idle, sent, began, rise>>
        /\ UNCHANGED <<stable, mem, total_frames_reg>>
        /\ interframe_gap_reg' <= MaxIdle /\ interburst_gap_reg' <= MaxIdle
    BY <2>1 DEF vars, software, config, buffer, observers, LineInv, ConfigInv
  <2> QED BY <2>2, <2>3, WrittenCoreInv, WrittenLineInv
<1> QED BY <1>1, <1>2, <1>3, <1>4 DEF LineNext

LEMMA LineInvariant == LineSpec => [](CoreInv /\ LineInv)
<1>1. LineInit => CoreInv /\ LineInv
  BY InitCoreInv, InitLineInv DEF LineInit
<1> QED BY <1>1, NextLineInv, PTL DEF LineSpec

(***************************************************************************)
(* The octets that traffic_generator_gmii.v reads from the buffer are on   *)
(* the line in order, each from its own word and lane, for every frame size*)
(* and every buffer, also one that is shorter than the frame.              *)
(***************************************************************************)
THEOREM LineBufferOctets == LineSpec => []BufferOctets
<1>1. CoreInv /\ LineInv => BufferOctets
  BY DEF LineInv, OctetInv, Fits, BufferOctet, BufferOctets
<1> QED BY <1>1, LineInvariant, PTL

(***************************************************************************)
(* Each testframe carries the number of frames sent before it, modulo the  *)
(* width of the counter.                                                   *)
(***************************************************************************)
THEOREM LineSequenceNumbers == LineSpec => []SequenceNumbers
<1>1. CoreInv /\ LineInv => SequenceNumbers
  BY DEF LineInv, OctetInv, Fits, SequenceNumbers
<1> QED BY <1>1, LineInvariant, PTL

(***************************************************************************)
(* The timestamp in a testframe is the clock's time in the cycle that put  *)
(* the frame's first octet on the line.                                    *)
(***************************************************************************)
THEOREM LineTimestamp == LineSpec => []TimestampOfFirstOctet
<1>1. CoreInv /\ LineInv => TimestampOfFirstOctet
  BY DEF LineInv, OctetInv, Fits, TimestampOfFirstOctet
<1> QED BY <1>1, LineInvariant, PTL

(***************************************************************************)
(* The CRC at the end of a testframe covers exactly the octets sent after  *)
(* the preamble, for every length of the frame and of its fields.          *)
(***************************************************************************)
THEOREM LineCrcCoversFrame == LineSpec => []CrcCoversFrame
<1>1. CoreInv /\ LineInv => CrcCoversFrame
  BY DEF LineInv, CrcInv
<1> QED BY <1>1, LineInvariant, PTL

(***************************************************************************)
(* The gap before a frame is at least one of those configured when the     *)
(* previous frame started, whatever was written meanwhile.                 *)
(***************************************************************************)
THEOREM LineGapNeverShort == LineSpec => []GapNeverShort
<1>1. CoreInv /\ LineInv => GapNeverShort
  <2> SUFFICES ASSUME CoreInv, LineInv, Len(line) = 1
               PROVE  \E g \in began.gaps : idle >= g
    BY DEF GapNeverShort
  <2>1. gmii_en
    BY Sizes
  <2> QED BY <2>1 DEF LineInv, GapInv
<1> QED BY <1>1, LineInvariant, PTL

(***************************************************************************)
(* total_frames_reg, written while the generator stands still, bounds the  *)
(* frames that are sent.                                                   *)
(***************************************************************************)
THEOREM LineTotalRespected == LineSpec => []TotalRespected
<1>1. CoreInv /\ LineInv => TotalRespected
  BY DEF LineInv, TotalInv, TotalRespected
<1> QED BY <1>1, LineInvariant, PTL

(***************************************************************************)
(* The line goes idle only in state 2, when the frame is complete: no write*)
(* to the registers cuts a frame short or joins it to the next.            *)
(***************************************************************************)
THEOREM LineFramesAreWhole == LineSpec => FramesAreWhole
<1> DEFINE Whole == gmii_en /\ ~gmii_en' =>
             Len(line) \in {began.size, began.size + DynamicOctets}
<1>1. CoreInv /\ LineInv /\ [LineNext]_lineVars => [Whole]_lineVars
  <2> SUFFICES ASSUME CoreInv, LineInv, LineNext, gmii_en, ~gmii_en'
               PROVE  Len(line) \in {began.size, began.size + DynamicOctets}
    OBVIOUS
  <2>1. PICK now \in Times : Tick(now) /\ Observe(now)
    <3>1. ASSUME Written PROVE gmii_en' = gmii_en
      BY <3>1 DEF Written, machine
    <3> QED BY <3>1, ControlWritten, ConfigWritten DEF LineNext
  <2>2. state = Gap
    <3>1. CASE DataEffect
      BY <3>1, Sizes DEF DataEffect
    <3>2. CASE SeqNumEffect \/ TimestampEffect \/ StaticEffect \/ CrcEffect
      BY <3>2 DEF SeqNumEffect, TimestampEffect, StaticEffect, CrcEffect,
         MidFrame
    <3>3. CASE StartEffect \/ WaitEffect \/ GapEffect
      BY <3>3 DEF StartEffect, WaitEffect, GapEffect, Gap
    <3> QED BY <2>1, <3>1, <3>2, <3>3, TickEffects
  <2> QED BY <2>2 DEF LineInv, LengthInv
<1> QED BY <1>1, LineInvariant, PTL DEF FramesAreWhole, LineSpec

---------------------------------------------------------------------------
\* Pacing.

\* The burst counter counts modulo the length of the burst.
LEMMA NextInBurst ==
  ASSUME NEW f \in 1 .. Mod32 - 1, NEW n \in Nat
  PROVE  /\ Inc(n % f, Mod32) = f => (n + 1) % f = 0
         /\ Inc(n % f, Mod32) # f => /\ (n + 1) % f # 0
                                     /\ Inc(n % f, Mod32) = (n + 1) % f
<1> DEFINE b == n % f
           c == (n + 1) % f
<1>1. b \in 0 .. f - 1
  BY GeneratorAssumption
<1>2. c = Inc(b, f)
  <2>1. f \in Nat \ {0}
    BY GeneratorAssumption
  <2> QED BY <2>1, ModInc
<1> HIDE DEF b, c
<1>3. Inc(b, Mod32) = b + 1
  BY <1>1, GeneratorAssumption DEF Inc
<1>4. /\ Inc(b, Mod32) = f => c = 0
      /\ Inc(b, Mod32) # f => c # 0 /\ Inc(b, Mod32) = c
  BY <1>1, <1>2, <1>3, GeneratorAssumption DEF Inc
<1> QED BY <1>4 DEF b, c

\* A frame that is on the line has at least one octet there.
LEMMA SomethingSent ==
  ASSUME CoreInv, LineInv, gmii_en
  PROVE  Len(line) >= 1
<1> USE DEF Idle, Data, Gap, SeqNum, Timestamp, Crc, Static
<1>1. /\ LengthInv /\ CounterTypes /\ OnLine
      /\ began.size \in Nat /\ began.size >= 2
      /\ SeqOctets \in Nat /\ TsOctets \in Nat /\ CrcOctets \in Nat
  BY Sizes DEF LineInv, CoreInv, FieldInv
<1>2. CASE state = 1
  BY <1>1, <1>2 DEF LengthInv, OnLine, CounterTypes
<1>3. CASE state \in {3, 4, 5}
  <2>1. /\ seqnum_counter \in 0 .. SeqOctets
        /\ timestamp_counter \in 0 .. TsOctets
        /\ crc_counter \in 0 .. CrcOctets + 1
    BY <1>1 DEF CounterTypes
  <2>2. /\ state = 3 => Len(line) = began.size - 1 + seqnum_counter
        /\ state = 4 =>
             Len(line) = began.size - 1 + SeqOctets + timestamp_counter
        /\ state = 5 =>
             Len(line) = began.size - 1 + SeqOctets + TsOctets + crc_counter
    BY <1>1 DEF LengthInv
  <2> QED BY <1>1, <1>3, <2>1, <2>2
<1>4. CASE state = 6
  BY <1>1, <1>4 DEF LengthInv
<1>5. CASE state = 2
  BY <1>1, <1>5 DEF LengthInv, DynamicOctets
<1> QED BY <1>1, <1>2, <1>3, <1>4, <1>5 DEF OnLine

PacedInv == BurstInv /\ PaceInv /\ GapExact

\* After the first octet a frame only grows.
LEMMA PacedMidFrame ==
  ASSUME CoreInv, LineInv, PacedInv, NEW now, Tick(now), Observe(now),
         gmii_en, gmii_en',
         UNCHANGED <<stable, sent, burst_index, gap_counter_last>>,
         state # 0, state' # 0, state' = 1 => data_counter' >= 2
  PROVE  PacedInv'
<1> USE DEF Idle, Data, Gap
<1>1. /\ Len(line) >= 1 /\ Len(line) \in Nat /\ Len(line') = Len(line) + 1
      /\ UNCHANGED <<interframe_gap_reg, interburst_gap_reg,
                     frames_per_burst_reg, total_frames_reg>>
  BY SomethingSent, TickFacts
<1>2. Len(line') # 1
  BY <1>1
<1>3. Latest = sent /\ Latest' = sent
  BY DEF Latest
<1>4. \A n : GapAfter(n)' = GapAfter(n)
  BY <1>1 DEF GapAfter
<1>5. BurstInv'
  BY <1>1, <1>3, <1>4 DEF PacedInv, BurstInv, Begun, GapCycles, Sub32
<1>6. PaceInv'
  BY DEF PaceInv
<1>7. GapExact'
  BY <1>2 DEF GapExact
<1> QED BY <1>5, <1>6, <1>7 DEF PacedInv

\* What the cycles of state 0 do to the burst counter and to the gap.
LEMMA PacedStart ==
  ASSUME CoreInv, LineInv, PacedInv, NEW now, Tick(now), Observe(now),
         StartFrame
  PROVE  PacedInv'
<1> USE DEF Idle, Data, Gap
<1>1. StartEffect
  BY StartStep
<1>2. /\ state = 0 /\ run /\ MoreFrames /\ state' = 1 /\ ~gmii_en /\ ~gmii_en'
      /\ line' = <<>> /\ data_counter' = 0 /\ UNCHANGED <<sent, stable>>
      /\ idle' = IF idle < MaxIdle THEN idle + 1 ELSE idle
  BY <1>1 DEF StartEffect
<1>3. /\ UNCHANGED <<interframe_gap_reg, interburst_gap_reg,
                     frames_per_burst_reg, total_frames_reg>>
      /\ Len(line') = 0
  BY <1>2, TickFacts
<1>4. /\ sent \in Nat /\ frames_per_burst_reg \in 0 .. Mod32 - 1
      /\ idle \in Nat /\ MaxIdle \in Nat
      /\ interframe_gap_reg \in Nat /\ interburst_gap_reg \in Nat
      /\ interframe_gap_reg <= MaxIdle /\ interburst_gap_reg <= MaxIdle
  BY Sizes, Mod64Facts, LineAssumption, GeneratorAssumption
  DEF LineInv, ConfigInv, CoreInv, SoftwareTypes
<1>5. \A n : GapAfter(n)' = GapAfter(n)
  BY <1>3 DEF GapAfter
<1>6. Latest = sent /\ Latest' = sent + 1
  BY <1>2 DEF Latest
<1>7. BurstInv'
  <2>1. CASE frames_per_burst_reg = 0
    <3>1. gap_counter_last' = GapCycles(interframe_gap_reg)
      BY <2>1 DEF StartFrame, Prepare, BurstCloses
    <3>2. GapAfter(Latest)' = interframe_gap_reg
      BY <1>3, <2>1 DEF GapAfter
    <3> QED BY <1>2, <1>3, <2>1, <3>1, <3>2
            DEF BurstInv, Begun, GapCycles, Sub32
  <2>2. CASE frames_per_burst_reg # 0 /\ stable
    <3> DEFINE f == frames_per_burst_reg
    <3>1. burst_index = sent % f
      BY <1>2, <1>6, <2>2 DEF PacedInv, BurstInv
    <3>2. f \in 1 .. Mod32 - 1
      BY <1>4, <2>2
    <3>3. BurstCloses <=> Inc(sent % f, Mod32) = f
      BY <2>2, <3>1 DEF BurstCloses
    <3>4. /\ BurstCloses <=> (sent + 1) % f = 0
          /\ ~BurstCloses => Inc(burst_index, Mod32) = (sent + 1) % f
      BY <1>4, <3>1, <3>2, <3>3, NextInBurst
    <3>5. burst_index' = (sent + 1) % f
      BY <2>2, <3>4 DEF StartFrame, Prepare
    <3>6. gap_counter_last' = GapCycles(GapAfter(sent + 1))
      BY <2>2, <3>4 DEF StartFrame, Prepare, GapAfter
    <3>7. Latest' % frames_per_burst_reg' = (sent + 1) % f
      BY <1>3, <1>6
    <3>8. GapCycles(GapAfter(Latest))' = GapCycles(GapAfter(sent + 1))
      BY <1>3, <1>6 DEF GapCycles, Sub32, GapAfter
    <3> QED BY <1>2, <3>5, <3>6, <3>7, <3>8 DEF BurstInv, Begun
  <2>3. CASE ~stable
    BY <1>2, <2>3 DEF BurstInv, Begun
  <2> QED BY <2>1, <2>2, <2>3
<1>8. PaceInv'
  <2> SUFFICES ASSUME stable, sent # 0, GapAfter(sent) >= 3
               PROVE  idle' = GapAfter(sent) - 1
    BY <1>2, <1>5 DEF PaceInv, GapAfter
  <2>1. idle = GapAfter(sent) - 2
    BY <1>2 DEF PacedInv, PaceInv
  <2>2. GapAfter(sent) \in Nat /\ GapAfter(sent) <= MaxIdle
    BY <1>4 DEF GapAfter
  <2> QED BY <1>2, <1>4, <2>1, <2>2
<1>9. GapExact'
  BY <1>3 DEF GapExact
<1> QED BY <1>7, <1>8, <1>9 DEF PacedInv

LEMMA PacedWait ==
  ASSUME CoreInv, LineInv, PacedInv, NEW now, Tick(now), Observe(now),
         TotalReached \/ Stopped
  PROVE  PacedInv'
<1> USE DEF Idle, Data, Gap
<1>1. WaitEffect
  BY WaitStep
<1>2. /\ state = 0 /\ state' = 0 /\ ~gmii_en' /\ line' = <<>>
      /\ ~run => sent' = 0
  BY <1>1 DEF WaitEffect
<1>3. /\ UNCHANGED <<frames_per_burst_reg, total_frames_reg>> /\ Len(line') = 0
      /\ frames_per_burst_reg \in 0 .. Mod32 - 1
  BY <1>2, TickFacts DEF CoreInv, SoftwareTypes
<1>4. GapExact'
  BY <1>3 DEF GapExact
<1>5. CASE TotalReached
  <2>1. ~MoreFrames'
    BY <1>3, <1>5 DEF TotalReached, MoreFrames, TotalFrames
  <2> QED BY <1>2, <1>4, <2>1 DEF PacedInv, BurstInv, PaceInv, Begun
<1>6. CASE Stopped
  <2>1. sent' = 0 /\ burst_index' = 0 /\ Latest' = 0
    BY <1>2, <1>6 DEF Stopped, Runs, FramesRestart, Latest
  <2>2. frames_per_burst_reg # 0 => 0 % frames_per_burst_reg = 0
    BY <1>3, GeneratorAssumption
  <2> QED BY <1>2, <1>3, <1>4, <2>1, <2>2
          DEF PacedInv, BurstInv, PaceInv, Begun
<1> QED BY <1>5, <1>6

\* The first cycles of a frame, which end the gap.
LEMMA PacedData ==
  ASSUME CoreInv, LineInv, PacedInv, FewFrames, NEW now, Tick(now),
         Observe(now), SendData(now)
  PROVE  PacedInv'
<1> USE DEF Idle, Data, Gap
<1>1. /\ state = 1 /\ state' \in {1, 3, 6} /\ stable' = stable
      /\ data_counter \in Nat /\ data_counter' = data_counter + 1
      /\ (gmii_en <=> data_counter >= 2) /\ (gmii_en' <=> data_counter >= 1)
      /\ UNCHANGED <<burst_index, gap_counter_last>>
  <2>1. DataEffect /\ began.size \in Nat
    BY DataStep, Sizes
  <2>2. burst_index' = burst_index
    BY DEF SendData
  <2> QED BY <2>1, <2>2 DEF DataEffect
<1>2. UNCHANGED <<interframe_gap_reg, interburst_gap_reg,
                  frames_per_burst_reg, total_frames_reg>>
  BY TickFacts
<1>3. \A n : GapAfter(n)' = GapAfter(n)
  BY <1>2 DEF GapAfter
<1>4. /\ sent \in Nat /\ idle \in Nat /\ MaxIdle \in Nat
      /\ interframe_gap_reg \in Nat /\ interburst_gap_reg \in Nat
      /\ interframe_gap_reg <= MaxIdle /\ interburst_gap_reg <= MaxIdle
  BY Sizes, Mod64Facts, LineAssumption, GeneratorAssumption
  DEF LineInv, ConfigInv, CoreInv, SoftwareTypes
<1>5. CASE data_counter = 0
  <2>1. ~gmii_en /\ ~gmii_en' /\ data_counter' = 1
    BY <1>1, <1>5
  <2>2. /\ sent' = sent
        /\ idle' = IF idle < MaxIdle THEN idle + 1 ELSE idle
    BY <1>1, <2>1 DEF Observe
  <2>3. state' = 1
    BY <1>5, DataStep, Sizes DEF DataEffect
  <2>4. Len(line') = 0
    BY <2>1, TickFacts
  <2>5. Latest = sent + 1 /\ Latest' = sent + 1
    BY <1>1, <2>1, <2>2, <2>3 DEF Latest
  <2>6. BurstInv'
    BY <1>1, <1>2, <2>1, <2>3, <2>5
    DEF PacedInv, BurstInv, Begun, GapCycles, GapAfter, Sub32
  <2>7. PaceInv'
    <3> SUFFICES ASSUME stable, sent # 0, GapAfter(sent) >= 3
                 PROVE  idle' = GapAfter(sent)
      BY <1>1, <1>2, <2>1, <2>2, <2>3 DEF PaceInv, GapAfter
    <3>1. idle = GapAfter(sent) - 1
      BY <1>1, <1>5 DEF PacedInv, PaceInv
    <3>2. GapAfter(sent) \in Nat /\ GapAfter(sent) <= MaxIdle
      BY <1>4 DEF GapAfter
    <3> QED BY <1>4, <2>2, <3>1, <3>2
  <2> QED BY <2>4, <2>6, <2>7 DEF PacedInv, GapExact
<1>6. CASE data_counter = 1
  <2>1. ~gmii_en /\ gmii_en' /\ data_counter' = 2
    BY <1>1, <1>6
  <2>2. /\ sent' = Inc(sent, Mod64) /\ idle' = idle
    BY <1>1, <2>1 DEF Observe
  <2>3. sent' = sent + 1
    <3> DEFINE m == Mod64
    <3>1. sent < m - 1 /\ sent' = Inc(sent, m) /\ m \in Nat
      BY <2>2, Mod64Facts DEF FewFrames
    <3> HIDE DEF m
    <3> QED BY <1>4, <3>1 DEF Inc
  <2>4. Latest = sent + 1 /\ Latest' = sent + 1
    BY <1>1, <2>1, <2>3 DEF Latest
  <2>5. BurstInv'
    BY <1>1, <1>2, <1>4, <2>3, <2>4
    DEF PacedInv, BurstInv, Begun, GapCycles, GapAfter, Sub32
  <2>6. PaceInv'
    BY <1>1, <2>1 DEF PaceInv
  <2>7. GapExact'
    <3> SUFFICES ASSUME stable, sent' # 1, GapAfter(sent) >= 3
                 PROVE  idle = GapAfter(sent)
      <4>1. sent' - 1 = sent
        BY <1>4, <2>3
      <4> QED BY <1>1, <1>2, <2>2, <4>1 DEF GapExact, GapAfter
    <3>1. sent # 0
      BY <2>3
    <3> QED BY <1>1, <1>6, <3>1 DEF PacedInv, PaceInv
  <2> QED BY <2>5, <2>6, <2>7 DEF PacedInv
<1>7. CASE data_counter >= 2
  <2>1. gmii_en /\ gmii_en' /\ data_counter' >= 2
    BY <1>1, <1>7
  <2>2. sent' = sent
    BY <1>1, <2>1 DEF Observe
  <2> QED BY <1>1, <2>1, <2>2, PacedMidFrame
<1> QED BY <1>1, <1>5, <1>6, <1>7

\* The gap itself.
LEMMA PacedGap ==
  ASSUME CoreInv, LineInv, PacedInv, NEW now, Tick(now), Observe(now), WaitGap
  PROVE  PacedInv'
<1> USE DEF Idle, Data, Gap
<1>1. GapEffect
  BY GapStep
<1>2. /\ state = 2 /\ state' \in {0, 2} /\ ~gmii_en' /\ line' = <<>>
      /\ (gmii_en <=> gap_counter = 0)
      /\ idle' = IF gmii_en THEN 1 ELSE IF idle < MaxIdle THEN idle + 1 ELSE idle
      /\ UNCHANGED <<sent, stable, gap_counter_last>>
      /\ burst_index' = burst_index
      /\ gap_counter \in Nat /\ gap_counter_last \in Nat
      /\ state' = 2 => /\ gap_counter < gap_counter_last
                       /\ gap_counter' = gap_counter + 1
      /\ state' = 0 => gap_counter = gap_counter_last
  BY <1>1 DEF GapEffect, WaitGap
<1>3. /\ UNCHANGED <<interframe_gap_reg, interburst_gap_reg,
                     frames_per_burst_reg, total_frames_reg>>
      /\ Len(line') = 0
  BY <1>2, TickFacts
<1>4. /\ idle \in Nat /\ MaxIdle \in Nat
      /\ interframe_gap_reg \in Nat /\ interburst_gap_reg \in Nat
      /\ interframe_gap_reg <= MaxIdle /\ interburst_gap_reg <= MaxIdle
  BY Sizes, LineAssumption, GeneratorAssumption
  DEF LineInv, ConfigInv, CoreInv, SoftwareTypes
<1>5. Latest = sent /\ Latest' = sent
  BY <1>2 DEF Latest
<1>6. sent > 0
  BY <1>2 DEF PacedInv, BurstInv, Begun
<1>7. BurstInv'
  BY <1>2, <1>3, <1>5, <1>6
  DEF PacedInv, BurstInv, Begun, GapCycles, GapAfter, Sub32
<1>8. PaceInv'
  <2> SUFFICES ASSUME stable, sent # 0, GapAfter(sent) >= 3
               PROVE  /\ state' = 2 => idle' = gap_counter'
                      /\ state' = 0 => idle' = GapAfter(sent) - 2
    BY <1>2, <1>3 DEF PaceInv, GapAfter
  <2>1. ~gmii_en => idle = gap_counter
    BY <1>2 DEF PacedInv, PaceInv
  <2>2. GapAfter(sent) \in Nat /\ GapAfter(sent) <= MaxIdle
    BY <1>4 DEF GapAfter
  <2>3. gap_counter_last = GapAfter(sent) - 3
    BY <1>2, <1>5, <2>2 DEF PacedInv, BurstInv, GapCycles, Sub32
  <2>4. gap_counter <= gap_counter_last
    BY <1>2
  <2>5. idle' = gap_counter + 1
    BY <1>2, <1>4, <2>1, <2>2, <2>3, <2>4
  <2> QED BY <1>2, <2>2, <2>3, <2>5
<1>9. GapExact'
  BY <1>3 DEF GapExact
<1> QED BY <1>7, <1>8, <1>9 DEF PacedInv

LEMMA PacedTick ==
  ASSUME CoreInv, LineInv, PacedInv, FewFrames, NEW now, Tick(now),
         Observe(now)
  PROVE  PacedInv'
<1>1. CASE SendSeqNum
  <2>1. SeqNumEffect /\ burst_index' = burst_index
    BY <1>1, SeqNumStep DEF SendSeqNum, unlessField
  <2>2. /\ gmii_en /\ gmii_en' /\ state # 0 /\ state' # 0 /\ state' # 1
        /\ UNCHANGED <<stable, sent, burst_index, gap_counter_last>>
    BY <2>1 DEF SeqNumEffect, MidFrame
  <2> QED BY <2>2, PacedMidFrame
<1>2. CASE SendTimestamp
  <2>1. TimestampEffect /\ burst_index' = burst_index
    BY <1>2, TimestampStep DEF SendTimestamp, unlessField
  <2>2. /\ gmii_en /\ gmii_en' /\ state # 0 /\ state' # 0 /\ state' # 1
        /\ UNCHANGED <<stable, sent, burst_index, gap_counter_last>>
    BY <2>1 DEF TimestampEffect, MidFrame
  <2> QED BY <2>2, PacedMidFrame
<1>3. CASE SendCrc
  <2>1. CrcEffect /\ burst_index' = burst_index
    BY <1>3, CrcStep DEF SendCrc, unlessField
  <2>2. /\ gmii_en /\ gmii_en' /\ state # 0 /\ state' # 0 /\ state' # 1
        /\ UNCHANGED <<stable, sent, burst_index, gap_counter_last>>
    BY <2>1 DEF CrcEffect
  <2> QED BY <2>2, PacedMidFrame
<1>4. CASE SendLastStatic
  <2>1. StaticEffect /\ burst_index' = burst_index
    BY <1>4, StaticStep DEF SendLastStatic, unlessField
  <2>2. /\ gmii_en /\ gmii_en' /\ state # 0 /\ state' # 0 /\ state' # 1
        /\ UNCHANGED <<stable, sent, burst_index, gap_counter_last>>
    BY <2>1 DEF StaticEffect, MidFrame
  <2> QED BY <2>2, PacedMidFrame
<1> QED BY <1>1, <1>2, <1>3, <1>4, PacedStart, PacedWait, PacedData, PacedGap
        DEF Tick

\* A write takes the configuration out of the claim, or leaves it alone.
LEMMA PacedWritten ==
  ASSUME PacedInv, UNCHANGED <<sampled, machine>>,
         UNCHANGED <<line, idle, sent>>,
         UNCHANGED <<stable, config>> \/ stable' = FALSE
  PROVE  PacedInv'
<1>1. UNCHANGED <<state, run, data_counter, gap_counter, gap_counter_last,
                  frames, burst_index, gmii_en>>
  BY DEF sampled, machine
<1>2. CASE stable' = FALSE
  BY <1>1, <1>2 DEF PacedInv, BurstInv, PaceInv, GapExact, Begun
<1>3. CASE UNCHANGED <<stable, config>>
  <2>1. BurstInv'
    BY <1>1, <1>3 DEF PacedInv, BurstInv, Begun, Latest, GapAfter, GapCycles,
       Sub32, MoreFrames, TotalFrames, config
  <2>2. PaceInv'
    BY <1>1, <1>3 DEF PacedInv, PaceInv, GapAfter, MoreFrames, TotalFrames,
       config
  <2>3. GapExact'
    BY <1>3 DEF PacedInv, GapExact, config
  <2> QED BY <2>1, <2>2, <2>3 DEF PacedInv
<1> QED BY <1>2, <1>3

(***************************************************************************)
(* traffic_generator_gmii.v keeps the configured gaps to the cycle, the    *)
(* interburst gap after every full burst, for every gap of 3 or more and   *)
(* every burst length, until the 64-bit frame counter has wrapped: from    *)
(* then on the numbers of the frames no longer say how full the burst is,  *)
(* unless the burst length divides 2^64.                                   *)
(***************************************************************************)
THEOREM LineGapExact == LineSpec /\ []FewFrames => []GapExact
<1>1. LineInit => PacedInv
  <2> SUFFICES ASSUME LineInit PROVE PacedInv
    OBVIOUS
  <2>1. state = 0 /\ ~run /\ ~gmii_en /\ sent = 0 /\ Len(line) = 0
    BY EmptySeq DEF LineInit, Init, Idle
  <2> QED BY <2>1 DEF PacedInv, BurstInv, PaceInv, GapExact, Begun, Idle, Gap,
             Data
<1>2. /\ CoreInv /\ LineInv /\ PacedInv /\ FewFrames
      /\ [LineNext]_lineVars
      => PacedInv'
  <2> SUFFICES ASSUME CoreInv, LineInv, PacedInv, FewFrames,
                      [LineNext]_lineVars
               PROVE  PacedInv'
    OBVIOUS
  <2>1. ASSUME NEW now \in Times, Tick(now), Observe(now) PROVE PacedInv'
    BY <2>1, PacedTick
  <2>2. ASSUME NEW go \in BOOLEAN, NEW ts \in BOOLEAN, WriteControl(go, ts),
               UNCHANGED observers
        PROVE  PacedInv'
    BY <2>2, PacedWritten DEF WriteControl, observers
  <2>3. ASSUME Reconfigure, stable' = FALSE,
               UNCHANGED <<line, idle, sent, began, rise>>
        PROVE  PacedInv'
    BY <2>3, ConfigWritten, PacedWritten DEF Written
  <2>4. CASE UNCHANGED lineVars
    BY <2>4, PacedWritten DEF lineVars, vars, software, observers
  <2> QED BY <2>1, <2>2, <2>3, <2>4 DEF LineNext
<1>3. PacedInv => GapExact
  BY DEF PacedInv
<1> QED BY <1>1, <1>2, <1>3, LineInvariant, PTL DEF LineSpec
=============================================================================
