--------------------------- MODULE GeneratorLine ---------------------------
(***************************************************************************)
(* TrafficGenerator as seen from its GMII output: observers that record the*)
(* frame on the line, the idle cycles before it and the frames since the   *)
(* generator last stood still, and the properties of what is sent.         *)
(***************************************************************************)
EXTENDS TrafficGenerator

CONSTANTS
  MaxIdle,  \* idle cycles are counted up to here
  MaxWrites \* register writes in a behaviour

\* Idle cycles are counted as far as the gaps go.
ASSUME LineAssumption ==
  /\ MaxIdle \in Nat /\ MaxWrites \in Nat
  /\ \A g \in InterframeGaps \cup InterburstGaps : g <= MaxIdle

VARIABLES
  line,   \* the octets of the frame on the line so far
  idle,   \* idle cycles before that frame, or so far
  sent,   \* frames begun since the generator last stood still
  began,  \* size and gaps when the frame started, and the gaps before that
  rise,   \* the time at its first octet
  stable, \* no configuration write since the generator last stood still
  writes

observers == <<line, idle, sent, began, rise, stable>>
lineVars == <<vars, observers, writes>>

Snapshot(before) ==
  [size |-> frame_size_reg, ifg |-> interframe_gap_reg,
   ibg |-> interburst_gap_reg, gaps |-> before]

LineInit ==
  /\ Init
  /\ line = <<>> /\ idle = MaxIdle /\ sent = 0
  /\ began = Snapshot({0})
  /\ rise = NoOctet
  /\ stable = TRUE
  /\ writes = 0

Observe(now) ==
  LET rising == gmii_en' /\ ~gmii_en
  IN /\ line' = CASE rising -> <<gmii_d'>>
                  [] gmii_en' /\ ~rising -> Append(line, gmii_d')
                  [] OTHER -> <<>>
     /\ idle' = CASE gmii_en' -> idle
                  [] gmii_en /\ ~gmii_en' -> 1
                  [] OTHER -> IF idle < MaxIdle THEN idle + 1 ELSE idle
     /\ sent' = CASE state = Idle /\ ~run -> 0
                  [] rising -> Inc(sent, Mod64)
                  [] OTHER -> sent
     /\ began' = IF state = Idle /\ state' = Data
                   THEN Snapshot({began.ifg, began.ibg}) ELSE began
     /\ rise' = IF rising THEN now ELSE rise
     /\ stable' = (stable \/ (state = Idle /\ ~run))
     /\ UNCHANGED writes

LineNext ==
  \/ \E now \in Times : Tick(now) /\ Observe(now)
  \/ /\ writes < MaxWrites /\ writes' = writes + 1
     /\ \/ /\ \E go, ts \in BOOLEAN : WriteControl(go, ts)
           /\ UNCHANGED observers
        \/ /\ Reconfigure
           /\ stable' = FALSE
           /\ UNCHANGED <<line, idle, sent, began, rise>>

LineSpec == LineInit /\ [][LineNext]_lineVars

\* The clock never stops.
FairLineSpec ==
  LineSpec /\ WF_lineVars(\E now \in Times : Tick(now) /\ Observe(now))

---------------------------------------------------------------------------
\* Where the octet that is on the line belongs.
Position == Len(line) - 1
DynamicOctets == SeqOctets + TsOctets + CrcOctets

(***************************************************************************)
(* The octets from the buffer come in order, each from its own word and    *)
(* lane, however the registers and the buffer are written meanwhile; and   *)
(* they are what software last stored, if it stored it before starting.    *)
(* The two-stage read pipeline needs four idle cycles to fetch word 0.     *)
(***************************************************************************)
BufferOctets ==
  gmii_en /\ Position < began.size /\ idle >= 4 =>
    LET a == (Position \div Lanes) % Words
    IN  /\ gmii_d[1] = "buf"
        /\ gmii_d[2][1] = a /\ gmii_d[3] = Position % Lanes
        /\ stable => gmii_d[2] = <<a, mem[a]>>

(***************************************************************************)
(* The frames sent since the generator last stood still are numbered 0, 1, *)
(* 2, ... in their sequence field, across every reconfiguration.           *)
(***************************************************************************)
SequenceNumbers ==
  LET i == Position - began.size
  IN  gmii_en /\ i \in 0 .. SeqOctets - 1 =>
        gmii_d = <<"seq", (sent - 1) % Mod64, i>>

\* The timestamp field holds the time at which the first octet was sent.
TimestampOfFirstOctet ==
  LET i == Position - began.size - SeqOctets
  IN  gmii_en /\ i \in 0 .. TsOctets - 1 => gmii_d = <<"ts", rise, i>>

(***************************************************************************)
(* A testframe ends with the CRC of exactly the octets sent after the      *)
(* preamble, although the CRC unit is fed one cycle ahead of the line.     *)
(***************************************************************************)
CrcCoversFrame ==
  LET end == began.size + SeqOctets + TsOctets
      i == Position - end
  IN  gmii_en /\ i >= 0 /\ began.size > PreambleOctets =>
        gmii_d = <<"crc", SubSeq(line, PreambleOctets + 1, end), i>>

(***************************************************************************)
(* A frame is never cut short nor run into the next one: when the line goes*)
(* idle the whole frame has been sent, whatever software wrote meanwhile.  *)
(***************************************************************************)
FramesAreWhole ==
  [][gmii_en /\ ~gmii_en' =>
       Len(line) \in {began.size, began.size + DynamicOctets}]_lineVars

(***************************************************************************)
(* Between frames the line is idle for exactly the configured gap, the     *)
(* interburst gap after each full burst, if the configuration was written  *)
(* while the generator stood still.  (Gaps below 3 wrap around.)           *)
(***************************************************************************)
GapExact ==
  Len(line) = 1 /\ sent # 1 /\ stable =>
    LET full == frames_per_burst_reg # 0
                /\ (sent - 1) % frames_per_burst_reg = 0
        gap == IF full THEN interburst_gap_reg ELSE interframe_gap_reg
    IN  gap >= 3 => idle = gap

(***************************************************************************)
(* Reconfiguring a running generator never makes a gap shorter than the    *)
(* gaps that were configured when the previous frame started.              *)
(***************************************************************************)
GapNeverShort ==
  Len(line) = 1 => \E g \in began.gaps : idle >= g

(***************************************************************************)
(* No more frames than total_frames_reg are sent, if it was written while  *)
(* the generator stood still.                                              *)
(***************************************************************************)
TotalRespected == stable /\ TotalFrames # 0 => sent <= TotalFrames

---------------------------------------------------------------------------
(***************************************************************************)
(* Once software leaves the generator stopped, the line goes quiet.        *)
(***************************************************************************)
StopsQuiet == <>[](~control_reg.run) => <>[](~gmii_en)

(***************************************************************************)
(* A generator that was configured while it stood still and is left running*)
(* sends exactly its total and then keeps the line idle, or sends for ever *)
(* if there is no total.                                                   *)
(***************************************************************************)
Running(n) == control_reg.run /\ stable /\ TotalFrames = n
SendsAll ==
  /\ <>[]Running(0) => []<>gmii_en
  /\ \A n \in 1 .. Mod64 - 1 :
       <>[]Running(n) => <>[](sent = n /\ ~gmii_en)
=============================================================================
