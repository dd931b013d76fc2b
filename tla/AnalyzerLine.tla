---------------------------- MODULE AnalyzerLine ----------------------------
(***************************************************************************)
(* TrafficAnalyzer with a GMII line as its environment: frames from Frames *)
(* arrive octet by octet, at least one idle cycle apart, while software    *)
(* starts, stops, freezes and unfreezes the analyzer at any time.          *)
(* Observers record what arrived, and the properties compare the registers *)
(* that software reads with statistics defined directly from that record.  *)
(***************************************************************************)
EXTENDS TrafficAnalyzer, FiniteSetsExt

CONSTANTS
  MaxFrames, \* frames in a behaviour
  MaxWrites  \* writes of the control register in a behaviour

VARIABLES
  wire,    \* the previous input cycle
  number,  \* frames begun
  rise,    \* the time at the first octet of the frame on the wire
  heard,   \* the previous cycle was an octet while the analyzer ran
  seen,    \* the frames that ended since the analyzer was started
  quiet,   \* idle cycles on the wire, up to 3
  holding, \* frozen, and since then the line was idle for three cycles
  partial, \* the analyzer was started in the middle of one of them
  writes

observers == <<wire, number, rise, heard, seen, quiet, holding, partial>>
lineVars == <<vars, observers, writes>>

LineInit ==
  /\ Init
  /\ wire = Quiet /\ number = 0 /\ rise = Zero
  /\ heard = FALSE /\ seen = <<>> /\ quiet = 0 /\ holding = FALSE
  /\ partial = FALSE /\ writes = 0

Beat(f, n, p) == [en |-> TRUE, frame |-> f, number |-> n, pos |-> p]

\* The input that may follow the previous one.
Inputs ==
  CASE wire.en /\ wire.pos < Last(wire.frame) ->
         {Beat(wire.frame, wire.number, wire.pos + 1)}
    [] ~wire.en /\ number < MaxFrames ->
         {Quiet} \cup {Beat(f, number + 1, 0) : f \in Frames}
    [] OTHER -> {Quiet}

Observe(in, now) ==
  LET begins == in.en /\ ~wire.en
      ends == ~in.en /\ wire.en
  IN /\ wire' = in
     /\ number' = IF begins THEN in.number ELSE number
     /\ rise' = IF begins THEN now ELSE rise
     /\ seen' = CASE ~run -> <<>>
                  [] run /\ ends /\ heard ->
                       Append(seen, [frame |-> wire.frame, at |-> rise,
                                     number |-> wire.number])
                  [] OTHER -> seen
     /\ heard' = (run /\ in.en)
     /\ quiet' = CASE in.en -> 0
                   [] ~in.en /\ quiet < 3 -> quiet + 1
                   [] OTHER -> quiet
     /\ holding' = (run /\ freeze_stats /\ (holding \/ quiet' = 3))
     /\ partial' = (run /\ (partial \/ (in.en /\ wire.en /\ ~heard)))
     /\ UNCHANGED writes

LineTick == \E in \in Inputs, now \in Times : Tick(in, now) /\ Observe(in, now)

LineNext ==
  \/ LineTick
  \/ /\ writes < MaxWrites /\ writes' = writes + 1
     /\ \E go, freeze \in BOOLEAN : WriteControl(go, freeze)
     /\ UNCHANGED observers

LineSpec == LineInit /\ [][LineNext]_lineVars

---------------------------------------------------------------------------
\* Statistics of a sequence s of frames, from their definition.

PreambleGood(f) ==
  \E k \in EarliestSfd .. LatestSfd :
    f.preamble = [i \in 1 .. k + 1 |-> IF i <= k THEN "55" ELSE "d5"]

BadPreamble(s) == {i \in DOMAIN s : ~PreambleGood(s[i].frame)}
BadCrc(s) == {i \in DOMAIN s : PreambleGood(s[i].frame) /\ ~s[i].frame.good}
Good(s) == DOMAIN s \ (BadPreamble(s) \cup BadCrc(s))
Test(s) == {i \in Good(s) : s[i].frame.test}

\* A testframe is out of sequence if its number does not follow the last one.
OutOfSequence(s) ==
  {i \in Test(s) :
     LET before == {j \in Test(s) : j < i}
     IN  s[i].frame.seq # IF before = {} THEN 0
                          ELSE s[Max(before)].frame.seq + 1}

\* The octets of the frames in S: all of them, and those after the preamble.
Octets(s, S) == UNION {{i} \X (0 .. Last(s[i].frame)) : i \in S}
L2Octets(s, S) == UNION {{i} \X (1 .. s[i].frame.octets) : i \in S}

Tally(s) ==
  [pkts |-> Cardinality(Good(s)),
   octets |-> Cardinality(L2Octets(s, Good(s))),
   bad_crc_pkts |-> Cardinality(BadCrc(s)),
   bad_crc_octets |-> Cardinality(L2Octets(s, BadCrc(s))),
   bad_preamble_pkts |-> Cardinality(BadPreamble(s)),
   bad_preamble_octets |-> Cardinality(Octets(s, BadPreamble(s))),
   testframe_pkts |-> Cardinality(Test(s)),
   sequence_errors |-> Cardinality(OutOfSequence(s))]

Nsec(t) == t.sec * NsecModulo + t.nsec
Delays(s) == {Nsec(s[i].at) - Nsec(s[i].frame.sent) : i \in Test(s)}

Prefixes == {SubSeq(seen, 1, n) : n \in 0 .. Len(seen)}

---------------------------------------------------------------------------
(***************************************************************************)
(* Every frame that ended since the analyzer was started is counted once,  *)
(* under the right heading and with its own size, for any gap and any      *)
(* sequence of good, bad and malformed frames.                             *)
(***************************************************************************)
CountsExact ==
  ~partial /\ ~frame_complete => counts = Tally(seen)

(***************************************************************************)
(* What software reads is never a mixture: the counters, the size and the  *)
(* time are those after some frame, however freezing and unfreezing fell.  *)
(***************************************************************************)
PublishedTogether ==
  ~partial => \E s \in Prefixes :
    /\ stats_reg.counts = Tally(s)
    /\ s # <<>> => /\ stats_reg.at = s[Len(s)].at
                   /\ stats_reg.size = Last(s[Len(s)].frame) + 1

(***************************************************************************)
(* The running minimum and maximum cover the latency of every testframe    *)
(* received, although each is compared a cycle after the frame was counted *)
(* and the borrow between seconds is taken by hand.                        *)
(***************************************************************************)
Extremes(s, min, max) ==
  IF Delays(s) = {} THEN min = FarOff /\ max = Zero
  ELSE Nsec(min) = Min(Delays(s)) /\ Nsec(max) = Max(Delays(s))
LatencyExact ==
  ~partial /\ ~frame_complete /\ ~update_latency =>
    Extremes(seen, latency_min, latency_max)

(***************************************************************************)
(* The published latencies belong together: minimum, maximum and last are  *)
(* those after some testframe.                                             *)
(***************************************************************************)
LatencyTogether ==
  ~partial => \E s \in Prefixes :
    /\ Extremes(s, latency_reg.min, latency_reg.max)
    /\ Test(s) # {} =>
         LET e == s[Max(Test(s))]
         IN  Nsec(latency_reg.last) = Nsec(e.at) - Nsec(e.frame.sent)

(***************************************************************************)
(* "a frame is atomically completed even if freeze_stats gets set          *)
(* underway": once the frame underway has ended, the frozen buffer holds   *)
(* every octet of the frame whose size and time were published, and of no  *)
(* other frame.                                                            *)
(***************************************************************************)
CaptureWhole ==
  holding /\ ~partial /\ stats_reg.size > 0 =>
    \E i \in DOMAIN seen :
      /\ stats_reg.at = seen[i].at
      /\ stats_reg.size = Last(seen[i].frame) + 1
      /\ \A k \in 0 .. stats_reg.size - 1 :
           mem[(k \div Lanes) % Words][k % Lanes] = <<seen[i].number, k>>

(***************************************************************************)
(* Frozen, and the frame underway completed: registers and buffer hold     *)
(* still until software unfreezes or stops the analyzer, whatever arrives. *)
(***************************************************************************)
published == <<stats_reg, latency_reg, mem>>
FrozenHolds ==
  [][holding /\ run /\ freeze_stats => UNCHANGED published]_lineVars

(***************************************************************************)
(* Each cycle since the start is counted as idle or belongs to a frame.    *)
(***************************************************************************)
CyclesAccounted ==
  LET busy == Cardinality(Octets(seen, DOMAIN seen))
              + IF heard THEN wire.pos + 1 ELSE 0
  IN  ~partial => (octets_idle + busy) % CycleWrap = octets_total
=============================================================================
