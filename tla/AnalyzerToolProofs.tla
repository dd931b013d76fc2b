------------------------- MODULE AnalyzerToolProofs -------------------------
(***************************************************************************)
(* Proofs about the tool traffic-analyzer-gmii reading the analyzer core,  *)
(* for every set of frames, every register width and every size of the     *)
(* capture buffer.  What the core does on its line is proved in            *)
(* AnalyzerProofs for any software; here the tool is that software.        *)
(***************************************************************************)
EXTENDS AnalyzerTool, AnalyzerProofs

---------------------------------------------------------------------------
(***************************************************************************)
(* The statistics that software may read are kept by the core in two       *)
(* pieces, stats_reg and latency_reg, that are written a cycle apart.      *)
(***************************************************************************)

\* The last sequence error of the frames in s, if there is one.
ErrorOf(e, s) ==
  OutOfSequence(s) # {} =>
    LET newest == s[Max(OutOfSequence(s))]
    IN  e.received = newest.frame.seq /\ e.at = newest.at
ErrorInv ==
  ~partial => ErrorOf(last_sequence_error,
                      IF frame_complete THEN Earlier ELSE seen)

\* The first k frames seen are those of the statistics, the first n those of
\* the latencies, which catch up a cycle later.
Picture(k, n) ==
  /\ StatisticsOf(stats_reg, SubSeq(seen, 1, k))
  /\ ErrorOf(stats_reg.error, SubSeq(seen, 1, k))
  /\ LatenciesOf(latency_reg, SubSeq(seen, 1, n))
PictureInv ==
  ~partial => \E k \in 0 .. Len(seen), n \in 0 .. Len(seen) :
    n <= k /\ Picture(k, n) /\ (update_latency_regs => k = Len(seen))

---------------------------------------------------------------------------
(***************************************************************************)
(* The tool in the middle of its reads.  A report is steady if the core    *)
(* held still when the first register was read; then it still does, and    *)
(* what was read is what the registers and the buffer hold.                *)
(***************************************************************************)
Frozen ==
  /\ control_reg = [run |-> TRUE, freeze |-> TRUE]
  /\ run /\ freeze_stats /\ holding
ReadSoFar(n) == [i \in 1 .. n |-> Register(ReadOrder[i])]
WordsSoFar(m) == [j \in 1 .. m |-> mem[(j - 1) % Words]]
SizeRead == 15

ReadingInv ==
  pc = "read" =>
    /\ control_reg = [run |-> TRUE, freeze |-> TRUE] /\ words = <<>>
    /\ steady /\ report # NoReport =>
         /\ Frozen
         /\ \E n \in 1 .. Len(ReadOrder) - 1 :
              /\ report = ReadSoFar(n)
              /\ n >= SizeRead => frame_buf_address = 0
CapturingInv ==
  pc = "capture" /\ steady =>
    /\ Frozen /\ report = ReadSoFar(Len(ReadOrder))
    /\ \E m \in Nat : words = WordsSoFar(m) /\ frame_buf_address = m % Words
ToolInv == ReadingInv /\ CapturingInv

---------------------------------------------------------------------------
\* The sequence error.

LEMMA ErrorAppend ==
  ASSUME NEW s \in Seq(Arrival), NEW e \in Arrival, NEW x, NEW y, ErrorOf(x, s),
         LET n == Len(s) + 1
             wrong == n \in Test(Append(s, e)) /\ e.frame.seq # Follows(s)
         IN  /\ wrong => y.received = e.frame.seq /\ y.at = e.at
             /\ ~wrong => y = x
  PROVE  ErrorOf(y, Append(s, e))
<1> DEFINE a == Append(s, e)
           n == Len(s) + 1
           wrong == n \in Test(a) /\ e.frame.seq # Follows(s)
           S == OutOfSequence(s)
           T == OutOfSequence(a)
<1>1. T = S \cup Only(wrong, n)
  BY OutOfSequenceAppend
<1>2. /\ S \subseteq 1 .. Len(s) /\ Len(s) \in Nat /\ n \in Nat
      /\ \A i \in 1 .. Len(s) : a[i] = s[i]
      /\ a[n] = e
  BY ClassDomains, AppendArrival
<1>3. /\ wrong => y.received = e.frame.seq /\ y.at = e.at
      /\ ~wrong => y = x
      /\ S # {} => x.received = s[Max(S)].frame.seq /\ x.at = s[Max(S)].at
  BY DEF ErrorOf
<1> HIDE DEF a, n, wrong, S, T
<1>4. CASE wrong
  <2>1. n \in T /\ T \subseteq Int /\ \A i \in T : i <= n
    <3>1. \A i \in 1 .. Len(s) : i \in Int /\ i <= n
      BY <1>2 DEF n
    <3>2. T = S \cup {n} /\ n <= n
      BY <1>1, <1>2, <1>4 DEF Only
    <3> QED BY <1>2, <3>1, <3>2
  <2>2. Max(T) = n
    BY <2>1, MaxIs
  <2> QED BY <1>2, <1>3, <1>4, <2>2 DEF ErrorOf, T, a
<1>5. CASE ~wrong
  <2>1. T = S
    BY <1>1, <1>5 DEF Only
  <2>2. S # {} => a[Max(S)] = s[Max(S)]
    BY <1>2, MaxOfPositions
  <2> QED BY <1>3, <1>5, <2>1, <2>2 DEF ErrorOf, T, a
<1> QED BY <1>4, <1>5

LEMMA AccountError ==
  ASSUME TypeInv, SettleInv, TrackInv, CountingInv, ErrorInv, frame_complete,
         ~partial, Account
  PROVE  ErrorOf(last_sequence_error', seen)
<1> DEFINE s == Earlier
           e == Newest
           x == last_sequence_error
<1>1. /\ Measures <=> Len(seen) \in Test(seen)
      /\ s \in Seq(Arrival) /\ e \in Arrival /\ Verdict(e.frame)
      /\ seen = Append(s, e) /\ Len(seen) = Len(s) + 1
  BY MeasuresTestframes DEF CountingInv
<1>2. ErrorOf(x, s) /\ expected_sequence_num = Follows(s) /\ timestamp = e.at
  BY DEF ErrorInv, CountingInv, CountInv, Counted, TrackInv
<1>3. GoodTestframe <=> Measures
  BY <1>1 DEF GoodTestframe, Measures, Verdict, SettleInv
<1>4. GoodTestframe => parsed.seq = e.frame.seq
  BY <1>1 DEF GoodTestframe, Verdict
<1>5. x' = IF GoodTestframe /\ SequenceError
             THEN [expected |-> expected_sequence_num,
                   received |-> parsed.seq, at |-> timestamp]
             ELSE x
  BY DEF Account
<1> HIDE DEF s, e, x
<1>6. GoodTestframe /\ SequenceError
        <=> Len(s) + 1 \in Test(Append(s, e)) /\ e.frame.seq # Follows(s)
  BY <1>1, <1>2, <1>3, <1>4 DEF SequenceError
<1>7. GoodTestframe /\ SequenceError
        => x'.received = e.frame.seq /\ x'.at = e.at
  BY <1>2, <1>4, <1>5
<1>8. ~(GoodTestframe /\ SequenceError) => x' = x
  BY <1>5
<1>9. ErrorOf(x', Append(s, e))
  BY <1>1, <1>2, <1>6, <1>7, <1>8, ErrorAppend
<1> QED BY <1>1, <1>9 DEF x

LEMMA TickError ==
  ASSUME TypeInv, SettleInv, TrackInv, CountingInv, ErrorInv,
         NEW in \in Inputs, NEW now \in Times, Tick(in, now), Observe(in, now)
  PROVE  ErrorInv'
<1> SUFFICES ASSUME ~partial'
             PROVE  ErrorOf(last_sequence_error',
                            IF frame_complete' THEN Earlier' ELSE seen')
  BY DEF ErrorInv, ErrorOf, OutOfSequence, Test, Good, BadPreamble, BadCrc,
     PreambleGood
<1>1. CASE ~run
  <2>1. seen' = <<>> /\ ~frame_complete'
    BY <1>1, TickSeen
  <2>2. OutOfSequence(<<>>) = {}
    BY NothingSeen DEF OutOfSequence
  <2> QED BY <2>1, <2>2 DEF ErrorOf
<1>2. CASE run /\ state = 1 /\ ~in.en
  <2> DEFINE e == [frame |-> wire.frame, at |-> rise, number |-> wire.number]
  <2>1. frame_complete' /\ seen' = Append(seen, e) /\ (partial => partial')
    BY <1>2, TickSeen
  <2>2. seen \in Seq(Arrival) /\ e \in Arrival /\ ~frame_complete
    BY <1>2, NewArrival DEF TrackInv, SettleInv
  <2>3. Earlier' = seen
    BY <2>1, <2>2, EarlierOfAppend DEF Earlier
  <2>4. last_sequence_error' = last_sequence_error
    BY <1>2 DEF Tick, Clear, BetweenFrames, InFrame, statistics
  <2> QED BY <2>1, <2>2, <2>3, <2>4 DEF ErrorInv
<1>3. CASE run /\ ~(state = 1 /\ ~in.en)
  <2>1. seen' = seen /\ ~frame_complete' /\ (partial => partial')
    BY <1>3, TickSeen
  <2>2. CASE frame_complete
    <3>1. Account
      BY <1>3, <2>2 DEF Tick, Clear, BetweenFrames, InFrame, SettleInv
    <3> QED BY <2>1, <2>2, <3>1, AccountError
  <2>3. CASE ~frame_complete
    <3>1. last_sequence_error' = last_sequence_error
      BY <1>3, <2>3 DEF Tick, Clear, BetweenFrames, InFrame, statistics
    <3> QED BY <2>1, <2>3, <3>1 DEF ErrorInv
  <2> QED BY <2>2, <2>3
<1> QED BY <1>1, <1>2, <1>3

---------------------------------------------------------------------------
\* The statistics and the latencies together.

\* While the analyzer runs, the record grows at its end only.
LEMMA PrefixKept ==
  ASSUME TypeInv, SettleInv, TrackInv, NEW in \in Inputs, NEW now \in Times,
         Tick(in, now), Observe(in, now), run, NEW k \in 0 .. Len(seen)
  PROVE  k \in 0 .. Len(seen') /\ SubSeq(seen', 1, k) = SubSeq(seen, 1, k)
<1>1. seen \in Seq(Arrival) /\ Len(seen) \in Nat
  BY LenProperties DEF TrackInv
<1>2. CASE state = 1 /\ ~in.en
  <2> DEFINE e == [frame |-> wire.frame, at |-> rise, number |-> wire.number]
  <2>1. seen' = Append(seen, e) /\ e \in Arrival
    BY <1>2, TickSeen, NewArrival DEF SettleInv
  <2>2. Len(seen') = Len(seen) + 1
    BY <1>1, <2>1, AppendArrival
  <2>3. SubSeq(seen, 1, k) = SubSeq(seen', 1, k)
    BY <1>1, <2>1, PrefixOfAppend
  <2> QED BY <1>1, <2>2, <2>3
<1>3. CASE ~(state = 1 /\ ~in.en)
  BY <1>3, TickSeen
<1> QED BY <1>2, <1>3

\* What a cycle publishes.
LEMMA TickPublishes ==
  ASSUME TypeInv, SettleInv, TrackInv, NEW in \in Inputs, NEW now \in Times,
         Tick(in, now), Observe(in, now), run
  PROVE  IF frame_complete /\ ~freeze_stats_sync
           THEN /\ Account /\ seen' = seen /\ latency_reg' = latency_reg
                /\ stats_reg' = [counts |-> counts',
                                 error |-> last_sequence_error',
                                 at |-> timestamp, size |-> frame_size]
           ELSE /\ stats_reg' = stats_reg /\ ~update_latency_regs'
                /\ \/ latency_reg' = latency_reg
                   \/ CompareLatency /\ update_latency_regs /\ ~frame_complete
<1>1. /\ frame_complete => state = 0 /\ ~update_latency_regs
      /\ update_latency_regs => ~frame_complete
  BY DEF SettleInv, TypeInv, LatencyTypes
<1>2. CASE frame_complete /\ ~freeze_stats_sync
  <2>1. Account /\ seen' = seen
    BY <1>1, <1>2, TickSeen DEF Tick, Clear, BetweenFrames, InFrame
  <2>2. latency_reg' = latency_reg
    BY <1>1, <1>2 DEF Tick, ClearLatency, MeasureLatency, CompareLatency
  <2>3. stats_reg' = [counts |-> counts', error |-> last_sequence_error',
                      at |-> timestamp, size |-> frame_size]
    BY <1>2, <2>1 DEF Account, Publish
  <2> QED BY <1>2, <2>1, <2>2, <2>3
<1>3. CASE ~(frame_complete /\ ~freeze_stats_sync)
  <2>1. stats_reg' = stats_reg
    BY <1>3 DEF Tick, Clear, BetweenFrames, InFrame, Account, Publish, statistics
  <2>2. ~update_latency_regs'
    BY <1>1, <1>3
       DEF Tick, ClearLatency, MeasureLatency, CompareLatency, Measures
  <2>3. \/ latency_reg' = latency_reg
        \/ CompareLatency /\ update_latency_regs /\ ~frame_complete
    BY <1>1 DEF Tick, ClearLatency, MeasureLatency, CompareLatency
  <2> QED BY <1>3, <2>1, <2>2, <2>3
<1> QED BY <1>2, <1>3

\* PictureInv' with the primes moved to the state that it is about.
LEMMA PicturePrimed ==
  ASSUME ~partial' =>
           \E k \in 0 .. Len(seen'), n \in 0 .. Len(seen') :
             /\ n <= k
             /\ StatisticsOf(stats_reg', SubSeq(seen', 1, k))
             /\ ErrorOf(stats_reg'.error, SubSeq(seen', 1, k))
             /\ LatenciesOf(latency_reg', SubSeq(seen', 1, n))
             /\ update_latency_regs' => k = Len(seen')
  PROVE  PictureInv'
<1>1. \A k : StatisticsOf(stats_reg, SubSeq(seen, 1, k))'
             <=> StatisticsOf(stats_reg', SubSeq(seen', 1, k))
  BY DEF StatisticsOf, Tally, Octets, L2Octets, Last, OutOfSequence, Test,
     Good, BadPreamble, BadCrc, PreambleGood
<1>2. \A k : ErrorOf(stats_reg.error, SubSeq(seen, 1, k))'
             <=> ErrorOf(stats_reg'.error, SubSeq(seen', 1, k))
  BY DEF ErrorOf, OutOfSequence, Test, Good, BadPreamble, BadCrc, PreambleGood
<1>3. \A n : LatenciesOf(latency_reg, SubSeq(seen, 1, n))'
             <=> LatenciesOf(latency_reg', SubSeq(seen', 1, n))
  BY DEF LatenciesOf, Bounds, Delays, Delay, Nsec, Test, Good, BadPreamble,
     BadCrc, PreambleGood
<1> QED BY <1>1, <1>2, <1>3 DEF PictureInv, Picture

LEMMA TickPicture ==
  ASSUME Countable, TypeInv, SettleInv, TrackInv, CountingInv, LatencyInv,
         ErrorInv, PictureInv, NEW in \in Inputs, NEW now \in Times,
         Tick(in, now), Observe(in, now)
  PROVE  PictureInv'
<1> SUFFICES ASSUME ~partial'
             PROVE  \E k \in 0 .. Len(seen'), n \in 0 .. Len(seen') :
                      /\ n <= k
                      /\ StatisticsOf(stats_reg', SubSeq(seen', 1, k))
                      /\ ErrorOf(stats_reg'.error, SubSeq(seen', 1, k))
                      /\ LatenciesOf(latency_reg', SubSeq(seen', 1, n))
                      /\ update_latency_regs' => k = Len(seen')
  BY PicturePrimed
<1>1. CASE ~run
  <2>1. seen' = <<>> /\ Len(<<>>) = 0 /\ SubSeq(<<>>, 1, 0) = <<>>
    BY <1>1, TickSeen, EmptySeq, SubSeqEmpty
  <2>2. /\ stats_reg' = NoStats /\ latency_reg' = NoLatency
        /\ ~update_latency_regs'
    BY <1>1 DEF Tick, Clear, BetweenFrames, InFrame, ClearLatency,
       MeasureLatency, CompareLatency
  <2>3. /\ StatisticsOf(NoStats, <<>>) /\ ErrorOf(NoStats.error, <<>>)
        /\ LatenciesOf(NoLatency, <<>>)
    BY NothingSeen DEF StatisticsOf, NoStats, ErrorOf, OutOfSequence,
       LatenciesOf, Bounds, NoLatency
  <2>4. 0 \in 0 .. 0 /\ 0 <= 0
    OBVIOUS
  <2> QED BY <2>1, <2>2, <2>3, <2>4
<1>2. CASE run
  <2>1. ~partial /\ seen \in Seq(Arrival) /\ Len(seen) \in Nat
    BY <1>2, TickSeen, LenProperties DEF TrackInv
  <2>2. PICK k \in 0 .. Len(seen), n \in 0 .. Len(seen) :
          n <= k /\ Picture(k, n) /\ (update_latency_regs => k = Len(seen))
    BY <2>1 DEF PictureInv
  <2>3. /\ k \in 0 .. Len(seen') /\ SubSeq(seen', 1, k) = SubSeq(seen, 1, k)
        /\ n \in 0 .. Len(seen') /\ SubSeq(seen', 1, n) = SubSeq(seen, 1, n)
    BY <1>2, PrefixKept
  <2>4. CASE frame_complete /\ ~freeze_stats_sync
    <3>1. /\ Account /\ seen' = seen /\ latency_reg' = latency_reg
          /\ stats_reg' = [counts |-> counts', error |-> last_sequence_error',
                           at |-> timestamp, size |-> frame_size]
      BY <1>2, <2>4, TickPublishes
    <3>2. counts' = Tally(seen)
      BY <2>1, <2>4, <3>1, AccountCounts DEF CountingInv
    <3>3. timestamp = Newest.at /\ frame_size = Last(Newest.frame) + 1
      BY <2>1, <2>4 DEF TrackInv
    <3>4. StatisticsOf(stats_reg', seen)
      BY <3>1, <3>2, <3>3 DEF StatisticsOf, Newest
    <3>5. ErrorOf(last_sequence_error', seen)
      BY <2>1, <2>4, <3>1, AccountError
    <3>6. stats_reg'.error = last_sequence_error'
      BY <3>1
    <3>7. /\ Len(seen) \in 0 .. Len(seen) /\ n <= Len(seen)
          /\ SubSeq(seen, 1, Len(seen)) = seen
      BY <2>1, SubSeqFull
    <3>8. LatenciesOf(latency_reg', SubSeq(seen', 1, n))
      BY <2>2, <3>1 DEF Picture
    <3> QED BY <2>3, <3>1, <3>4, <3>5, <3>6, <3>7, <3>8
  <2>5. CASE ~(frame_complete /\ ~freeze_stats_sync)
    <3>1. stats_reg' = stats_reg /\ ~update_latency_regs'
      BY <1>2, <2>5, TickPublishes
    <3>2. CASE latency_reg' = latency_reg
      BY <2>2, <2>3, <3>1, <3>2 DEF Picture
    <3>3. CASE CompareLatency /\ update_latency_regs /\ ~frame_complete
      <4>1. k = Len(seen) /\ SubSeq(seen, 1, k) = seen /\ k <= k
        BY <2>1, <2>2, <3>3, SubSeqFull
      <4>2. LatenciesOf(latency_reg', seen)
        BY <2>1, <3>3, ComparedLatency DEF LatencyInv
      <4> QED BY <2>2, <2>3, <3>1, <4>1, <4>2 DEF Picture
    <3> QED BY <1>2, <2>5, <3>2, <3>3, TickPublishes
  <2> QED BY <2>4, <2>5
<1> QED BY <1>1, <1>2

LEMMA StepPicture ==
  ASSUME Countable, TypeInv, SettleInv, TrackInv, CountingInv, LatencyInv,
         ErrorInv, PictureInv, CoreStep
  PROVE  ErrorInv' /\ PictureInv'
<1>1. CASE Still
  <2>1. /\ seen' = seen /\ partial' = partial /\ Earlier' = Earlier
        /\ frame_complete' = frame_complete
        /\ last_sequence_error' = last_sequence_error
        /\ stats_reg' = stats_reg /\ latency_reg' = latency_reg
        /\ update_latency_regs' = update_latency_regs
    BY <1>1 DEF Still, Earlier, machine, statistics, latencies, observers
  <2>2. ErrorInv'
    <3> SUFFICES ASSUME ~partial'
                 PROVE  ErrorOf(last_sequence_error',
                                IF frame_complete' THEN Earlier' ELSE seen')
      BY DEF ErrorInv, ErrorOf, OutOfSequence, Test, Good, BadPreamble, BadCrc,
         PreambleGood
    <3> QED BY <2>1 DEF ErrorInv
  <2>3. PictureInv'
    BY <2>1, PicturePrimed DEF PictureInv, Picture
  <2> QED BY <2>2, <2>3
<1> QED BY <1>1, CoreSteps, TickError, TickPicture

LEMMA InitPicture == LineInit => ErrorInv /\ PictureInv
<1> SUFFICES ASSUME LineInit PROVE ErrorInv /\ PictureInv
  OBVIOUS
<1>1. /\ seen = <<>> /\ stats_reg = NoStats /\ latency_reg = NoLatency
      /\ last_sequence_error = NoError /\ ~update_latency_regs
      /\ ~frame_complete
  BY DEF LineInit, Init
<1>2. Len(<<>>) = 0 /\ SubSeq(<<>>, 1, 0) = <<>> /\ 0 \in 0 .. 0 /\ 0 <= 0
  BY EmptySeq, SubSeqEmpty
<1>3. /\ StatisticsOf(NoStats, <<>>) /\ ErrorOf(NoStats.error, <<>>)
      /\ ErrorOf(NoError, <<>>) /\ LatenciesOf(NoLatency, <<>>)
  BY NothingSeen DEF StatisticsOf, NoStats, ErrorOf, OutOfSequence, LatenciesOf,
     Bounds, NoLatency
<1>4. Picture(0, 0)
  BY <1>1, <1>2, <1>3 DEF Picture
<1> QED BY <1>1, <1>2, <1>3, <1>4 DEF ErrorInv, PictureInv

(***************************************************************************)
(* Whatever software does, stats_reg with its sequence error and           *)
(* latency_reg, which are written a cycle apart and frozen by the same     *)
(* flag, are those of frames in this order: never do the latencies run     *)
(* ahead of the counters, and a cycle after a frame was published they are *)
(* those of the same frames.                                               *)
(***************************************************************************)
THEOREM StatisticsAndLatenciesTogether ==
  ASSUME Countable, Causal
  PROVE  LineSpec => []PictureInv
<1>1. /\ TypeInv /\ SettleInv /\ TrackInv /\ CountingInv /\ LatencyInv
      /\ ErrorInv /\ PictureInv /\ [LineNext]_lineVars
      => ErrorInv' /\ PictureInv'
  BY LineSteps, StepPicture
<1>2. NoneEmpty
  BY DEF Countable
<1>3. LineSpec => [](CountingInv /\ LatencyInv /\ TypeInv /\ SettleInv /\ TrackInv)
  BY <1>2, CountingInvariant, LatencyInvariant, PTL
<1> QED BY <1>1, <1>3, InitPicture, PTL DEF LineSpec

---------------------------------------------------------------------------
\* The tool's own steps.

LEMMA ToolSteps ==
  ASSUME TypeInv, [ToolNext]_toolVars
  PROVE  CoreStep
<1>1. control_reg \in Controls
  BY DEF TypeInv, SampledTypes, Controls
<1>2. ASSUME Untouched PROVE CoreStep
  BY <1>1, <1>2 DEF Untouched, lineVars, vars, CoreStep, Still
<1>3. ASSUME NEW go \in BOOLEAN, NEW freeze \in BOOLEAN,
             WriteControl(go, freeze), Core
      PROVE  CoreStep
  BY <1>3 DEF WriteControl, Core, Still, CoreStep, Controls
<1>4. CASE StartTool \/ RunAnalyzer \/ Freeze \/ Unfreeze
  BY <1>3, <1>4 DEF StartTool, RunAnalyzer, Freeze, Unfreeze
<1>5. CASE EndOfInput \/ ReadRegister \/ ReadCapture \/ KillTool
  BY <1>2, <1>5 DEF EndOfInput, ReadRegister, ReadCapture, KillTool
<1>6. CASE UNCHANGED toolVars
  BY <1>2, <1>6 DEF toolVars, Untouched
<1> QED BY <1>4, <1>5, <1>6 DEF ToolNext, ToolStep, CoreStep

LEMMA ToolHolds ==
  ToolSpec => [](TypeInv /\ SettleInv /\ HoldInv /\ TrackInv)
<1>1. TypeInv /\ [ToolNext]_toolVars => TypeInv'
  BY ToolSteps, StepTypes
<1>2. TypeInv /\ SettleInv /\ HoldInv /\ [ToolNext]_toolVars
      => SettleInv' /\ HoldInv'
  BY ToolSteps, StepSettleHold
<1>3. TypeInv /\ SettleInv /\ TrackInv /\ [ToolNext]_toolVars => TrackInv'
  BY ToolSteps, StepTrack
<1>4. ToolInit => TypeInv /\ SettleInv /\ HoldInv /\ TrackInv
  BY InitTypes, InitSettleHold, InitTrack DEF ToolInit
<1> QED BY <1>1, <1>2, <1>3, <1>4, PTL DEF ToolSpec

LEMMA ToolStamp == ToolSpec => []StampInv
<1>1. ToolInit => StampInv
  BY DEF ToolInit, LineInit, StampInv, Quiet
<1>2. TypeInv /\ SettleInv /\ TrackInv /\ StampInv /\ [ToolNext]_toolVars
      => StampInv'
  <2> SUFFICES ASSUME TypeInv, SettleInv, TrackInv, StampInv, CoreStep
               PROVE  StampInv'
    BY ToolSteps
  <2>1. CASE Still
    BY <2>1 DEF Still, StampInv, observers
  <2> QED BY <2>1, CoreSteps, TickStamp
<1> QED BY <1>1, <1>2, ToolHolds, PTL DEF ToolSpec

LEMMA ToolPicture ==
  ASSUME Countable, Causal
  PROVE  ToolSpec => [](CountingInv /\ LatencyInv /\ ErrorInv /\ PictureInv)
<1>1. TypeInv /\ SettleInv /\ TrackInv /\ CountingInv /\ [ToolNext]_toolVars
      => CountingInv'
  BY ToolSteps, StepCounting
<1>2. TypeInv /\ SettleInv /\ TrackInv /\ LatencyInv /\ [ToolNext]_toolVars
      => LatencyInv'
  BY ToolSteps, StepLatency DEF Countable
<1>3. /\ TypeInv /\ SettleInv /\ TrackInv /\ CountingInv /\ LatencyInv
      /\ ErrorInv /\ PictureInv /\ [ToolNext]_toolVars
      => ErrorInv' /\ PictureInv'
  BY ToolSteps, StepPicture
<1>4. ToolInit => CountingInv /\ LatencyInv /\ ErrorInv /\ PictureInv
  BY InitCounting, InitLatency, InitPicture DEF ToolInit
<1> QED BY <1>1, <1>2, <1>3, <1>4, ToolHolds, PTL DEF ToolSpec

LEMMA ToolCapture ==
  ASSUME BufferHolds
  PROVE  ToolSpec => []CaptureInv
<1>1. TypeInv /\ SettleInv /\ TrackInv /\ CaptureInv /\ [ToolNext]_toolVars
      => CaptureInv'
  BY ToolSteps, StepCapture
<1>2. ToolInit => CaptureInv
  BY InitCapture DEF ToolInit
<1> QED BY <1>1, <1>2, ToolHolds, PTL DEF ToolSpec

---------------------------------------------------------------------------
\* What was read is what is there.

\* A table that is one entry longer.
LEMMA TableAppend ==
  ASSUME NEW S, NEW n \in Nat, NEW s \in [1 .. n -> S],
         NEW t \in [1 .. n + 1 -> S], \A i \in 1 .. n : t[i] = s[i]
  PROVE  Append(s, t[n + 1]) = t /\ Len(s) = n /\ Len(t) = n + 1
<1>1. s \in Seq(S) /\ Len(s) = n
  BY SeqDef
<1>2. t \in Seq(S) /\ Len(t) = n + 1
  <2>1. n + 1 \in Nat
    OBVIOUS
  <2> QED BY <2>1, SeqDef
<1>3. t[n + 1] \in S
  OBVIOUS
<1>4. /\ Append(s, t[n + 1]) \in Seq(S) /\ Len(Append(s, t[n + 1])) = n + 1
      /\ \A i \in 1 .. n : Append(s, t[n + 1])[i] = s[i]
      /\ Append(s, t[n + 1])[n + 1] = t[n + 1]
  BY <1>1, <1>3, AppendProperties
<1>5. \A i \in 1 .. n + 1 : i \in 1 .. n \/ i = n + 1
  OBVIOUS
<1>6. \A i \in 1 .. n + 1 : Append(s, t[n + 1])[i] = t[i]
  BY <1>4, <1>5
<1>7. Append(s, t[n + 1]) = t
  BY <1>2, <1>4, <1>6, SeqEqual
<1> QED BY <1>1, <1>2, <1>7

LEMMA NextRead ==
  ASSUME NEW n \in Nat
  PROVE  /\ Append(ReadSoFar(n), Register(ReadOrder[n + 1])) = ReadSoFar(n + 1)
         /\ Len(ReadSoFar(n)) = n /\ Len(ReadSoFar(n + 1)) = n + 1
<1> DEFINE S == {Register(ReadOrder[i]) : i \in Nat}
<1>1. /\ ReadSoFar(n) \in [1 .. n -> S] /\ ReadSoFar(n + 1) \in [1 .. n + 1 -> S]
      /\ \A i \in 1 .. n : ReadSoFar(n + 1)[i] = ReadSoFar(n)[i]
      /\ ReadSoFar(n + 1)[n + 1] = Register(ReadOrder[n + 1])
  BY DEF ReadSoFar
<1> HIDE DEF S
<1> QED BY <1>1, TableAppend

LEMMA NextWord ==
  ASSUME NEW m \in Nat
  PROVE  /\ Append(WordsSoFar(m), mem[m % Words]) = WordsSoFar(m + 1)
         /\ Len(WordsSoFar(m)) = m
         /\ ((m % Words) + 1) % Words = (m + 1) % Words
<1> DEFINE S == {mem[(j - 1) % Words] : j \in Nat}
<1>1. /\ WordsSoFar(m) \in [1 .. m -> S] /\ WordsSoFar(m + 1) \in [1 .. m + 1 -> S]
      /\ \A j \in 1 .. m : WordsSoFar(m + 1)[j] = WordsSoFar(m)[j]
      /\ WordsSoFar(m + 1)[m + 1] = mem[(m + 1 - 1) % Words]
  BY DEF WordsSoFar
<1>2. m + 1 - 1 = m
  OBVIOUS
<1> HIDE DEF S
<1>3. Append(WordsSoFar(m), mem[m % Words]) = WordsSoFar(m + 1)
  BY <1>1, <1>2, TableAppend
<1>4. Len(WordsSoFar(m)) = m
  BY <1>1, TableAppend
<1>5. Words \in Nat \ {0}
  BY AnalyzerAssumption
<1>6. (m + 1) % Words = ((m % Words) + 1) % Words
  BY <1>5, ModNext
<1> QED BY <1>3, <1>4, <1>6

\* The core holds still until the tool writes control_reg.
LEMMA StepFrozen ==
  ASSUME TypeInv, SettleInv, HoldInv, Frozen, CoreStep, UNCHANGED control_reg
  PROVE  /\ Frozen' /\ mem' = mem
         /\ \A n : ReadSoFar(n)' = ReadSoFar(n)
         /\ \A m : WordsSoFar(m)' = WordsSoFar(m)
<1>1. stats_reg' = stats_reg /\ latency_reg' = latency_reg
  BY StepHolds DEF Frozen
<1>2. cycles_reg' = cycles_reg /\ mem' = mem
  BY StepHolds DEF Frozen
<1>3. \A n : ReadSoFar(n)' = ReadSoFar(n)
  BY <1>1, <1>2 DEF ReadSoFar, Register, ieee_1588_to_yang_date_and_time, Digits,
     gmtime
<1>4. \A m : WordsSoFar(m)' = WordsSoFar(m)
  BY <1>2 DEF WordsSoFar
<1>5. Frozen'
  <2>1. CASE Still
    BY <2>1 DEF Still, Frozen, sampled, observers
  <2>2. ASSUME NEW in \in Inputs, NEW now \in Times, Tick(in, now),
               Observe(in, now)
        PROVE  Frozen'
    BY <2>2 DEF Tick, Observe, Frozen
  <2> QED BY <2>1, <2>2, CoreSteps
<1> QED BY <1>2, <1>3, <1>4, <1>5

\* What a read of a register makes of the report.
LEMMA ReadStep ==
  ASSUME TypeInv, SettleInv, HoldInv, ReadingInv, ReadRegister
  PROVE  ToolInv'
<1> DEFINE name == ReadOrder[Len(report) + 1]
<1>1. /\ pc = "read" /\ Untouched /\ words' = words
      /\ report' = Append(report, Register(name))
      /\ frame_buf_address' = IF name = "frame_size" THEN 0
                              ELSE frame_buf_address
      /\ steady' = IF report = NoReport THEN holding /\ run /\ freeze_stats
                   ELSE steady
      /\ pc' = IF Len(report') = Len(ReadOrder) THEN "capture" ELSE "read"
  BY DEF ReadRegister
<1> HIDE DEF name
<1>2. /\ control_reg = [run |-> TRUE, freeze |-> TRUE] /\ words = <<>>
      /\ Len(ReadOrder) = 18 /\ ReadOrder[SizeRead] = "frame_size"
  BY <1>1 DEF ReadingInv, ReadOrder, SizeRead
<1>3. CoreStep /\ UNCHANGED control_reg
  <2>1. control_reg \in Controls
    BY DEF TypeInv, SampledTypes, Controls
  <2> QED BY <1>1, <2>1 DEF Untouched, lineVars, vars, CoreStep, Still
<1>4. ASSUME steady'
      PROVE  /\ Frozen
             /\ \E n \in 0 .. Len(ReadOrder) - 1 :
                  /\ report = ReadSoFar(n)
                  /\ n >= SizeRead => frame_buf_address = 0
  <2>1. CASE report = NoReport
    <3>1. Frozen
      BY <1>1, <1>2, <1>4, <2>1 DEF Frozen
    <3>2. report = ReadSoFar(0)
      BY <2>1 DEF NoReport, ReadSoFar
    <3>3. 0 \in 0 .. Len(ReadOrder) - 1 /\ ~(0 >= SizeRead)
      BY <1>2 DEF SizeRead
    <3> QED BY <3>1, <3>2, <3>3
  <2>2. CASE report # NoReport
    <3>1. PICK n \in 1 .. Len(ReadOrder) - 1 :
            report = ReadSoFar(n) /\ (n >= SizeRead => frame_buf_address = 0)
      BY <1>1, <1>4, <2>2 DEF ReadingInv
    <3>2. Frozen /\ n \in 0 .. Len(ReadOrder) - 1
      BY <1>1, <1>2, <1>4, <2>2 DEF ReadingInv
    <3> QED BY <3>1, <3>2
  <2> QED BY <2>1, <2>2
<1>5. ASSUME steady'
      PROVE  /\ Frozen'
             /\ \E n \in 1 .. Len(ReadOrder) :
                  /\ report' = ReadSoFar(n)' /\ Len(report') = n
                  /\ n >= SizeRead => frame_buf_address' = 0
  <2>1. PICK n \in 0 .. Len(ReadOrder) - 1 :
          report = ReadSoFar(n) /\ (n >= SizeRead => frame_buf_address = 0)
    BY <1>4, <1>5
  <2>2. n \in Nat /\ n + 1 \in 1 .. Len(ReadOrder)
    BY <1>2
  <2>3. /\ Len(report) = n /\ report' = ReadSoFar(n + 1)
        /\ Len(report') = n + 1
    BY <1>1, <2>1, <2>2, NextRead DEF name
  <2>4. Frozen' /\ ReadSoFar(n + 1)' = ReadSoFar(n + 1)
    BY <1>3, <1>4, <1>5, StepFrozen
  <2>5. n + 1 >= SizeRead => n + 1 = SizeRead \/ n >= SizeRead
    BY <2>2 DEF SizeRead
  <2>6. n + 1 = SizeRead => name = "frame_size"
    BY <1>2, <2>3 DEF name
  <2>7. n + 1 >= SizeRead => frame_buf_address' = 0
    BY <1>1, <2>1, <2>5, <2>6
  <2> QED BY <2>2, <2>3, <2>4, <2>7
<1>6. ReadingInv'
  <2> SUFFICES ASSUME pc' = "read"
               PROVE  /\ control_reg' = [run |-> TRUE, freeze |-> TRUE]
                      /\ words' = <<>>
                      /\ steady' /\ report' # NoReport =>
                           /\ Frozen'
                           /\ \E n \in 1 .. Len(ReadOrder) - 1 :
                                /\ report' = ReadSoFar(n)'
                                /\ n >= SizeRead => frame_buf_address' = 0
    BY DEF ReadingInv, NoReport, ReadOrder
  <2>1. Len(report') # Len(ReadOrder)
    BY <1>1
  <2>2. ASSUME steady'
        PROVE  \E n \in 1 .. Len(ReadOrder) - 1 :
                 /\ report' = ReadSoFar(n)'
                 /\ n >= SizeRead => frame_buf_address' = 0
    <3>1. PICK n \in 1 .. Len(ReadOrder) :
            /\ report' = ReadSoFar(n)' /\ Len(report') = n
            /\ n >= SizeRead => frame_buf_address' = 0
      BY <1>5, <2>2
    <3>2. n \in 1 .. Len(ReadOrder) - 1
      BY <1>2, <2>1, <3>1
    <3> QED BY <3>1, <3>2
  <2> QED BY <1>1, <1>2, <1>3, <1>5, <2>2
<1>7. CapturingInv'
  <2> SUFFICES ASSUME pc' = "capture", steady'
               PROVE  /\ Frozen' /\ report' = ReadSoFar(Len(ReadOrder))'
                      /\ \E m \in Nat : /\ words' = WordsSoFar(m)'
                                        /\ frame_buf_address' = m % Words
    BY DEF CapturingInv, ReadOrder
  <2>1. PICK n \in 1 .. Len(ReadOrder) :
          /\ report' = ReadSoFar(n)' /\ Len(report') = n
          /\ n >= SizeRead => frame_buf_address' = 0
    BY <1>5
  <2>2. n = Len(ReadOrder)
    BY <1>1, <2>1
  <2>3. frame_buf_address' = 0
    BY <1>2, <2>1, <2>2 DEF SizeRead
  <2>4. words' = WordsSoFar(0)'
    BY <1>1, <1>2 DEF WordsSoFar
  <2>5. 0 \in Nat /\ 0 % Words = 0
    BY AnalyzerAssumption
  <2> QED BY <1>5, <2>1, <2>2, <2>3, <2>4, <2>5
<1> QED BY <1>6, <1>7 DEF ToolInv

\* What a read of the capture buffer makes of the words.
LEMMA CaptureStep ==
  ASSUME TypeInv, SettleInv, HoldInv, CapturingInv, ReadCapture
  PROVE  ToolInv'
<1>1. /\ pc = "capture" /\ pc' = pc /\ Untouched
      /\ report' = report /\ steady' = steady
      /\ words' = Append(words, mem[frame_buf_address])
      /\ frame_buf_address' = (frame_buf_address + 1) % Words
  BY DEF ReadCapture
<1>2. CoreStep /\ UNCHANGED control_reg
  <2>1. control_reg \in Controls
    BY DEF TypeInv, SampledTypes, Controls
  <2> QED BY <1>1, <2>1 DEF Untouched, lineVars, vars, CoreStep, Still
<1>3. ReadingInv'
  BY <1>1 DEF ReadingInv
<1>4. CapturingInv'
  <2> SUFFICES ASSUME steady'
               PROVE  /\ Frozen' /\ report' = ReadSoFar(Len(ReadOrder))'
                      /\ \E m \in Nat : /\ words' = WordsSoFar(m)'
                                        /\ frame_buf_address' = m % Words
    BY DEF CapturingInv, ReadOrder
  <2>1. Frozen /\ report = ReadSoFar(Len(ReadOrder))
    BY <1>1 DEF CapturingInv
  <2>2. PICK m \in Nat : words = WordsSoFar(m) /\ frame_buf_address = m % Words
    BY <1>1 DEF CapturingInv
  <2>3. /\ Frozen' /\ \A n : ReadSoFar(n)' = ReadSoFar(n)
        /\ \A n : WordsSoFar(n)' = WordsSoFar(n)
    BY <1>2, <2>1, StepFrozen
  <2>4. words' = WordsSoFar(m + 1) /\ frame_buf_address' = (m + 1) % Words
    BY <1>1, <2>2, NextWord
  <2>5. report' = ReadSoFar(Len(ReadOrder))'
    BY <1>1, <2>1, <2>3 DEF ReadOrder
  <2> QED BY <2>3, <2>4, <2>5
<1> QED BY <1>3, <1>4 DEF ToolInv

LEMMA StepTool ==
  ASSUME TypeInv, SettleInv, HoldInv, ToolInv, [ToolNext]_toolVars
  PROVE  ToolInv'
<1>1. CASE ReadRegister
  BY <1>1, ReadStep DEF ToolInv
<1>2. CASE ReadCapture
  BY <1>2, CaptureStep DEF ToolInv
<1>3. CASE Freeze
  <2>1. /\ pc' = "read" /\ control_reg' = [run |-> TRUE, freeze |-> TRUE]
        /\ words' = <<>> /\ report' = NoReport
    BY <1>3 DEF Freeze, WriteControl
  <2> QED BY <2>1 DEF ToolInv, ReadingInv, CapturingInv, NoReport
<1>4. CASE StartTool \/ RunAnalyzer \/ EndOfInput \/ Unfreeze \/ KillTool
  <2>1. pc' # "read" /\ pc' # "capture"
    BY <1>4 DEF StartTool, RunAnalyzer, EndOfInput, Unfreeze, KillTool
  <2> QED BY <2>1 DEF ToolInv, ReadingInv, CapturingInv
<1>5. CASE (LineTick /\ UNCHANGED tool) \/ UNCHANGED toolVars
  <2>1. /\ UNCHANGED control_reg /\ pc' = pc /\ report' = report
        /\ words' = words /\ frame_buf_address' = frame_buf_address
        /\ steady' = steady
    BY <1>5 DEF LineTick, Tick, tool, toolVars, lineVars, vars
  <2>2. CoreStep
    BY ToolSteps
  <2>3. Frozen => /\ Frozen' /\ \A n : ReadSoFar(n)' = ReadSoFar(n)
                  /\ \A m : WordsSoFar(m)' = WordsSoFar(m)
    BY <2>1, <2>2, StepFrozen
  <2>4. ReadingInv'
    <3> SUFFICES ASSUME pc' = "read"
                 PROVE  /\ control_reg' = [run |-> TRUE, freeze |-> TRUE]
                        /\ words' = <<>>
                        /\ steady' /\ report' # NoReport =>
                             /\ Frozen'
                             /\ \E n \in 1 .. Len(ReadOrder) - 1 :
                                  /\ report' = ReadSoFar(n)'
                                  /\ n >= SizeRead => frame_buf_address' = 0
      BY DEF ReadingInv, NoReport, ReadOrder
    <3> QED BY <2>1, <2>3 DEF ToolInv, ReadingInv
  <2>5. CapturingInv'
    <3> SUFFICES ASSUME pc' = "capture", steady'
                 PROVE  /\ Frozen' /\ report' = ReadSoFar(Len(ReadOrder))'
                        /\ \E m \in Nat : /\ words' = WordsSoFar(m)'
                                          /\ frame_buf_address' = m % Words
      BY DEF CapturingInv, ReadOrder
    <3>1. Frozen /\ report = ReadSoFar(Len(ReadOrder))
      BY <2>1 DEF ToolInv, CapturingInv
    <3>2. PICK m \in Nat :
            words = WordsSoFar(m) /\ frame_buf_address = m % Words
      BY <2>1 DEF ToolInv, CapturingInv
    <3>3. report' = ReadSoFar(Len(ReadOrder))'
      BY <2>1, <2>3, <3>1 DEF ReadOrder
    <3> QED BY <2>1, <2>3, <3>1, <3>2, <3>3
  <2> QED BY <2>4, <2>5 DEF ToolInv
<1> QED BY <1>1, <1>2, <1>3, <1>4, <1>5 DEF ToolNext, ToolStep

LEMMA ToolInvariant == ToolSpec => []ToolInv
<1>1. ToolInit => ToolInv
  BY DEF ToolInit, ToolInv, ReadingInv, CapturingInv
<1>2. TypeInv /\ SettleInv /\ HoldInv /\ ToolInv /\ [ToolNext]_toolVars
      => ToolInv'
  BY StepTool
<1> QED BY <1>1, <1>2, ToolHolds, PTL DEF ToolSpec

---------------------------------------------------------------------------
\* The report.

\* What a steady report says of a register, and its words of the buffer.
LEMMA SteadyReport ==
  ASSUME CapturingInv, pc = "capture", steady
  PROVE  /\ \A i \in 1 .. Len(ReadOrder) :
              Reported(ReadOrder[i]) = Register(ReadOrder[i])
         /\ \A j \in 1 .. Len(words) : words[j] = mem[(j - 1) % Words]
<1>1. ASSUME NEW i \in 1 .. Len(ReadOrder)
      PROVE  Reported(ReadOrder[i]) = Register(ReadOrder[i])
  <2> DEFINE name == ReadOrder[i]
             j == CHOOSE k \in DOMAIN ReadOrder : ReadOrder[k] = name
  <2>1. DOMAIN ReadOrder = 1 .. Len(ReadOrder)
    BY DEF ReadOrder
  <2>2. j \in DOMAIN ReadOrder /\ ReadOrder[j] = name
    BY <2>1
  <2>3. report = ReadSoFar(Len(ReadOrder))
    BY DEF CapturingInv
  <2>4. Reported(name) = report[j]
    BY DEF Reported
  <2> HIDE DEF j
  <2>5. report[j] = Register(ReadOrder[j])
    BY <2>1, <2>2, <2>3 DEF ReadSoFar
  <2> QED BY <2>2, <2>4, <2>5
<1>2. \A j \in 1 .. Len(words) : words[j] = mem[(j - 1) % Words]
  <2>1. PICK m \in Nat : words = WordsSoFar(m)
    BY DEF CapturingInv
  <2>2. Len(words) = m
    BY <2>1, NextWord
  <2> QED BY <2>1, <2>2 DEF WordsSoFar
<1> QED BY <1>1, <1>2

LEMMA ReportedValues ==
  ASSUME CapturingInv, pc = "capture", steady
  PROVE  /\ \A c \in Counters : Reported(c) = stats_reg.counts[c]
         /\ Reported("latency_min") = latency_reg.min
         /\ Reported("latency_max") = latency_reg.max
         /\ Reported("timestamp")
              = ieee_1588_to_yang_date_and_time(stats_reg.at)
         /\ Reported("frame_size") = stats_reg.size
         /\ Reported("error_received") = stats_reg.error.received
         /\ Reported("error_timestamp")
              = ieee_1588_to_yang_date_and_time(stats_reg.error.at)
<1>1. \A i \in 1 .. Len(ReadOrder) :
        Reported(ReadOrder[i]) = Register(ReadOrder[i])
  BY SteadyReport
<1>2. Len(ReadOrder) = 18
  BY DEF ReadOrder
<1>3. ASSUME NEW c \in Counters PROVE Reported(c) = stats_reg.counts[c]
  <2>1. PICK i \in 1 .. 18 : ReadOrder[i] = c
    <3>1. /\ ReadOrder[1] = "pkts" /\ ReadOrder[2] = "octets"
          /\ ReadOrder[4] = "bad_crc_octets" /\ ReadOrder[5] = "bad_crc_pkts"
          /\ ReadOrder[6] = "bad_preamble_octets"
          /\ ReadOrder[7] = "bad_preamble_pkts"
          /\ ReadOrder[9] = "testframe_pkts"
          /\ ReadOrder[10] = "sequence_errors"
      BY DEF ReadOrder
    <3> QED BY <3>1 DEF Counters
  <2>2. Reported(c) = Register(c)
    BY <1>1, <1>2, <2>1
  <2>3. Register(c) = stats_reg.counts[c]
    BY DEF Register, Counters
  <2> QED BY <2>2, <2>3
<1>4. /\ ReadOrder[11] = "latency_min" /\ ReadOrder[12] = "latency_max"
      /\ ReadOrder[14] = "timestamp" /\ ReadOrder[15] = "frame_size"
      /\ ReadOrder[17] = "error_received" /\ ReadOrder[18] = "error_timestamp"
  BY DEF ReadOrder
<1>5. \A i \in {11, 12, 14, 15, 17, 18} :
        Reported(ReadOrder[i]) = Register(ReadOrder[i])
  BY <1>1, <1>2
<1>6. /\ Register("latency_min") = latency_reg.min
      /\ Register("latency_max") = latency_reg.max
  BY DEF Register, Counters
<1>7. /\ Register("timestamp") = ieee_1588_to_yang_date_and_time(stats_reg.at)
      /\ Register("frame_size") = stats_reg.size
  BY DEF Register, Counters
<1>8. /\ Register("error_received") = stats_reg.error.received
      /\ Register("error_timestamp")
           = ieee_1588_to_yang_date_and_time(stats_reg.error.at)
  BY DEF Register, Counters
<1> QED BY <1>3, <1>4, <1>5, <1>6, <1>7, <1>8

---------------------------------------------------------------------------
\* Times on their way to text and back.

\* The date and the time of day give back the seconds.
LEMMA CalendarExact ==
  ASSUME NEW s \in Nat
  PROVE  mktime(gmtime(s)) = s
<1> DEFINE minutes == s \div 60
           hours == s \div 3600
           days == s \div 86400
<1>1. \A n \in Nat : /\ n = (n \div 60) * 60 + (n % 60)
                     /\ n = (n \div 24) * 24 + (n % 24)
  OBVIOUS
<1>2. minutes \in Nat /\ hours \in Nat /\ days \in Nat
  OBVIOUS
<1>3. hours = minutes \div 60 /\ days = hours \div 24
  OBVIOUS
<1>4. /\ gmtime(s).day = days /\ gmtime(s).hour = hours % 24
      /\ gmtime(s).min = minutes % 60 /\ gmtime(s).sec = s % 60
  BY DEF gmtime
<1>5. s = minutes * 60 + (s % 60)
  BY <1>1
<1> HIDE DEF minutes, hours, days
<1>6. /\ minutes = hours * 60 + (minutes % 60)
      /\ hours = days * 24 + (hours % 24)
  BY <1>1, <1>2, <1>3
<1>7. mktime(gmtime(s))
        = ((days * 24 + (hours % 24)) * 60 + (minutes % 60)) * 60 + (s % 60)
  BY <1>4 DEF mktime
<1> QED BY <1>5, <1>6, <1>7

LEMMA TimesSurvive ==
  ASSUME DigitsSurvive(Times), NEW t \in Times
  PROVE  yang_date_and_time_to_ieee_1588(ieee_1588_to_yang_date_and_time(t)) = t
<1>1. t \in Time /\ t.sec \in Nat /\ t = [sec |-> t.sec, nsec |-> t.nsec]
  BY AnalyzerAssumption DEF Time
<1>2. mktime(gmtime(t.sec)) = t.sec
  BY <1>1, CalendarExact
<1>3. Value[LeftAligned(Digits(t.nsec))] = t.nsec
  BY DEF DigitsSurvive
<1> DEFINE text == ieee_1588_to_yang_date_and_time(t)
<1>4. /\ text.end = "Z" /\ text.tm = gmtime(t.sec)
      /\ text.fraction = Digits(t.nsec)
  BY DEF ieee_1588_to_yang_date_and_time
<1> HIDE DEF text
<1>5. yang_date_and_time_to_ieee_1588(text)
        = [sec |-> mktime(gmtime(t.sec)),
           nsec |-> Value[LeftAligned(Digits(t.nsec))]]
  BY <1>4 DEF yang_date_and_time_to_ieee_1588
<1>6. yang_date_and_time_to_ieee_1588(text) = t
  BY <1>1, <1>2, <1>3, <1>5
<1> QED BY <1>6 DEF text

---------------------------------------------------------------------------
\* A prefix of a prefix.
LEMMA PrefixOfPrefix ==
  ASSUME NEW s \in Seq(Arrival), NEW k \in 0 .. Len(s), NEW n \in 0 .. k
  PROVE  SubSeq(SubSeq(s, 1, k), 1, n) = SubSeq(s, 1, n)
<1> DEFINE t == SubSeq(s, 1, k)
<1>1. t \in Seq(Arrival) /\ Len(t) = k /\ \A i \in 1 .. k : t[i] = s[i]
  BY PrefixFacts
<1> HIDE DEF t
<1>2. n \in 0 .. Len(t) /\ n \in 0 .. Len(s) /\ \A i \in 1 .. n : i \in 1 .. k
  BY <1>1, LenProperties
<1>3. /\ SubSeq(t, 1, n) \in Seq(Arrival) /\ Len(SubSeq(t, 1, n)) = n
      /\ \A i \in 1 .. n : SubSeq(t, 1, n)[i] = t[i]
  BY <1>1, <1>2, PrefixFacts
<1>4. /\ SubSeq(s, 1, n) \in Seq(Arrival) /\ Len(SubSeq(s, 1, n)) = n
      /\ \A i \in 1 .. n : SubSeq(s, 1, n)[i] = s[i]
  BY <1>2, PrefixFacts
<1>5. \A i \in 1 .. n : SubSeq(t, 1, n)[i] = SubSeq(s, 1, n)[i]
  BY <1>1, <1>2, <1>3, <1>4
<1>6. SubSeq(t, 1, n) = SubSeq(s, 1, n)
  BY <1>3, <1>4, <1>5, SeqEqual
<1> QED BY <1>6 DEF t

\* What the core shows while it holds still, in terms of the frames seen.
LEMMA ShownTogether ==
  ASSUME TrackInv, LatencyInv, PictureInv, ~partial
  PROVE  \E s \in Prefixes :
           /\ s \in Seq(Arrival) /\ \A i \in DOMAIN s : s[i].at \in Times
           /\ StatisticsOf(stats_reg, s) /\ ErrorOf(stats_reg.error, s)
           /\ \E n \in 0 .. Len(s) :
                Extremes(SubSeq(s, 1, n), latency_reg.min, latency_reg.max)
<1>1. PICK k \in 0 .. Len(seen), n \in 0 .. Len(seen) : n <= k /\ Picture(k, n)
  BY DEF PictureInv
<1> DEFINE s == SubSeq(seen, 1, k)
<1>2. seen \in Seq(Arrival) /\ Len(seen) \in Nat /\ DOMAIN seen = 1 .. Len(seen)
  BY LenProperties DEF TrackInv
<1>3. /\ s \in Seq(Arrival) /\ Len(s) = k /\ \A i \in 1 .. k : s[i] = seen[i]
  BY <1>2, PrefixFacts
<1>4. s \in Prefixes
  BY DEF Prefixes
<1>5. /\ StatisticsOf(stats_reg, s) /\ ErrorOf(stats_reg.error, s)
      /\ LatenciesOf(latency_reg, SubSeq(seen, 1, n))
  BY <1>1 DEF Picture
<1>6. n \in 0 .. k
  BY <1>1, <1>2
<1>7. SubSeq(s, 1, n) = SubSeq(seen, 1, n) /\ SubSeq(seen, 1, n) \in Seq(Arrival)
  BY <1>2, <1>6, PrefixOfPrefix, PrefixFacts
<1> HIDE DEF s
<1>8. Extremes(SubSeq(s, 1, n), latency_reg.min, latency_reg.max)
  BY <1>5, <1>7, ExtremesOf DEF LatenciesOf
<1>9. DOMAIN s = 1 .. k /\ \A i \in DOMAIN s : s[i].at \in Times
  <2>1. DOMAIN s = 1 .. k
    BY <1>3, LenProperties
  <2>2. \A i \in 1 .. k : i \in DOMAIN seen
    BY <1>2
  <2> QED BY <1>3, <2>1, <2>2 DEF LatencyInv, StampInv
<1> QED BY <1>3, <1>4, <1>5, <1>6, <1>8, <1>9

(***************************************************************************)
(* A report that the tool began to read while the core held still is one   *)
(* picture: main freezes the core, reads eighteen registers one after the  *)
(* other while frames go on arriving, and still every number in the report *)
(* belongs to the frames that had been seen at one moment.  The latencies  *)
(* may be those of a moment before, since they are published a cycle after *)
(* the counters.                                                           *)
(***************************************************************************)
THEOREM ReportTogetherAlways ==
  ASSUME Countable, Causal, DigitsSurvive(Times)
  PROVE  ToolSpec => []ReportTogether
<1>1. TrackInv /\ LatencyInv /\ PictureInv /\ ToolInv => ReportTogether
  <2> SUFFICES ASSUME TrackInv, LatencyInv, PictureInv, ToolInv,
                      Complete, steady, ~partial
               PROVE  \E s \in Prefixes :
                 /\ \A c \in Counters : Reported(c) = Tally(s)[c]
                 /\ \E n \in 0 .. Len(s) :
                      Extremes(SubSeq(s, 1, n), Reported("latency_min"),
                               Reported("latency_max"))
                 /\ s # <<>> =>
                      /\ ReportedTime("timestamp") = s[Len(s)].at
                      /\ Reported("frame_size") = Last(s[Len(s)].frame) + 1
                 /\ Reported("sequence_errors") # 0 =>
                      LET e == s[Max(OutOfSequence(s))]
                      IN  /\ Reported("error_received") = e.frame.seq
                          /\ ReportedTime("error_timestamp") = e.at
    BY DEF ReportTogether
  <2>1. PICK s \in Prefixes :
          /\ s \in Seq(Arrival) /\ \A i \in DOMAIN s : s[i].at \in Times
          /\ StatisticsOf(stats_reg, s) /\ ErrorOf(stats_reg.error, s)
          /\ \E n \in 0 .. Len(s) :
               Extremes(SubSeq(s, 1, n), latency_reg.min, latency_reg.max)
    BY ShownTogether
  <2>2. CapturingInv /\ pc = "capture"
    BY DEF ToolInv, Complete
  <2>3. /\ Len(s) \in Nat /\ DOMAIN s = 1 .. Len(s) /\ (s # <<>> => Len(s) > 0)
        /\ OutOfSequence(s) \subseteq 1 .. Len(s)
    <3>1. Len(s) \in Nat /\ DOMAIN s = 1 .. Len(s)
          /\ OutOfSequence(s) \subseteq 1 .. Len(s)
      BY <2>1, ClassDomains
    <3>2. s # <<>> => Len(s) \in Nat \ {0}
      BY <2>1, EmptySeq
    <3> QED BY <3>1, <3>2
  <2>4. \A c \in Counters : Reported(c) = Tally(s)[c]
    BY <2>1, <2>2, ReportedValues DEF StatisticsOf
  <2>5. \E n \in 0 .. Len(s) :
          Extremes(SubSeq(s, 1, n), Reported("latency_min"),
                   Reported("latency_max"))
    BY <2>1, <2>2, ReportedValues
  <2>6. ASSUME s # <<>>
        PROVE  /\ ReportedTime("timestamp") = s[Len(s)].at
               /\ Reported("frame_size") = Last(s[Len(s)].frame) + 1
    <3>1. s[Len(s)].at \in Times
      BY <2>1, <2>3, <2>6
    <3>2. /\ stats_reg.at = s[Len(s)].at
          /\ stats_reg.size = Last(s[Len(s)].frame) + 1
      BY <2>1, <2>6 DEF StatisticsOf
    <3>3. ReportedTime("timestamp") = s[Len(s)].at
      BY <2>2, <3>1, <3>2, ReportedValues, TimesSurvive DEF ReportedTime
    <3> QED BY <2>2, <3>2, <3>3, ReportedValues
  <2>7. ASSUME Reported("sequence_errors") # 0
        PROVE  LET e == s[Max(OutOfSequence(s))]
               IN  /\ Reported("error_received") = e.frame.seq
                   /\ ReportedTime("error_timestamp") = e.at
    <3> DEFINE e == s[Max(OutOfSequence(s))]
    <3>1. Reported("sequence_errors") = Cardinality(OutOfSequence(s))
      BY <2>4, TallyFields DEF Counters
    <3>2. OutOfSequence(s) # {}
      BY <2>7, <3>1, FS_EmptySet
    <3>3. Max(OutOfSequence(s)) \in DOMAIN s
      BY <2>3, <3>2, MaxOfPositions
    <3>4. /\ e.at \in Times /\ stats_reg.error.at = e.at
          /\ stats_reg.error.received = e.frame.seq
      BY <2>1, <3>2, <3>3 DEF ErrorOf
    <3> HIDE DEF e
    <3>5. ReportedTime("error_timestamp") = e.at
      BY <2>2, <3>4, ReportedValues, TimesSurvive DEF ReportedTime
    <3>6. Reported("error_received") = e.frame.seq
      BY <2>2, <3>4, ReportedValues
    <3> QED BY <3>5, <3>6 DEF e
  <2> QED BY <2>1, <2>4, <2>5, <2>6, <2>7
<1> QED BY <1>1, ToolHolds, ToolPicture, ToolInvariant, PTL

(***************************************************************************)
(* The capture in such a report is, octet for octet, the frame whose size  *)
(* and time the report gives: the words are read one by one from a buffer  *)
(* into which frames go on arriving, and none of them is stored.  Frames   *)
(* fit in the buffer, as for CaptureWhole.                                 *)
(***************************************************************************)
THEOREM CaptureReportedAlways ==
  ASSUME BufferHolds, DigitsSurvive(Times)
  PROVE  ToolSpec => []CaptureReported
<1>1. TypeInv /\ HoldInv /\ TrackInv /\ StampInv /\ CaptureInv /\ ToolInv
      => CaptureReported
  <2> SUFFICES ASSUME TypeInv, HoldInv, TrackInv, StampInv, CaptureInv,
                      ToolInv, Complete, steady, ~partial,
                      Reported("frame_size") > 0
               PROVE  \E i \in DOMAIN seen :
                 /\ ReportedTime("timestamp") = seen[i].at
                 /\ \A k \in 0 .. (Reported("frame_size") - 1) :
                      words[k \div Lanes + 1][k % Lanes] = <<seen[i].number, k>>
    BY DEF CaptureReported
  <2>1. CapturingInv /\ pc = "capture" /\ Len(words) = WordsWanted
    BY DEF ToolInv, Complete
  <2>2. Reported("frame_size") = stats_reg.size /\ stats_reg.size \in Nat
    BY <2>1, ReportedValues DEF TypeInv, StatisticsTypes
  <2>3. PICK i \in DOMAIN seen : Captured(i)
    <3>1. holding
      BY <2>1 DEF CapturingInv, Frozen
    <3>2. ~Capturing
      BY <3>1 DEF HoldInv, Capturing
    <3> QED BY <2>2, <3>2 DEF CaptureInv, KeptInv
  <2>4. ReportedTime("timestamp") = seen[i].at
    <3>1. stats_reg.at = seen[i].at /\ seen[i].at \in Times
      BY <2>3 DEF Captured, StampInv
    <3> QED BY <2>1, <3>1, ReportedValues, TimesSurvive DEF ReportedTime
  <2>5. ASSUME NEW k \in 0 .. (Reported("frame_size") - 1)
        PROVE  words[k \div Lanes + 1][k % Lanes] = <<seen[i].number, k>>
    <3> DEFINE q == k \div Lanes
    <3>1. mem[q % Words][k % Lanes] = <<seen[i].number, k>>
      BY <2>2, <2>3 DEF Captured, Stored
    <3>2. q \in Nat /\ q + 1 \in 1 .. Len(words)
      BY <2>1, <2>2 DEF WordsWanted, Lanes
    <3> HIDE DEF q
    <3>3. words[q + 1] = mem[(q + 1 - 1) % Words] /\ q + 1 - 1 = q
      BY <2>1, <3>2, SteadyReport
    <3>4. words[q + 1][k % Lanes] = <<seen[i].number, k>>
      BY <3>1, <3>3
    <3> QED BY <3>4 DEF q
  <2> QED BY <2>3, <2>4, <2>5
<1> QED BY <1>1, ToolHolds, ToolStamp, ToolCapture, ToolInvariant, PTL
=============================================================================
