--------------------------- MODULE MCAnalyzerTool ---------------------------
(***************************************************************************)
(* AnalyzerTool for TLC: testframes, the second out of sequence, and an    *)
(* ordinary frame that is longer than a word of the capture buffer.        *)
(***************************************************************************)
EXTENDS AnalyzerTool

At(s, ns) == [sec |-> s, nsec |-> ns]

Frame(preamble, octets, test, seq, sent) ==
  [preamble |-> preamble, octets |-> octets, good |-> TRUE, test |-> test,
   seq |-> seq, sent |-> sent]

Short == <<"55", "55", "d5">>
FewFrames ==
  {Frame(Short, 2, TRUE, 2, At(0, 90)), Frame(Short, 1, FALSE, 0, Zero)}

\* A time whose fraction begins with a zero.
RxTimes == {At(1, 4)}

\* What the proofs about the report take for granted, at every time there is.
ASSUME EveryFraction == DigitsSurvive(Time)
=============================================================================
