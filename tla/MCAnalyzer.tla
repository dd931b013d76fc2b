----------------------------- MODULE MCAnalyzer -----------------------------
(***************************************************************************)
(* AnalyzerLine for TLC: small frames of every kind the receiver tells     *)
(* apart, with the start delimiter accepted at index 2 or 3 and testframes *)
(* recognised by their second octet.                                       *)
(***************************************************************************)
EXTENDS AnalyzerLine

At(s, ns) == [sec |-> s, nsec |-> ns]

Frame(preamble, octets, good, test, seq, sent) ==
  [preamble |-> preamble, octets |-> octets, good |-> good, test |-> test,
   seq |-> seq, sent |-> sent]

Long == <<"55", "55", "55", "d5">>
Short == <<"55", "55", "d5">>

\* A testframe sent at 0.3 s with sequence number n.
TestFrame(n) == Frame(Long, 2, TRUE, TRUE, n, At(0, 3))

\* Malformed preambles: no 0x55 at all, delimiter too early, too late, a
\* wrong octet, nothing but 0x55.
Malformed ==
  {Frame(<<"d5">>, 1, FALSE, FALSE, 0, Zero),
   Frame(<<"55", "d5">>, 1, FALSE, FALSE, 0, Zero),
   Frame(<<"55", "55", "55", "55", "d5">>, 1, TRUE, FALSE, 0, Zero),
   Frame(<<"55", "55", "other", "d5">>, 1, TRUE, FALSE, 0, Zero),
   Frame(<<"55", "55", "55">>, 0, FALSE, FALSE, 0, Zero)}

Damaged == {Frame(Short, 2, FALSE, TRUE, 1, At(0, 3))}
Ordinary == {Frame(Short, 2, TRUE, FALSE, 0, Zero)}

AllFrames == {TestFrame(0), TestFrame(1)} \cup Malformed \cup Damaged
               \cup Ordinary
FewFrames == {TestFrame(0)} \cup Ordinary

\* Received in the same second, and in the next one, with and without borrow.
RxTimes == {At(0, 4), At(1, 1)}
OneTime == {At(1, 1)}
=============================================================================
