---------------------------- MODULE DateAndTime ----------------------------
(***************************************************************************)
(* lib/sw/lsi/common/yang-date-and-time.c: a time of the real-time clock,  *)
(* [sec, nsec], as YANG date-and-time text and back.                       *)
(*                                                                         *)
(* The text is a record of what its characters say: the broken-down time   *)
(* (the date as a day number), the digits of the fraction, <<>> where the  *)
(* text has none, and the character at its end.  NsecDigits is 9.          *)
(***************************************************************************)
EXTENDS Integers, Sequences

CONSTANT NsecDigits

Error == [sec |-> -1, nsec |-> -1]

\* gmtime_r and mktime with TZ=UTC.
gmtime(sec) ==
  [day |-> sec \div 86400, hour |-> (sec \div 3600) % 24,
   min |-> (sec \div 60) % 60, sec |-> sec % 60]
mktime(tm) == ((tm.day * 24 + tm.hour) * 60 + tm.min) * 60 + tm.sec

\* %09u.
Digits(n) == [i \in 1..NsecDigits |-> (n \div 10^(NsecDigits - i)) % 10]
\* %u, for a number below ten: the digit alone.
Unpadded(t) ==
  [tm |-> gmtime(t.sec), end |-> "Z",
   fraction |-> IF t.nsec < 10 THEN <<t.nsec>> ELSE Digits(t.nsec)]

ieee_1588_to_yang_date_and_time(t) ==
  [tm |-> gmtime(t.sec), fraction |-> Digits(t.nsec), end |-> "Z"]

\* atoi of the digits, left-aligned over zeros.
Value[digits \in Seq(0..9)] ==
  IF digits = <<>> THEN 0
  ELSE 10 * Value[SubSeq(digits, 1, Len(digits) - 1)] + digits[Len(digits)]
LeftAligned(digits) ==
  [i \in 1..NsecDigits |-> IF i <= Len(digits) THEN digits[i] ELSE 0]

yang_date_and_time_to_ieee_1588(text) ==
  IF text.end # "Z" THEN Error
  ELSE [sec |-> mktime(text.tm), nsec |-> Value[LeftAligned(text.fraction)]]

\* The digits of a fraction give back the fraction: as many of them as 10^9
\* has zeros, and atoi starts from as many.
DigitsSurvive(times) ==
  \A t \in times : Value[LeftAligned(Digits(t.nsec))] = t.nsec
=============================================================================
