------------------------ MODULE GeneratorToolProofs ------------------------
(***************************************************************************)
(* Proofs about traffic-generator-gmii, for every register width, buffer   *)
(* size and set of options: the tool implements GeneratorService, and the  *)
(* frame in the buffer is the one that was given.                          *)
(***************************************************************************)
EXTENDS GeneratorTool, SequenceTheorems, TLAPS

---------------------------------------------------------------------------
\* hexstr.c: what a digit stands for, and that it is printed in upper case.
LEMMA UpperDigits ==
  ASSUME NEW b \in 0..15
  PROVE  /\ HexDigits[b + 1] \in Digits
         /\ hexchar2byte(HexDigits[b + 1]) = b
         /\ Upper(HexDigits[b + 1]) = HexDigits[b + 1]
<1>1. DOMAIN HexDigits = 1..16 /\ b + 1 \in 1..16
  BY DEF HexDigits
<1>2. HexDigits[b + 1] \in Digits
  BY <1>1 DEF Digits, Range
<1>3. \A c \in 0..15 : HexDigits[c + 1] = HexDigits[b + 1] => c = b
  BY DEF HexDigits
<1>4. \A i \in 1..6 : LowerDigits[i] # HexDigits[b + 1]
  BY DEF HexDigits, LowerDigits
<1>5. hexchar2byte(HexDigits[b + 1]) = b
  <2>1. \A c \in 0..15 :
          (HexDigits[b + 1] = HexDigits[c + 1]
           \/ (c >= 10 /\ HexDigits[b + 1] = LowerDigits[c - 9])) <=> c = b
    BY <1>3, <1>4
  <2> QED BY <2>1 DEF hexchar2byte
<1>6. Upper(HexDigits[b + 1]) = HexDigits[b + 1]
  BY <1>4 DEF Upper
<1> QED BY <1>2, <1>5, <1>6

LEMMA LowerDigit ==
  ASSUME NEW j \in 1..6
  PROVE  /\ hexchar2byte(LowerDigits[j]) = j + 9
         /\ Upper(LowerDigits[j]) = HexDigits[j + 10]
<1>1. \A c \in 0..15 : LowerDigits[j] # HexDigits[c + 1]
  BY DEF HexDigits, LowerDigits
<1>2. \A i \in 1..6 : LowerDigits[i] = LowerDigits[j] <=> i = j
  BY DEF LowerDigits
<1>3. hexchar2byte(LowerDigits[j]) = j + 9
  <2>1. \A c \in 0..15 :
          (LowerDigits[j] = HexDigits[c + 1]
           \/ (c >= 10 /\ LowerDigits[j] = LowerDigits[c - 9])) <=> c = j + 9
    <3> SUFFICES ASSUME NEW c \in 0..15
                 PROVE  (c >= 10 /\ LowerDigits[j] = LowerDigits[c - 9])
                        <=> c = j + 9
      BY <1>1
    <3>1. CASE c >= 10
      <4>1. c - 9 \in 1..6
        BY <3>1
      <4>2. LowerDigits[j] = LowerDigits[c - 9] <=> c - 9 = j
        BY <1>2, <4>1
      <4> QED BY <3>1, <4>2
    <3>2. CASE ~(c >= 10)
      BY <3>2
    <3> QED BY <3>1, <3>2
  <2>2. j + 9 \in 0..15
    OBVIOUS
  <2> QED BY <2>1, <2>2 DEF hexchar2byte
<1>4. Upper(LowerDigits[j]) = HexDigits[j + 10]
  <2>1. (CHOOSE i \in 1..6 : LowerDigits[i] = LowerDigits[j]) = j
    BY <1>2
  <2>2. \E i \in 1..6 : LowerDigits[i] = LowerDigits[j]
    OBVIOUS
  <2>3. Upper(LowerDigits[j]) = HexDigits[10 + j]
    BY <2>1, <2>2 DEF Upper
  <2>4. 10 + j = j + 10
    OBVIOUS
  <2> QED BY <2>3, <2>4
<1> QED BY <1>3, <1>4

\* A digit, and that printing what it stands for gives it in upper case.
LEMMA DigitPrinted ==
  ASSUME NEW d \in Digits
  PROVE  /\ hexchar2byte(d) \in 0..15
         /\ byte2hexchar(hexchar2byte(d)) = Upper(d)
<1>1. CASE \E k \in DOMAIN HexDigits : d = HexDigits[k]
  <2>1. PICK k \in 1..16 : d = HexDigits[k]
    BY <1>1 DEF HexDigits
  <2>2. k - 1 \in 0..15 /\ (k - 1) + 1 = k
    OBVIOUS
  <2>3. hexchar2byte(d) = k - 1 /\ Upper(d) = d
    BY <2>1, <2>2, UpperDigits
  <2> QED BY <2>1, <2>2, <2>3 DEF byte2hexchar
<1>2. CASE \E k \in DOMAIN LowerDigits : d = LowerDigits[k]
  <2>1. PICK k \in 1..6 : d = LowerDigits[k]
    BY <1>2 DEF LowerDigits
  <2>2. hexchar2byte(d) = k + 9 /\ Upper(d) = HexDigits[k + 10]
    BY <2>1, LowerDigit
  <2>3. k + 9 \in 0..15 /\ (k + 9) + 1 = k + 10
    OBVIOUS
  <2> QED BY <2>2, <2>3 DEF byte2hexchar
<1> QED BY <1>1, <1>2 DEF Digits, Range
---------------------------------------------------------------------------
\* The register writes of a call, by their position.
Proper(a) == WellTyped(a) /\ Acceptable(a)
StaticSize(a) == a.frame_size - DynamicOctets(a)
Count(a) == (StaticSize(a) + 3) \div 4

\* Word m of the buffer: the preamble in the first two, then the frame.
Word(a, m) ==
  CASE m = 0 -> SubSeq(Preamble, 1, 4)
    [] m = 1 -> SubSeq(Preamble, 5, 8)
    [] OTHER -> Packed(FrameData(a), StaticSize(a), m - 2)

Controls == [run : BOOLEAN, timestamp : BOOLEAN]
Values == Nat \cup [1..4 -> Nat] \cup Controls
Registers ==
  {"interframe_gap", "interburst_gap", "frames_per_burst", "frame_size",
   "frame_buf_address", "frame_buf", "total_msb", "total_lsb", "control"}
Entries == [reg : Registers, value : Values]
Entry(r, v) == [reg |-> r, value |-> v]

LEMMA Sizes ==
  ASSUME NEW a, Proper(a)
  PROVE  /\ a.frame_size \in Nat /\ DynamicOctets(a) \in Nat
         /\ StaticSize(a) \in Nat /\ StaticSize(a) <= a.frame_size
         /\ Count(a) \in Nat /\ StaticSize(a) <= 4 * Count(a)
         /\ Count(a) + 2 <= Words /\ Words \in Nat
<1>1. /\ a.frame_size \in Nat /\ DynamicOctets(a) \in Nat /\ Words \in Nat
      /\ a.frame_size >= DynamicOctets(a)
      /\ a.frame_size - DynamicOctets(a) + 8 <= 4 * Words
  BY GeneratorToolAssumption
  DEF Proper, WellTyped, Acceptable, DynamicOctets, Preamble
<1> QED BY <1>1 DEF StaticSize, Count

LEMMA PreambleWords ==
  /\ Len(Preamble) = 8
  /\ SubSeq(Preamble, 1, 4) = <<85, 85, 85, 85>>
  /\ SubSeq(Preamble, 5, 8) = <<85, 85, 85, 213>>
  /\ SubSeq(Preamble, 1, 4) \in [1..4 -> Nat]
  /\ SubSeq(Preamble, 5, 8) \in [1..4 -> Nat]
<1>1. Preamble \in Seq(Nat) /\ Len(Preamble) = 8
  BY DEF Preamble
<1>2. SubSeq(Preamble, 1, 4) = [i \in 1..4 |-> Preamble[i]]
  <2>1. SubSeq(Preamble, 1, 4) = [i \in 1..4 |-> Preamble[1 + i - 1]]
    BY <1>1
  <2>2. \A i \in 1..4 : 1 + i - 1 = i
    OBVIOUS
  <2> QED BY <2>1, <2>2
<1>3. SubSeq(Preamble, 5, 8) = [i \in 1..4 |-> Preamble[5 + i - 1]]
  BY <1>1
<1>4. SubSeq(Preamble, 1, 4) = <<85, 85, 85, 85>>
  <2>1. /\ Preamble[1] = 85 /\ Preamble[2] = 85
        /\ Preamble[3] = 85 /\ Preamble[4] = 85
    BY DEF Preamble
  <2> DEFINE s == SubSeq(Preamble, 1, 4)
  <2>2. s \in Seq(Nat) /\ Len(s) = 4
    <3>1. \A i \in 1..4 : Preamble[i] \in Nat
      BY <2>1
    <3> QED BY <3>1, SubSeqProperties
  <2>3. s[1] = 85 /\ s[2] = 85 /\ s[3] = 85 /\ s[4] = 85
    BY <1>2, <2>1
  <2> HIDE DEF s
  <2>4. s = <<85, 85, 85, 85>>
    BY <2>2, <2>3
  <2> QED BY <2>4 DEF s
<1>5. SubSeq(Preamble, 5, 8) = <<85, 85, 85, 213>>
  <2>1. /\ Preamble[5] = 85 /\ Preamble[6] = 85
        /\ Preamble[7] = 85 /\ Preamble[8] = 213
    BY DEF Preamble
  <2> DEFINE s == SubSeq(Preamble, 5, 8)
  <2>2. s \in Seq(Nat) /\ Len(s) = 4
    <3>1. \A i \in 5..8 : Preamble[i] \in Nat
      BY <2>1
    <3> QED BY <3>1, SubSeqProperties
  <2>3. s[1] = 85 /\ s[2] = 85 /\ s[3] = 85 /\ s[4] = 213
    BY <1>3, <2>1
  <2> HIDE DEF s
  <2>4. s = <<85, 85, 85, 213>>
    BY <2>2, <2>3
  <2> QED BY <2>4 DEF s
<1> QED BY <1>1, <1>4, <1>5

\* malloc, memset and hexstr2bin leave octets.
LEMMA DataTypes ==
  ASSUME NEW a, Proper(a)
  PROVE  /\ FrameData(a) \in [1..a.frame_size -> Nat]
         /\ \A i \in 1..(Len(a.frame_data) \div 2) : i <= a.frame_size =>
              FrameData(a)[i] = 16 * hexchar2byte(a.frame_data[2 * i - 1])
                                + hexchar2byte(a.frame_data[2 * i])
<1> DEFINE d == a.frame_data
           n == Len(d) \div 2
<1>1. d \in Seq(Digits) /\ Len(d) \in Nat /\ n \in Nat /\ 2 * n <= Len(d)
  <2>1. d \in Seq(Digits)
    BY DEF Proper, WellTyped
  <2>2. Len(d) \in Nat
    BY <2>1
  <2>3. \A k \in Nat : k \div 2 \in Nat /\ 2 * (k \div 2) <= k
    OBVIOUS
  <2> QED BY <2>1, <2>2, <2>3
<1>2. Len(hexstr2bin(d)) = n
  BY <1>1 DEF hexstr2bin
<1>3. ASSUME NEW i \in 1..n
      PROVE  /\ hexstr2bin(d)[i] = 16 * hexchar2byte(d[2 * i - 1])
                                   + hexchar2byte(d[2 * i])
             /\ hexstr2bin(d)[i] \in Nat
  <2>1. 2 * i - 1 \in 1..Len(d) /\ 2 * i \in 1..Len(d)
    <3> HIDE DEF d, n
    <3> QED BY <1>1
  <2>2. d[2 * i - 1] \in Digits /\ d[2 * i] \in Digits
    BY <1>1, <2>1
  <2>3. hexchar2byte(d[2 * i - 1]) \in 0..15 /\ hexchar2byte(d[2 * i]) \in 0..15
    BY <2>2, DigitPrinted
  <2>4. hexstr2bin(d)[i] = 16 * hexchar2byte(d[2 * i - 1])
                           + hexchar2byte(d[2 * i])
    BY DEF hexstr2bin
  <2>5. \A x, y \in 0..15 : 16 * x + y \in Nat
    OBVIOUS
  <2> QED BY <2>3, <2>4, <2>5
<1>4. FrameData(a) = [i \in 1..a.frame_size |->
                        IF i <= n THEN hexstr2bin(d)[i] ELSE 0]
  BY <1>2 DEF FrameData
<1>5. a.frame_size \in Nat
  BY Sizes
<1> HIDE DEF d, n
<1>6. ASSUME NEW i \in 1..a.frame_size PROVE FrameData(a)[i] \in Nat
  <2>1. CASE i <= n
    BY <1>1, <1>3, <1>4, <1>5, <2>1
  <2>2. CASE ~(i <= n)
    BY <1>4, <2>2
  <2> QED BY <2>1, <2>2
<1>7. FrameData(a) \in [1..a.frame_size -> Nat]
  BY <1>4, <1>6
<1>8. \A i \in 1..n : i <= a.frame_size =>
         FrameData(a)[i] = 16 * hexchar2byte(d[2 * i - 1])
                           + hexchar2byte(d[2 * i])
  <2> SUFFICES ASSUME NEW i \in 1..n, i <= a.frame_size
               PROVE  FrameData(a)[i] = 16 * hexchar2byte(d[2 * i - 1])
                                        + hexchar2byte(d[2 * i])
    OBVIOUS
  <2>1. i \in 1..a.frame_size /\ i <= n
    BY <1>1, <1>5
  <2> QED BY <1>3, <1>4, <2>1
<1> QED BY <1>7, <1>8 DEF d, n

LEMMA WordType ==
  ASSUME NEW a, Proper(a), NEW m \in 0..(Count(a) + 1)
  PROVE  Word(a, m) \in [1..4 -> Nat]
<1>1. CASE m = 0 \/ m = 1
  BY <1>1, PreambleWords DEF Word
<1>2. CASE m # 0 /\ m # 1
  <2>1. /\ StaticSize(a) \in Nat /\ StaticSize(a) <= a.frame_size
        /\ a.frame_size \in Nat /\ m \in Nat /\ m >= 2
    BY <1>2, Sizes
  <2>2. FrameData(a) \in [1..a.frame_size -> Nat]
    BY DataTypes
  <2>3. Word(a, m) = Packed(FrameData(a), StaticSize(a), m - 2)
    BY <1>2 DEF Word
  <2>4. ASSUME NEW lane \in 1..4
        PROVE  (IF 4 * (m - 2) + lane <= StaticSize(a)
                  THEN FrameData(a)[4 * (m - 2) + lane] ELSE 0) \in Nat
    <3>1. CASE 4 * (m - 2) + lane <= StaticSize(a)
      <4>1. 4 * (m - 2) + lane \in 1..a.frame_size
        BY <2>1, <3>1
      <4> QED BY <2>2, <3>1, <4>1
    <3>2. CASE ~(4 * (m - 2) + lane <= StaticSize(a))
      BY <3>2
    <3> QED BY <3>1, <3>2
  <2> QED BY <2>3, <2>4 DEF Packed
<1> QED BY <1>1, <1>2
LEMMA Concat ==
  ASSUME NEW s \in Seq(Entries), NEW t \in Seq(Entries)
  PROVE  /\ s \o t \in Seq(Entries) /\ Len(s) \in Nat /\ Len(t) \in Nat
         /\ Len(s \o t) = Len(s) + Len(t)
         /\ \A i \in 1..Len(s) : (s \o t)[i] = s[i]
         /\ \A i \in 1..Len(t) : (s \o t)[Len(s) + i] = t[i]
<1>1. Len(s) \in Nat /\ Len(t) \in Nat
  OBVIOUS
<1>2. /\ s \o t \in Seq(Entries) /\ Len(s \o t) = Len(s) + Len(t)
      /\ \A i \in 1..(Len(s) + Len(t)) :
           (s \o t)[i] = IF i <= Len(s) THEN s[i] ELSE t[i - Len(s)]
  BY ConcatProperties
<1>3. ASSUME NEW i \in 1..Len(s) PROVE (s \o t)[i] = s[i]
  BY <1>1, <1>2
<1>4. ASSUME NEW i \in 1..Len(t) PROVE (s \o t)[Len(s) + i] = t[i]
  <2>1. /\ Len(s) + i \in 1..(Len(s) + Len(t)) /\ ~(Len(s) + i <= Len(s))
        /\ Len(s) + i - Len(s) = i
    BY <1>1
  <2> QED BY <1>2, <2>1
<1> QED BY <1>1, <1>2, <1>3, <1>4

LEMMA OneWrite ==
  ASSUME NEW r \in Registers, NEW v \in Values
  PROVE  /\ Write(r, v) \in Seq(Entries) /\ Len(Write(r, v)) = 1
         /\ Write(r, v)[1] = Entry(r, v)
<1>1. Entry(r, v) \in Entries
  BY DEF Entry, Entries
<1>2. Write(r, v) = <<Entry(r, v)>>
  BY DEF Write, Entry
<1>3. \A e \in Entries :
        <<e>> \in Seq(Entries) /\ Len(<<e>>) = 1 /\ <<e>>[1] = e
  OBVIOUS
<1> QED BY <1>1, <1>2, <1>3

\* One more write at the end.
LEMMA AndThen ==
  ASSUME NEW s \in Seq(Entries), NEW r \in Registers, NEW v \in Values
  PROVE  /\ s \o Write(r, v) \in Seq(Entries)
         /\ Len(s \o Write(r, v)) = Len(s) + 1
         /\ \A i \in 1..Len(s) : (s \o Write(r, v))[i] = s[i]
         /\ (s \o Write(r, v))[Len(s) + 1] = Entry(r, v)
<1> DEFINE t == Write(r, v)
<1>1. t \in Seq(Entries) /\ Len(t) = 1 /\ t[1] = Entry(r, v)
  BY OneWrite
<1> HIDE DEF t
<1>2. /\ s \o t \in Seq(Entries) /\ Len(s \o t) = Len(s) + Len(t)
      /\ \A i \in 1..Len(s) : (s \o t)[i] = s[i]
      /\ \A i \in 1..Len(t) : (s \o t)[Len(s) + i] = t[i]
  BY <1>1, Concat
<1>3. (s \o t)[Len(s) + 1] = t[1]
  BY <1>1, <1>2
<1> QED BY <1>1, <1>2, <1>3 DEF t

LEMMA WordWrites ==
  ASSUME NEW x \in Nat, NEW w \in [1..4 -> Nat]
  PROVE  /\ WriteWord(x, w) \in Seq(Entries) /\ Len(WriteWord(x, w)) = 2
         /\ WriteWord(x, w)[1] = Entry("frame_buf_address", x)
         /\ WriteWord(x, w)[2] = Entry("frame_buf", w)
<1>1. /\ x \in Values /\ w \in Values
      /\ "frame_buf_address" \in Registers /\ "frame_buf" \in Registers
  <2>1. x \in Values /\ w \in Values
    BY DEF Values
  <2>2. "frame_buf_address" \in Registers /\ "frame_buf" \in Registers
    BY DEF Registers
  <2> QED BY <2>1, <2>2
<1> DEFINE s == Write("frame_buf_address", x)
<1>2. /\ s \in Seq(Entries) /\ Len(s) = 1
      /\ s[1] = Entry("frame_buf_address", x)
  BY <1>1, OneWrite
<1> HIDE DEF s
<1>3. 1 \in 1..Len(s) /\ Len(s) + 1 = 2
  BY <1>2
<1>4. /\ s \o Write("frame_buf", w) \in Seq(Entries)
      /\ Len(s \o Write("frame_buf", w)) = 2
      /\ (s \o Write("frame_buf", w))[1] = s[1]
      /\ (s \o Write("frame_buf", w))[2] = Entry("frame_buf", w)
  <2>1. /\ s \o Write("frame_buf", w) \in Seq(Entries)
        /\ Len(s \o Write("frame_buf", w)) = Len(s) + 1
        /\ \A i \in 1..Len(s) : (s \o Write("frame_buf", w))[i] = s[i]
        /\ (s \o Write("frame_buf", w))[Len(s) + 1] = Entry("frame_buf", w)
    BY <1>1, <1>2, AndThen
  <2> QED BY <1>3, <2>1
<1> QED BY <1>2, <1>4 DEF WriteWord, s

LEMMA FrameWriteList ==
  ASSUME NEW a, Proper(a)
  PROVE  /\ FrameWrites(a) \in Seq(Entries)
         /\ Len(FrameWrites(a)) = 2 * Count(a)
         /\ \A k \in 0..(Count(a) - 1) :
              /\ FrameWrites(a)[2 * k + 1] = Entry("frame_buf_address", k + 2)
              /\ FrameWrites(a)[2 * k + 2] = Entry("frame_buf", Word(a, k + 2))
<1> DEFINE c == Count(a)
           write == [k \in 0..(c - 1) |->
             WriteWord(2 + k, Packed(FrameData(a), StaticSize(a), k))]
           f(n) == IF n % 2 = 1 THEN write[n \div 2][1]
                                ELSE write[n \div 2 - 1][2]
<1>1. c \in Nat
  BY Sizes
<1>2. FrameWrites(a) = [n \in 1..(2 * c) |-> f(n)]
  BY DEF FrameWrites, Count, StaticSize
<1>3. ASSUME NEW k \in 0..(c - 1)
      PROVE  /\ write[k][1] = Entry("frame_buf_address", k + 2)
             /\ write[k][2] = Entry("frame_buf", Word(a, k + 2))
             /\ write[k][1] \in Entries /\ write[k][2] \in Entries
  <2>1. k + 2 \in 0..(c + 1) /\ k + 2 \in Nat /\ k + 2 - 2 = k /\ 2 + k = k + 2
        /\ k + 2 # 0 /\ k + 2 # 1
    BY <1>1
  <2>2. Word(a, k + 2) \in [1..4 -> Nat]
    BY <2>1, WordType
  <2>3. Word(a, k + 2) = Packed(FrameData(a), StaticSize(a), k)
    BY <2>1 DEF Word
  <2>4. write[k] = WriteWord(k + 2, Word(a, k + 2))
    BY <2>1, <2>3
  <2>5. /\ write[k] \in Seq(Entries) /\ Len(write[k]) = 2
        /\ write[k][1] = Entry("frame_buf_address", k + 2)
        /\ write[k][2] = Entry("frame_buf", Word(a, k + 2))
    BY <2>1, <2>2, <2>4, WordWrites
  <2> HIDE DEF write
  <2> QED BY <2>5
<1> HIDE DEF c, write
<1>4. ASSUME NEW n \in 1..(2 * c) PROVE f(n) \in Entries
  <2>1. CASE n % 2 = 1
    <3>1. n \div 2 \in 0..(c - 1)
      BY <1>1, <2>1
    <3> QED BY <1>3, <2>1, <3>1
  <2>2. CASE n % 2 # 1
    <3>1. n \div 2 - 1 \in 0..(c - 1)
      BY <1>1, <2>2
    <3> QED BY <1>3, <2>2, <3>1
  <2> QED BY <2>1, <2>2
<1>5. ASSUME NEW k \in 0..(c - 1)
      PROVE  f(2 * k + 1) = write[k][1] /\ f(2 * k + 2) = write[k][2]
             /\ 2 * k + 1 \in 1..(2 * c) /\ 2 * k + 2 \in 1..(2 * c)
  <2>1. /\ (2 * k + 1) % 2 = 1 /\ (2 * k + 1) \div 2 = k
        /\ (2 * k + 2) % 2 = 0 /\ (2 * k + 2) \div 2 - 1 = k
        /\ 2 * k + 1 \in 1..(2 * c) /\ 2 * k + 2 \in 1..(2 * c)
    BY <1>1
  <2> QED BY <2>1
<1> HIDE DEF f
<1>6. FrameWrites(a) \in Seq(Entries) /\ Len(FrameWrites(a)) = 2 * c
  BY <1>1, <1>2, <1>4
<1>7. \A k \in 0..(c - 1) :
        /\ FrameWrites(a)[2 * k + 1] = Entry("frame_buf_address", k + 2)
        /\ FrameWrites(a)[2 * k + 2] = Entry("frame_buf", Word(a, k + 2))
  BY <1>2, <1>3, <1>5
<1> QED BY <1>6, <1>7 DEF c
\* The i-th register write of a call.
Gaps(a) ==
  <<Entry("interframe_gap", (a.interframe_gap - 8) % Mod32),
    Entry("interburst_gap", (a.interburst_gap - 8) % Mod32),
    Entry("frames_per_burst", a.frames_per_burst),
    Entry("frame_size", StaticSize(a) + 8)>>
Start(a) == Entry("control", [run |-> TRUE, timestamp |-> Dynamic(a)])
Msb(a) == Entry("total_msb", a.total_frames \div Mod32)
Lsb(a) == Entry("total_lsb", a.total_frames % Mod32)

LEMMA ValuesWritten ==
  ASSUME NEW a, Proper(a)
  PROVE  /\ (a.interframe_gap - 8) % Mod32 \in Values
         /\ (a.interburst_gap - 8) % Mod32 \in Values
         /\ a.frames_per_burst \in Values
         /\ a.frame_size + 8 - DynamicOctets(a) = StaticSize(a) + 8
         /\ StaticSize(a) + 8 \in Values
         /\ a.total_frames \div Mod32 \in Values
         /\ a.total_frames % Mod32 \in Values
         /\ [run |-> TRUE, timestamp |-> Dynamic(a)] \in Values
         /\ \A r \in {"interframe_gap", "interburst_gap", "frames_per_burst",
                      "frame_size", "total_msb", "total_lsb", "control"} :
              r \in Registers
<1>1. /\ a.interframe_gap \in Nat /\ a.interburst_gap \in Nat
      /\ a.frames_per_burst \in Nat /\ a.total_frames \in Nat
      /\ Mod32 \in Nat /\ Mod32 > 0
  BY GeneratorToolAssumption DEF Proper, WellTyped
<1>2. \A x \in Int : x % Mod32 \in Nat
  BY <1>1
<1>3. a.total_frames \div Mod32 \in Nat
  BY <1>1
<1>4. a.frame_size + 8 - DynamicOctets(a) = StaticSize(a) + 8
      /\ StaticSize(a) + 8 \in Nat
  BY Sizes DEF StaticSize
<1>5. /\ (a.interframe_gap - 8) % Mod32 \in Nat
      /\ (a.interburst_gap - 8) % Mod32 \in Nat
      /\ a.total_frames % Mod32 \in Nat
  BY <1>1, <1>2
<1>6. [run |-> TRUE, timestamp |-> Dynamic(a)] \in Controls
  BY DEF Controls, Dynamic
<1>7. \A v : v \in Nat \/ v \in Controls => v \in Values
  BY DEF Values
<1>8. \A r \in {"interframe_gap", "interburst_gap", "frames_per_burst",
                "frame_size", "total_msb", "total_lsb", "control"} :
        r \in Registers
  BY DEF Registers
<1> QED BY <1>1, <1>3, <1>4, <1>5, <1>6, <1>7, <1>8

LEMMA PreambleWriteList ==
  ASSUME NEW a
  PROVE  /\ PreambleWrites \in Seq(Entries) /\ Len(PreambleWrites) = 4
         /\ PreambleWrites[1] = Entry("frame_buf_address", 0)
         /\ PreambleWrites[2] = Entry("frame_buf", Word(a, 0))
         /\ PreambleWrites[3] = Entry("frame_buf_address", 1)
         /\ PreambleWrites[4] = Entry("frame_buf", Word(a, 1))
<1> DEFINE s == WriteWord(0, SubSeq(Preamble, 1, 4))
           t == WriteWord(1, SubSeq(Preamble, 5, 8))
<1>1. Word(a, 0) = SubSeq(Preamble, 1, 4) /\ Word(a, 1) = SubSeq(Preamble, 5, 8)
  BY DEF Word
<1>2. /\ s \in Seq(Entries) /\ Len(s) = 2
      /\ s[1] = Entry("frame_buf_address", 0)
      /\ s[2] = Entry("frame_buf", Word(a, 0))
  <2>1. SubSeq(Preamble, 1, 4) \in [1..4 -> Nat] /\ 0 \in Nat
    BY PreambleWords
  <2>2. \A w \in [1..4 -> Nat] :
          /\ WriteWord(0, w) \in Seq(Entries) /\ Len(WriteWord(0, w)) = 2
          /\ WriteWord(0, w)[1] = Entry("frame_buf_address", 0)
          /\ WriteWord(0, w)[2] = Entry("frame_buf", w)
    BY <2>1, WordWrites
  <2> QED BY <1>1, <2>1, <2>2
<1>3. /\ t \in Seq(Entries) /\ Len(t) = 2
      /\ t[1] = Entry("frame_buf_address", 1)
      /\ t[2] = Entry("frame_buf", Word(a, 1))
  <2>1. SubSeq(Preamble, 5, 8) \in [1..4 -> Nat] /\ 1 \in Nat
    BY PreambleWords
  <2>2. \A w \in [1..4 -> Nat] :
          /\ WriteWord(1, w) \in Seq(Entries) /\ Len(WriteWord(1, w)) = 2
          /\ WriteWord(1, w)[1] = Entry("frame_buf_address", 1)
          /\ WriteWord(1, w)[2] = Entry("frame_buf", w)
    BY <2>1, WordWrites
  <2> QED BY <1>1, <2>1, <2>2
<1>4. PreambleWrites = s \o t
  BY DEF PreambleWrites
<1> HIDE DEF s, t
<1>5. /\ s \o t \in Seq(Entries) /\ Len(s \o t) = Len(s) + Len(t)
      /\ \A i \in 1..Len(s) : (s \o t)[i] = s[i]
      /\ \A i \in 1..Len(t) : (s \o t)[Len(s) + i] = t[i]
  BY <1>2, <1>3, Concat
<1>6. /\ 1 \in 1..Len(s) /\ 2 \in 1..Len(s) /\ 1 \in 1..Len(t)
      /\ 2 \in 1..Len(t) /\ Len(s) + 1 = 3 /\ Len(s) + 2 = 4
      /\ Len(s) + Len(t) = 4
  BY <1>2, <1>3
<1>7. /\ (s \o t)[1] = s[1] /\ (s \o t)[2] = s[2]
      /\ (s \o t)[3] = t[1] /\ (s \o t)[4] = t[2]
  BY <1>5, <1>6
<1> QED BY <1>2, <1>3, <1>4, <1>5, <1>6, <1>7

LEMMA GapWrites ==
  ASSUME NEW a, Proper(a)
  PROVE  LET s == Write("interframe_gap", (a.interframe_gap - 8) % Mod32)
                  \o Write("interburst_gap", (a.interburst_gap - 8) % Mod32)
                  \o Write("frames_per_burst", a.frames_per_burst)
                  \o Write("frame_size", a.frame_size + 8 - DynamicOctets(a))
         IN  /\ s \in Seq(Entries) /\ Len(s) = 4
             /\ \A i \in 1..4 : s[i] = Gaps(a)[i]
<1> DEFINE v1 == (a.interframe_gap - 8) % Mod32
           v2 == (a.interburst_gap - 8) % Mod32
           v3 == a.frames_per_burst
           v4 == a.frame_size + 8 - DynamicOctets(a)
           s1 == Write("interframe_gap", v1)
           s2 == s1 \o Write("interburst_gap", v2)
           s3 == s2 \o Write("frames_per_burst", v3)
           s4 == s3 \o Write("frame_size", v4)
<1>1. /\ v1 \in Values /\ v2 \in Values /\ v3 \in Values /\ v4 \in Values
      /\ "interframe_gap" \in Registers /\ "interburst_gap" \in Registers
      /\ "frames_per_burst" \in Registers /\ "frame_size" \in Registers
  BY ValuesWritten
<1>2. /\ Gaps(a)[1] = Entry("interframe_gap", v1)
      /\ Gaps(a)[2] = Entry("interburst_gap", v2)
      /\ Gaps(a)[3] = Entry("frames_per_burst", v3)
      /\ Gaps(a)[4] = Entry("frame_size", v4)
  BY ValuesWritten DEF Gaps
<1> HIDE DEF v1, v2, v3, v4
<1>3. s1 \in Seq(Entries) /\ Len(s1) = 1 /\ s1[1] = Gaps(a)[1]
  <2>1. /\ s1 \in Seq(Entries) /\ Len(s1) = 1
        /\ s1[1] = Entry("interframe_gap", v1)
    BY <1>1, OneWrite
  <2> QED BY <1>2, <2>1
<1> HIDE DEF s1
<1>4. s2 \in Seq(Entries) /\ Len(s2) = 2 /\ \A i \in 1..2 : s2[i] = Gaps(a)[i]
  <2>1. /\ s2 \in Seq(Entries) /\ Len(s2) = Len(s1) + 1
        /\ \A i \in 1..Len(s1) : s2[i] = s1[i]
        /\ s2[Len(s1) + 1] = Entry("interburst_gap", v2)
    <3>1. s1 \in Seq(Entries) /\ v2 \in Values /\ "interburst_gap" \in Registers
      BY <1>1, <1>3
    <3> QED BY <3>1, AndThen
  <2> HIDE DEF s2
  <2> QED BY <1>2, <1>3, <2>1
<1> HIDE DEF s2
<1>5. s3 \in Seq(Entries) /\ Len(s3) = 3 /\ \A i \in 1..3 : s3[i] = Gaps(a)[i]
  <2>1. /\ s3 \in Seq(Entries) /\ Len(s3) = Len(s2) + 1
        /\ \A i \in 1..Len(s2) : s3[i] = s2[i]
        /\ s3[Len(s2) + 1] = Entry("frames_per_burst", v3)
    <3>1. s2 \in Seq(Entries) /\ v3 \in Values /\ "frames_per_burst" \in Registers
      BY <1>1, <1>4
    <3> QED BY <3>1, AndThen
  <2> HIDE DEF s3
  <2>2. Len(s2) = 2 /\ Len(s3) = 3
    BY <1>4, <2>1
  <2>3. s3[3] = Gaps(a)[3]
    BY <1>2, <2>1, <2>2
  <2>4. \A i \in 1..2 : s3[i] = Gaps(a)[i]
    BY <1>4, <2>1, <2>2
  <2>5. \A i \in 1..3 : i = 3 \/ i \in 1..2
    OBVIOUS
  <2> QED BY <2>1, <2>2, <2>3, <2>4, <2>5
<1> HIDE DEF s3
<1>6. s4 \in Seq(Entries) /\ Len(s4) = 4 /\ \A i \in 1..4 : s4[i] = Gaps(a)[i]
  <2>1. /\ s4 \in Seq(Entries) /\ Len(s4) = Len(s3) + 1
        /\ \A i \in 1..Len(s3) : s4[i] = s3[i]
        /\ s4[Len(s3) + 1] = Entry("frame_size", v4)
    <3>1. s3 \in Seq(Entries) /\ v4 \in Values /\ "frame_size" \in Registers
      BY <1>1, <1>5
    <3> QED BY <3>1, AndThen
  <2> HIDE DEF s4
  <2>2. Len(s3) = 3 /\ Len(s4) = 4
    BY <1>5, <2>1
  <2>3. s4[4] = Gaps(a)[4]
    BY <1>2, <2>1, <2>2
  <2>4. \A i \in 1..3 : s4[i] = Gaps(a)[i]
    BY <1>5, <2>1, <2>2
  <2>5. \A i \in 1..4 : i = 4 \/ i \in 1..3
    OBVIOUS
  <2> QED BY <2>1, <2>2, <2>3, <2>4, <2>5
<1> QED BY <1>6 DEF s1, s2, s3, s4, v1, v2, v3, v4
(***************************************************************************)
(* The whole call: four registers, then the words of the buffer, each      *)
(* after its address, the two halves of the total, and control.            *)
(***************************************************************************)
LEMMA WriteList ==
  ASSUME NEW a, Proper(a), ~a.disable
  PROVE  LET W == traffic_generator_common(a)
             c == Count(a)
         IN  /\ W \in Seq(Entries) /\ Len(W) = 2 * c + 11
             /\ \A i \in 1..4 : W[i] = Gaps(a)[i]
             /\ \A m \in 0..(c + 1) :
                  /\ W[5 + 2 * m] = Entry("frame_buf_address", m)
                  /\ W[6 + 2 * m] = Entry("frame_buf", Word(a, m))
             /\ W[2 * c + 9] = Msb(a) /\ W[2 * c + 10] = Lsb(a)
             /\ W[2 * c + 11] = Start(a)
<1> DEFINE c == Count(a)
           p == PreambleWrites
           f == FrameWrites(a)
           s4 == Write("interframe_gap", (a.interframe_gap - 8) % Mod32)
                 \o Write("interburst_gap", (a.interburst_gap - 8) % Mod32)
                 \o Write("frames_per_burst", a.frames_per_burst)
                 \o Write("frame_size", a.frame_size + 8 - DynamicOctets(a))
           s5 == s4 \o p
           s6 == s5 \o f
           s7 == s6 \o Write("total_msb", a.total_frames \div Mod32)
           s8 == s7 \o Write("total_lsb", a.total_frames % Mod32)
           s9 == s8 \o ControlWrite(a)
<1>1. traffic_generator_common(a) = s9
  BY DEF traffic_generator_common, ConfigWrites
<1>2. c \in Nat
  BY Sizes
<1>3. s4 \in Seq(Entries) /\ Len(s4) = 4 /\ \A i \in 1..4 : s4[i] = Gaps(a)[i]
  BY GapWrites
<1>4. /\ p \in Seq(Entries) /\ Len(p) = 4
      /\ p[1] = Entry("frame_buf_address", 0)
      /\ p[2] = Entry("frame_buf", Word(a, 0))
      /\ p[3] = Entry("frame_buf_address", 1)
      /\ p[4] = Entry("frame_buf", Word(a, 1))
  BY PreambleWriteList
<1>5. /\ f \in Seq(Entries) /\ Len(f) = 2 * c
      /\ \A k \in 0..(c - 1) :
           /\ f[2 * k + 1] = Entry("frame_buf_address", k + 2)
           /\ f[2 * k + 2] = Entry("frame_buf", Word(a, k + 2))
  BY FrameWriteList
<1>6. /\ a.total_frames \div Mod32 \in Values
      /\ a.total_frames % Mod32 \in Values
      /\ [run |-> TRUE, timestamp |-> Dynamic(a)] \in Values
      /\ "total_msb" \in Registers /\ "total_lsb" \in Registers
      /\ "control" \in Registers
  BY ValuesWritten
<1> HIDE DEF c, p, f, s4
<1>7. /\ s5 \in Seq(Entries) /\ Len(s5) = 8
      /\ \A i \in 1..4 : s5[i] = Gaps(a)[i]
      /\ \A i \in 1..4 : s5[4 + i] = p[i]
  <2>1. /\ s5 \in Seq(Entries) /\ Len(s5) = Len(s4) + Len(p)
        /\ \A i \in 1..Len(s4) : s5[i] = s4[i]
        /\ \A i \in 1..Len(p) : s5[Len(s4) + i] = p[i]
    BY <1>3, <1>4, Concat
  <2> HIDE DEF s5
  <2> QED BY <1>3, <1>4, <2>1
<1> HIDE DEF s5
<1>8. /\ s6 \in Seq(Entries) /\ Len(s6) = 2 * c + 8
      /\ \A i \in 1..4 : s6[i] = Gaps(a)[i]
      /\ \A i \in 1..4 : s6[4 + i] = p[i]
      /\ \A i \in 1..(2 * c) : s6[8 + i] = f[i]
  <2>1. /\ s6 \in Seq(Entries) /\ Len(s6) = Len(s5) + Len(f)
        /\ \A i \in 1..Len(s5) : s6[i] = s5[i]
        /\ \A i \in 1..Len(f) : s6[Len(s5) + i] = f[i]
    BY <1>5, <1>7, Concat
  <2> HIDE DEF s6
  <2>2. Len(s6) = 2 * c + 8
    BY <1>2, <1>5, <1>7, <2>1
  <2>3. \A i \in 1..4 : s6[i] = Gaps(a)[i] /\ s6[4 + i] = p[i]
    BY <1>7, <2>1
  <2>4. \A i \in 1..(2 * c) : s6[8 + i] = f[i]
    BY <1>5, <1>7, <2>1
  <2> QED BY <2>1, <2>2, <2>3, <2>4
<1> HIDE DEF s6
<1>9. /\ s7 \in Seq(Entries) /\ Len(s7) = 2 * c + 9
      /\ \A i \in 1..(2 * c + 8) : s7[i] = s6[i]
      /\ s7[2 * c + 9] = Msb(a)
  <2>1. /\ s7 \in Seq(Entries) /\ Len(s7) = Len(s6) + 1
        /\ \A i \in 1..Len(s6) : s7[i] = s6[i]
        /\ s7[Len(s6) + 1] = Msb(a)
    <3> DEFINE v == a.total_frames \div Mod32
    <3>1. s6 \in Seq(Entries) /\ v \in Values /\ "total_msb" \in Registers
      BY <1>6, <1>8
    <3>2. Msb(a) = Entry("total_msb", v)
      BY DEF Msb
    <3> HIDE DEF v
    <3>3. s7 = s6 \o Write("total_msb", v)
      BY DEF s7, v
    <3> HIDE DEF s7
    <3> QED BY <3>1, <3>2, <3>3, AndThen
  <2>2. 2 * c + 8 + 1 = 2 * c + 9
    BY <1>2
  <2> QED BY <1>8, <2>1, <2>2
<1> HIDE DEF s7
<1>10. /\ s8 \in Seq(Entries) /\ Len(s8) = 2 * c + 10
       /\ \A i \in 1..(2 * c + 9) : s8[i] = s7[i]
       /\ s8[2 * c + 10] = Lsb(a)
  <2>1. /\ s8 \in Seq(Entries) /\ Len(s8) = Len(s7) + 1
        /\ \A i \in 1..Len(s7) : s8[i] = s7[i]
        /\ s8[Len(s7) + 1] = Lsb(a)
    <3> DEFINE v == a.total_frames % Mod32
    <3>1. s7 \in Seq(Entries) /\ v \in Values /\ "total_lsb" \in Registers
      BY <1>6, <1>9
    <3>2. Lsb(a) = Entry("total_lsb", v)
      BY DEF Lsb
    <3> HIDE DEF v
    <3>3. s8 = s7 \o Write("total_lsb", v)
      BY DEF s8, v
    <3> HIDE DEF s8
    <3> QED BY <3>1, <3>2, <3>3, AndThen
  <2>2. 2 * c + 9 + 1 = 2 * c + 10
    BY <1>2
  <2> QED BY <1>9, <2>1, <2>2
<1> HIDE DEF s8
<1>11. /\ s9 \in Seq(Entries) /\ Len(s9) = 2 * c + 11
       /\ \A i \in 1..(2 * c + 10) : s9[i] = s8[i]
       /\ s9[2 * c + 11] = Start(a)
  <2>1. /\ s9 \in Seq(Entries) /\ Len(s9) = Len(s8) + 1
        /\ \A i \in 1..Len(s8) : s9[i] = s8[i]
        /\ s9[Len(s8) + 1] = Start(a)
    BY <1>6, <1>10, AndThen DEF Start, ControlWrite
  <2>2. 2 * c + 10 + 1 = 2 * c + 11
    BY <1>2
  <2> QED BY <1>10, <2>1, <2>2
<1> HIDE DEF s9
<1>12. \A i \in 1..(2 * c + 8) : s9[i] = s6[i]
  <2> TAKE i \in 1..(2 * c + 8)
  <2>1. i \in 1..(2 * c + 9) /\ i \in 1..(2 * c + 10)
    BY <1>2
  <2> QED BY <1>9, <1>10, <1>11, <2>1
<1>13. \A i \in 1..4 : s9[i] = Gaps(a)[i]
  <2> TAKE i \in 1..4
  <2>1. i \in 1..(2 * c + 8)
    BY <1>2
  <2> QED BY <1>8, <1>12, <2>1
<1>14. ASSUME NEW m \in 0..(c + 1)
       PROVE  /\ s9[5 + 2 * m] = Entry("frame_buf_address", m)
              /\ s9[6 + 2 * m] = Entry("frame_buf", Word(a, m))
  <2>1. 5 + 2 * m \in 1..(2 * c + 8) /\ 6 + 2 * m \in 1..(2 * c + 8)
    BY <1>2
  <2>2. s9[5 + 2 * m] = s6[5 + 2 * m] /\ s9[6 + 2 * m] = s6[6 + 2 * m]
    BY <1>12, <2>1
  <2>3. CASE m = 0
    <3>1. s6[5] = p[1] /\ s6[6] = p[2]
      BY <1>8
    <3> QED BY <1>4, <2>2, <2>3, <3>1
  <2>4. CASE m = 1
    <3>1. s6[7] = p[3] /\ s6[8] = p[4]
      BY <1>8
    <3> QED BY <1>4, <2>2, <2>4, <3>1
  <2>5. CASE m # 0 /\ m # 1
    <3>1. /\ m - 2 \in 0..(c - 1)
          /\ 2 * (m - 2) + 1 \in 1..(2 * c) /\ 2 * (m - 2) + 2 \in 1..(2 * c)
          /\ 8 + (2 * (m - 2) + 1) = 5 + 2 * m
          /\ 8 + (2 * (m - 2) + 2) = 6 + 2 * m
          /\ (m - 2) + 2 = m
      BY <1>2, <2>5
    <3>2. s6[5 + 2 * m] = f[2 * (m - 2) + 1] /\ s6[6 + 2 * m] = f[2 * (m - 2) + 2]
      BY <1>8, <3>1
    <3>3. /\ f[2 * (m - 2) + 1] = Entry("frame_buf_address", m)
          /\ f[2 * (m - 2) + 2] = Entry("frame_buf", Word(a, m))
      BY <1>5, <3>1
    <3> QED BY <2>2, <3>2, <3>3
  <2> QED BY <2>3, <2>4, <2>5
<1>15. s9[2 * c + 9] = Msb(a) /\ s9[2 * c + 10] = Lsb(a)
  <2>1. /\ 2 * c + 9 \in 1..(2 * c + 9) /\ 2 * c + 9 \in 1..(2 * c + 10)
        /\ 2 * c + 10 \in 1..(2 * c + 10)
    BY <1>2
  <2> QED BY <1>9, <1>10, <1>11, <2>1
<1> QED BY <1>1, <1>11, <1>13, <1>14, <1>15 DEF c

LEMMA StopList ==
  ASSUME NEW a, a.disable
  PROVE  LET W == traffic_generator_common(a)
         IN  /\ W \in Seq(Entries) /\ Len(W) = 1
             /\ W[1] = Entry("control", [run |-> FALSE, timestamp |-> FALSE])
<1> DEFINE v == [run |-> FALSE, timestamp |-> FALSE]
<1>1. v \in Values /\ "control" \in Registers
  BY DEF Values, Controls, Registers
<1>2. traffic_generator_common(a) = Write("control", v)
  BY DEF traffic_generator_common
<1> HIDE DEF v
<1>3. /\ Write("control", v) \in Seq(Entries) /\ Len(Write("control", v)) = 1
      /\ Write("control", v)[1] = Entry("control", v)
  BY <1>1, OneWrite
<1> QED BY <1>2, <1>3 DEF v
---------------------------------------------------------------------------
(***************************************************************************)
(* The invariant.  During a call, pending is the rest of the call's list;  *)
(* what the part already written, Written of them, has left in the         *)
(* registers and in the buffer is what the list says, and a running        *)
(* generator is disturbed from the first write to the last.                *)
(***************************************************************************)
Writes == traffic_generator_common(calling[1])
Written == Len(Writes) - Len(pending)

CallInv ==
  /\ calling = <<>> => pending = <<>>
  /\ calling # <<>> =>
       /\ \E options \in OptionSets : calling = <<Arguments(options)>>
       /\ pending \in Seq(Entries) /\ Len(pending) <= Len(Writes)
       /\ \A k \in 1..Len(pending) : pending[k] = Writes[Written + k]
StateTypes ==
  /\ control_reg \in Controls /\ mixed \in BOOLEAN
  /\ mem \in [0..(Words - 1) -> [1..4 -> Nat]]
  /\ total_frames_reg = [msb |-> total_frames_reg.msb,
                         lsb |-> total_frames_reg.lsb]

RegistersWritten(a, n) ==
  /\ n >= 1 => interframe_gap_reg = (a.interframe_gap - 8) % Mod32
  /\ n >= 2 => interburst_gap_reg = (a.interburst_gap - 8) % Mod32
  /\ n >= 3 => frames_per_burst_reg = a.frames_per_burst
  /\ n >= 4 => frame_size_reg = StaticSize(a) + 8
  /\ n >= 2 * Count(a) + 9 => total_frames_reg.msb = a.total_frames \div Mod32
  /\ n >= 2 * Count(a) + 10 => total_frames_reg.lsb = a.total_frames % Mod32
BufferWritten(a, n) ==
  \A m \in 0..(Count(a) + 1) :
    /\ n = 5 + 2 * m => frame_buf_address_next = m
    /\ n >= 6 + 2 * m => mem[m] = Word(a, m)
ControlWritten(a, n) ==
  /\ n >= 1 /\ n <= 2 * Count(a) + 10 /\ control_reg.run => mixed
  /\ n = 2 * Count(a) + 11 =>
       ~mixed /\ control_reg = [run |-> TRUE, timestamp |-> Dynamic(a)]
WrittenInv ==
  calling # <<>> /\ ~calling[1].disable =>
    /\ RegistersWritten(calling[1], Written)
    /\ BufferWritten(calling[1], Written)
    /\ ControlWritten(calling[1], Written)

ToolInv == CallInv /\ StateTypes /\ WrittenInv

LEMMA ArgumentsProper ==
  ASSUME CallInv, calling # <<>>
  PROVE  Len(calling) = 1 /\ Proper(calling[1])
<1>1. PICK options \in OptionSets : calling = <<Arguments(options)>>
  BY DEF CallInv
<1>2. calling[1] = Arguments(options)
  BY <1>1
<1> QED BY <1>1, <1>2, GeneratorToolAssumption DEF Proper

LEMMA WritesType ==
  ASSUME CallInv, calling # <<>>
  PROVE  Writes \in Seq(Entries) /\ Len(Writes) \in Nat
<1>1. Proper(calling[1])
  BY ArgumentsProper
<1>2. CASE calling[1].disable
  BY <1>1, <1>2, StopList DEF Writes
<1>3. CASE ~calling[1].disable
  BY <1>1, <1>3, WriteList DEF Writes
<1> QED BY <1>2, <1>3

\* Which write comes next.
LEMMA NextWrite ==
  ASSUME CallInv, calling # <<>>, pending # <<>>,
         pending' = Tail(pending), calling' = calling
  PROVE  /\ Written \in 0..(Len(Writes) - 1)
         /\ Head(pending) = Writes[Written + 1]
         /\ CallInv' /\ Written' = Written + 1 /\ Len(Writes) \in Nat
         /\ Head(pending) \in Entries
<1>1. /\ pending \in Seq(Entries) /\ Len(pending) <= Len(Writes)
      /\ \A k \in 1..Len(pending) : pending[k] = Writes[Written + k]
      /\ Len(Writes) \in Nat
  BY WritesType DEF CallInv
<1>2. /\ Len(pending) \in Nat /\ Len(pending) >= 1
      /\ Head(pending) = pending[1] /\ Tail(pending) \in Seq(Entries)
      /\ Len(Tail(pending)) = Len(pending) - 1 /\ Head(pending) \in Entries
      /\ \A k \in 1..(Len(pending) - 1) : Tail(pending)[k] = pending[k + 1]
  BY <1>1
<1>3. Writes' = Writes
  BY DEF Writes
<1>4. Written \in 0..(Len(Writes) - 1) /\ Written' = Written + 1
  BY <1>1, <1>2, <1>3 DEF Written
<1>5. Head(pending) = Writes[Written + 1]
  BY <1>1, <1>2
<1>6. ASSUME NEW k \in 1..Len(pending')
      PROVE  pending'[k] = Writes[Written' + k]
  <2>1. k + 1 \in 1..Len(pending) /\ Written + (k + 1) = Written' + k
        /\ k \in 1..(Len(pending) - 1)
    BY <1>1, <1>2, <1>4
  <2> QED BY <1>1, <1>2, <2>1
<1>7. pending' \in Seq(Entries) /\ Len(pending') <= Len(Writes)
  BY <1>1, <1>2
<1>8. CallInv'
  BY <1>3, <1>6, <1>7 DEF CallInv
<1> QED BY <1>1, <1>2, <1>4, <1>5, <1>8

\* What a write does, by register.
LEMMA WriteEffect ==
  ASSUME IoregWrite, NEW r, NEW v, Head(pending) = Entry(r, v)
  PROVE  /\ control_reg' = IF r = "control" THEN v ELSE control_reg
         /\ interframe_gap_reg' =
              IF r = "interframe_gap" THEN v ELSE interframe_gap_reg
         /\ interburst_gap_reg' =
              IF r = "interburst_gap" THEN v ELSE interburst_gap_reg
         /\ frames_per_burst_reg' =
              IF r = "frames_per_burst" THEN v ELSE frames_per_burst_reg
         /\ frame_size_reg' = IF r = "frame_size" THEN v ELSE frame_size_reg
         /\ total_frames_reg' =
              [msb |-> IF r = "total_msb" THEN v ELSE total_frames_reg.msb,
               lsb |-> IF r = "total_lsb" THEN v ELSE total_frames_reg.lsb]
         /\ r = "frame_buf_address" => frame_buf_address_next' = v % Words
         /\ mem' = IF r = "frame_buf"
                     THEN [mem EXCEPT ![frame_buf_address_next] = v] ELSE mem
         /\ mixed' = (control_reg.run /\ r # "control")
<1>1. Head(pending).reg = r /\ Head(pending).value = v
  BY DEF Entry
<1>2. /\ control_reg' = IF r = "control" THEN v ELSE control_reg
      /\ interframe_gap_reg' =
           IF r = "interframe_gap" THEN v ELSE interframe_gap_reg
      /\ interburst_gap_reg' =
           IF r = "interburst_gap" THEN v ELSE interburst_gap_reg
      /\ frames_per_burst_reg' =
           IF r = "frames_per_burst" THEN v ELSE frames_per_burst_reg
      /\ frame_size_reg' = IF r = "frame_size" THEN v ELSE frame_size_reg
  BY <1>1 DEF IoregWrite, Set
<1>3. total_frames_reg' =
        [msb |-> IF r = "total_msb" THEN v ELSE total_frames_reg.msb,
         lsb |-> IF r = "total_lsb" THEN v ELSE total_frames_reg.lsb]
  BY <1>1 DEF IoregWrite, Set
<1>4. r = "frame_buf_address" => frame_buf_address_next' = v % Words
  BY <1>1 DEF IoregWrite
<1>5. mem' = IF r = "frame_buf"
               THEN [mem EXCEPT ![frame_buf_address_next] = v] ELSE mem
  BY <1>1 DEF IoregWrite
<1>6. mixed' = (control_reg.run /\ r # "control")
  BY <1>1 DEF IoregWrite
<1> QED BY <1>2, <1>3, <1>4, <1>5, <1>6
\* One step per part of the list.
LEMMA GapWritten ==
  ASSUME NEW a, Proper(a), NEW n \in 0..3, IoregWrite, StateTypes,
         RegistersWritten(a, n), BufferWritten(a, n), ControlWritten(a, n),
         Head(pending) = Gaps(a)[n + 1]
  PROVE  /\ StateTypes' /\ RegistersWritten(a, n + 1)'
         /\ BufferWritten(a, n + 1)' /\ ControlWritten(a, n + 1)'
<1>1. Count(a) \in Nat
  BY Sizes
<1>2. ASSUME NEW r \in {"interframe_gap", "interburst_gap",
                        "frames_per_burst", "frame_size"}, NEW v,
             Head(pending) = Entry(r, v)
      PROVE  StateTypes' /\ BufferWritten(a, n + 1)' /\ ControlWritten(a, n + 1)'
  <2>1. /\ control_reg' = control_reg /\ mem' = mem
        /\ mixed' = control_reg.run
        /\ total_frames_reg' = [msb |-> total_frames_reg.msb,
                                lsb |-> total_frames_reg.lsb]
    <3>1. control_reg' = control_reg /\ mem' = mem
      BY <1>2, WriteEffect
    <3>2. mixed' = (control_reg.run /\ r # "control")
      BY <1>2, WriteEffect
    <3>3. control_reg.run \in BOOLEAN
      BY DEF StateTypes, Controls
    <3>4. total_frames_reg' =
            [msb |-> IF r = "total_msb" THEN v ELSE total_frames_reg.msb,
             lsb |-> IF r = "total_lsb" THEN v ELSE total_frames_reg.lsb]
      BY <1>2, WriteEffect
    <3>5. r # "total_msb" /\ r # "total_lsb" /\ r # "control"
      BY <1>2
    <3> QED BY <3>1, <3>2, <3>3, <3>4, <3>5
  <2>2. control_reg.run \in BOOLEAN
    BY DEF StateTypes, Controls
  <2>3. StateTypes'
    BY <2>1, <2>2 DEF StateTypes
  <2>4. BufferWritten(a, n + 1)'
    BY <1>1 DEF BufferWritten
  <2>5. ControlWritten(a, n + 1)'
    BY <1>1, <2>1, <2>2 DEF ControlWritten
  <2> QED BY <2>3, <2>4, <2>5
<1>3. /\ Gaps(a)[1] = Entry("interframe_gap", (a.interframe_gap - 8) % Mod32)
      /\ Gaps(a)[2] = Entry("interburst_gap", (a.interburst_gap - 8) % Mod32)
      /\ Gaps(a)[3] = Entry("frames_per_burst", a.frames_per_burst)
      /\ Gaps(a)[4] = Entry("frame_size", StaticSize(a) + 8)
  BY DEF Gaps
<1>4. CASE n = 0
  <2>1. Head(pending) = Entry("interframe_gap", (a.interframe_gap - 8) % Mod32)
    BY <1>3, <1>4
  <2>2. interframe_gap_reg' = (a.interframe_gap - 8) % Mod32
    BY <2>1, WriteEffect
  <2>3. RegistersWritten(a, n + 1)'
    BY <1>1, <1>4, <2>2 DEF RegistersWritten
  <2> QED BY <1>2, <2>1, <2>3
<1>5. CASE n = 1
  <2>1. Head(pending) = Entry("interburst_gap", (a.interburst_gap - 8) % Mod32)
    BY <1>3, <1>5
  <2>2. /\ interburst_gap_reg' = (a.interburst_gap - 8) % Mod32
        /\ interframe_gap_reg' = interframe_gap_reg
    BY <2>1, WriteEffect
  <2>3. RegistersWritten(a, n + 1)'
    BY <1>1, <1>5, <2>2 DEF RegistersWritten
  <2> QED BY <1>2, <2>1, <2>3
<1>6. CASE n = 2
  <2>1. Head(pending) = Entry("frames_per_burst", a.frames_per_burst)
    BY <1>3, <1>6
  <2>2. /\ frames_per_burst_reg' = a.frames_per_burst
        /\ interframe_gap_reg' = interframe_gap_reg
        /\ interburst_gap_reg' = interburst_gap_reg
    BY <2>1, WriteEffect
  <2>3. RegistersWritten(a, n + 1)'
    BY <1>1, <1>6, <2>2 DEF RegistersWritten
  <2> QED BY <1>2, <2>1, <2>3
<1>7. CASE n = 3
  <2>1. Head(pending) = Entry("frame_size", StaticSize(a) + 8)
    BY <1>3, <1>7
  <2>2. /\ frame_size_reg' = StaticSize(a) + 8
        /\ interframe_gap_reg' = interframe_gap_reg
        /\ interburst_gap_reg' = interburst_gap_reg
        /\ frames_per_burst_reg' = frames_per_burst_reg
    BY <2>1, WriteEffect
  <2>3. RegistersWritten(a, n + 1)'
    BY <1>1, <1>7, <2>2 DEF RegistersWritten
  <2> QED BY <1>2, <2>1, <2>3
<1> QED BY <1>4, <1>5, <1>6, <1>7

\* The registers before the buffer and the total are left alone by what
\* follows them.
LEMMA RestKept ==
  ASSUME NEW a, Proper(a), NEW n \in Nat, n >= 4, IoregWrite, StateTypes,
         RegistersWritten(a, n),
         NEW r \in {"frame_buf_address", "frame_buf", "control",
                    "total_msb", "total_lsb"},
         NEW v, Head(pending) = Entry(r, v)
  PROVE  /\ interframe_gap_reg' = (a.interframe_gap - 8) % Mod32
         /\ interburst_gap_reg' = (a.interburst_gap - 8) % Mod32
         /\ frames_per_burst_reg' = a.frames_per_burst
         /\ frame_size_reg' = StaticSize(a) + 8
         /\ total_frames_reg'.msb =
              IF r = "total_msb" THEN v ELSE total_frames_reg.msb
         /\ total_frames_reg'.lsb =
              IF r = "total_lsb" THEN v ELSE total_frames_reg.lsb
         /\ total_frames_reg' = [msb |-> total_frames_reg'.msb,
                                 lsb |-> total_frames_reg'.lsb]
         /\ r # "control" => /\ control_reg' = control_reg
                             /\ mixed' = control_reg.run
         /\ control_reg.run \in BOOLEAN
         /\ r # "frame_buf" => mem' = mem
<1>1. /\ interframe_gap_reg = (a.interframe_gap - 8) % Mod32
      /\ interburst_gap_reg = (a.interburst_gap - 8) % Mod32
      /\ frames_per_burst_reg = a.frames_per_burst
      /\ frame_size_reg = StaticSize(a) + 8
  BY DEF RegistersWritten
<1>2. /\ interframe_gap_reg' = interframe_gap_reg
      /\ interburst_gap_reg' = interburst_gap_reg
      /\ frames_per_burst_reg' = frames_per_burst_reg
      /\ frame_size_reg' = frame_size_reg
      /\ r # "control" => control_reg' = control_reg
      /\ r # "frame_buf" => mem' = mem
  BY WriteEffect
<1>3. total_frames_reg' =
        [msb |-> IF r = "total_msb" THEN v ELSE total_frames_reg.msb,
         lsb |-> IF r = "total_lsb" THEN v ELSE total_frames_reg.lsb]
  BY WriteEffect
<1>4. mixed' = (control_reg.run /\ r # "control")
  BY WriteEffect
<1>5. control_reg.run \in BOOLEAN
  BY DEF StateTypes, Controls
<1>6. r # "control" => mixed' = control_reg.run
  BY <1>4, <1>5
<1>7. /\ total_frames_reg'.msb =
           IF r = "total_msb" THEN v ELSE total_frames_reg.msb
      /\ total_frames_reg'.lsb =
           IF r = "total_lsb" THEN v ELSE total_frames_reg.lsb
      /\ total_frames_reg' = [msb |-> total_frames_reg'.msb,
                              lsb |-> total_frames_reg'.lsb]
  BY <1>3
<1> QED BY <1>1, <1>2, <1>5, <1>6, <1>7
LEMMA AddressWritten ==
  ASSUME NEW a, Proper(a), NEW m \in 0..(Count(a) + 1), NEW n \in Nat,
         n = 4 + 2 * m, IoregWrite, StateTypes,
         RegistersWritten(a, n), BufferWritten(a, n), ControlWritten(a, n),
         Head(pending) = Entry("frame_buf_address", m)
  PROVE  /\ StateTypes' /\ RegistersWritten(a, n + 1)'
         /\ BufferWritten(a, n + 1)' /\ ControlWritten(a, n + 1)'
<1>1. Count(a) \in Nat /\ Count(a) + 2 <= Words /\ Words \in Nat /\ n >= 4
      /\ n <= 2 * Count(a) + 6
  BY Sizes
<1>2. /\ interframe_gap_reg' = (a.interframe_gap - 8) % Mod32
      /\ interburst_gap_reg' = (a.interburst_gap - 8) % Mod32
      /\ frames_per_burst_reg' = a.frames_per_burst
      /\ frame_size_reg' = StaticSize(a) + 8
      /\ total_frames_reg' = [msb |-> total_frames_reg'.msb,
                              lsb |-> total_frames_reg'.lsb]
      /\ control_reg' = control_reg /\ mixed' = control_reg.run
      /\ control_reg.run \in BOOLEAN /\ mem' = mem
  BY <1>1, RestKept
<1>3. frame_buf_address_next' = m
  <2>1. frame_buf_address_next' = m % Words
    BY WriteEffect
  <2>2. m % Words = m
    BY <1>1
  <2> QED BY <2>1, <2>2
<1>4. StateTypes'
  BY <1>2 DEF StateTypes
<1>5. RegistersWritten(a, n + 1)'
  BY <1>1, <1>2 DEF RegistersWritten
<1>6. BufferWritten(a, n + 1)'
  <2> SUFFICES ASSUME NEW k \in 0..(Count(a) + 1)
               PROVE  /\ n + 1 = 5 + 2 * k => frame_buf_address_next' = k
                      /\ n + 1 >= 6 + 2 * k => mem'[k] = Word(a, k)
    BY DEF BufferWritten
  <2>1. n + 1 = 5 + 2 * k => k = m
    BY <1>1
  <2>2. n + 1 >= 6 + 2 * k => n >= 6 + 2 * k
    BY <1>1
  <2> QED BY <1>2, <1>3, <2>1, <2>2 DEF BufferWritten
<1>7. ControlWritten(a, n + 1)'
  BY <1>1, <1>2 DEF ControlWritten
<1> QED BY <1>4, <1>5, <1>6, <1>7

LEMMA WordWritten ==
  ASSUME NEW a, Proper(a), NEW m \in 0..(Count(a) + 1), NEW n \in Nat,
         n = 5 + 2 * m, IoregWrite, StateTypes,
         RegistersWritten(a, n), BufferWritten(a, n), ControlWritten(a, n),
         Head(pending) = Entry("frame_buf", Word(a, m))
  PROVE  /\ StateTypes' /\ RegistersWritten(a, n + 1)'
         /\ BufferWritten(a, n + 1)' /\ ControlWritten(a, n + 1)'
<1>1. Count(a) \in Nat /\ Count(a) + 2 <= Words /\ Words \in Nat /\ n >= 4
      /\ n <= 2 * Count(a) + 7
  BY Sizes
<1>2. /\ interframe_gap_reg' = (a.interframe_gap - 8) % Mod32
      /\ interburst_gap_reg' = (a.interburst_gap - 8) % Mod32
      /\ frames_per_burst_reg' = a.frames_per_burst
      /\ frame_size_reg' = StaticSize(a) + 8
      /\ total_frames_reg' = [msb |-> total_frames_reg'.msb,
                              lsb |-> total_frames_reg'.lsb]
      /\ control_reg' = control_reg /\ mixed' = control_reg.run
      /\ control_reg.run \in BOOLEAN
  BY <1>1, RestKept
<1>3. frame_buf_address_next = m
  BY DEF BufferWritten
<1>4. Word(a, m) \in [1..4 -> Nat]
  BY WordType
<1>5. /\ mem' = [mem EXCEPT ![m] = Word(a, m)] /\ m \in 0..(Words - 1)
      /\ mem \in [0..(Words - 1) -> [1..4 -> Nat]]
  <2>1. mem' = [mem EXCEPT ![frame_buf_address_next] = Word(a, m)]
    BY WriteEffect
  <2>2. m \in 0..(Words - 1)
    BY <1>1
  <2>3. mem \in [0..(Words - 1) -> [1..4 -> Nat]]
    BY DEF StateTypes
  <2> QED BY <1>3, <2>1, <2>2, <2>3
<1>6. StateTypes'
  BY <1>2, <1>4, <1>5 DEF StateTypes
<1>7. RegistersWritten(a, n + 1)'
  BY <1>1, <1>2 DEF RegistersWritten
<1>8. BufferWritten(a, n + 1)'
  <2> SUFFICES ASSUME NEW k \in 0..(Count(a) + 1)
               PROVE  /\ n + 1 = 5 + 2 * k => frame_buf_address_next' = k
                      /\ n + 1 >= 6 + 2 * k => mem'[k] = Word(a, k)
    BY DEF BufferWritten
  <2>1. n + 1 # 5 + 2 * k
    BY <1>1
  <2>2. n + 1 >= 6 + 2 * k => k = m \/ n >= 6 + 2 * k
    BY <1>1
  <2>3. mem'[k] = IF k = m THEN Word(a, m) ELSE mem[k]
    <3>1. k \in 0..(Words - 1)
      BY <1>1
    <3> QED BY <1>5, <3>1
  <2> QED BY <2>1, <2>2, <2>3 DEF BufferWritten
<1>9. ControlWritten(a, n + 1)'
  BY <1>1, <1>2 DEF ControlWritten
<1> QED BY <1>6, <1>7, <1>8, <1>9

LEMMA TotalWritten ==
  ASSUME NEW a, Proper(a), NEW n \in Nat,
         \/ n = 2 * Count(a) + 8 /\ Head(pending) = Msb(a)
         \/ n = 2 * Count(a) + 9 /\ Head(pending) = Lsb(a),
         IoregWrite, StateTypes,
         RegistersWritten(a, n), BufferWritten(a, n), ControlWritten(a, n)
  PROVE  /\ StateTypes' /\ RegistersWritten(a, n + 1)'
         /\ BufferWritten(a, n + 1)' /\ ControlWritten(a, n + 1)'
<1>1. Count(a) \in Nat /\ n >= 8
      /\ (n = 2 * Count(a) + 8 \/ n = 2 * Count(a) + 9)
  BY Sizes
<1>2. PICK r \in {"total_msb", "total_lsb"} : \E v : Head(pending) = Entry(r, v)
  BY DEF Msb, Lsb
<1>3. PICK v : Head(pending) = Entry(r, v)
  BY <1>2
<1>4. /\ interframe_gap_reg' = (a.interframe_gap - 8) % Mod32
      /\ interburst_gap_reg' = (a.interburst_gap - 8) % Mod32
      /\ frames_per_burst_reg' = a.frames_per_burst
      /\ frame_size_reg' = StaticSize(a) + 8
      /\ total_frames_reg' = [msb |-> total_frames_reg'.msb,
                              lsb |-> total_frames_reg'.lsb]
      /\ control_reg' = control_reg /\ mixed' = control_reg.run
      /\ control_reg.run \in BOOLEAN /\ mem' = mem
  BY <1>1, <1>3, RestKept
<1>5. StateTypes'
  BY <1>4 DEF StateTypes
<1>6. RegistersWritten(a, n + 1)'
  <2>1. CASE n = 2 * Count(a) + 8 /\ Head(pending) = Msb(a)
    <3>1. total_frames_reg'.msb = a.total_frames \div Mod32
      BY <1>1, <2>1, RestKept DEF Msb
    <3> QED BY <1>1, <1>4, <2>1, <3>1 DEF RegistersWritten
  <2>2. CASE n = 2 * Count(a) + 9 /\ Head(pending) = Lsb(a)
    <3>1. /\ total_frames_reg'.lsb = a.total_frames % Mod32
          /\ total_frames_reg'.msb = total_frames_reg.msb
      BY <1>1, <2>2, RestKept DEF Lsb
    <3> QED BY <1>1, <1>4, <2>2, <3>1 DEF RegistersWritten
  <2> QED BY <2>1, <2>2
<1>7. BufferWritten(a, n + 1)'
  <2> SUFFICES ASSUME NEW k \in 0..(Count(a) + 1)
               PROVE  /\ n + 1 = 5 + 2 * k => frame_buf_address_next' = k
                      /\ n + 1 >= 6 + 2 * k => mem'[k] = Word(a, k)
    BY DEF BufferWritten
  <2>1. n + 1 # 5 + 2 * k /\ n >= 6 + 2 * k
    BY <1>1
  <2> QED BY <1>4, <2>1 DEF BufferWritten
<1>8. ControlWritten(a, n + 1)'
  BY <1>1, <1>4 DEF ControlWritten
<1> QED BY <1>5, <1>6, <1>7, <1>8

LEMMA StartWritten ==
  ASSUME NEW a, Proper(a), NEW n \in Nat, n = 2 * Count(a) + 10,
         Head(pending) = Start(a), IoregWrite, StateTypes,
         RegistersWritten(a, n), BufferWritten(a, n)
  PROVE  /\ StateTypes' /\ RegistersWritten(a, n + 1)'
         /\ BufferWritten(a, n + 1)' /\ ControlWritten(a, n + 1)'
<1> DEFINE v == [run |-> TRUE, timestamp |-> Dynamic(a)]
<1>1. Count(a) \in Nat /\ n >= 4
  BY Sizes
<1>2. Head(pending) = Entry("control", v) /\ v \in Controls
  BY DEF Start, Controls, Dynamic
<1> HIDE DEF v
<1>3. /\ interframe_gap_reg' = (a.interframe_gap - 8) % Mod32
      /\ interburst_gap_reg' = (a.interburst_gap - 8) % Mod32
      /\ frames_per_burst_reg' = a.frames_per_burst
      /\ frame_size_reg' = StaticSize(a) + 8
      /\ total_frames_reg'.msb = total_frames_reg.msb
      /\ total_frames_reg'.lsb = total_frames_reg.lsb
      /\ total_frames_reg' = [msb |-> total_frames_reg'.msb,
                              lsb |-> total_frames_reg'.lsb]
      /\ mem' = mem
  BY <1>1, <1>2, RestKept
<1>4. control_reg' = v
  BY <1>2, WriteEffect
<1>5. mixed' = FALSE
  <2>1. mixed' = (control_reg.run /\ "control" # "control")
    BY <1>2, WriteEffect
  <2> QED BY <2>1
<1>6. StateTypes'
  BY <1>2, <1>3, <1>4, <1>5 DEF StateTypes
<1>7. RegistersWritten(a, n + 1)'
  BY <1>1, <1>3 DEF RegistersWritten
<1>8. BufferWritten(a, n + 1)'
  <2> SUFFICES ASSUME NEW k \in 0..(Count(a) + 1)
               PROVE  /\ n + 1 = 5 + 2 * k => frame_buf_address_next' = k
                      /\ n + 1 >= 6 + 2 * k => mem'[k] = Word(a, k)
    BY DEF BufferWritten
  <2>1. n + 1 # 5 + 2 * k /\ n >= 6 + 2 * k
    BY <1>1
  <2> QED BY <1>3, <2>1 DEF BufferWritten
<1>9. ControlWritten(a, n + 1)'
  BY <1>1, <1>4, <1>5 DEF ControlWritten, v
<1> QED BY <1>6, <1>7, <1>8, <1>9
LEMMA StopWritten ==
  ASSUME StateTypes, IoregWrite,
         Head(pending) = Entry("control", [run |-> FALSE, timestamp |-> FALSE])
  PROVE  /\ StateTypes' /\ ~mixed'
         /\ control_reg' = [run |-> FALSE, timestamp |-> FALSE]
<1> DEFINE v == [run |-> FALSE, timestamp |-> FALSE]
<1>1. v \in Controls /\ Head(pending) = Entry("control", v)
  BY DEF Controls
<1> HIDE DEF v
<1>2. control_reg' = v /\ mem' = mem
  BY <1>1, WriteEffect
<1>3. mixed' = (control_reg.run /\ "control" # "control")
  BY <1>1, WriteEffect
<1>4. total_frames_reg' =
        [msb |-> IF "control" = "total_msb" THEN v ELSE total_frames_reg.msb,
         lsb |-> IF "control" = "total_lsb" THEN v ELSE total_frames_reg.lsb]
  BY <1>1, WriteEffect
<1>5. mixed' = FALSE
  BY <1>3
<1>6. total_frames_reg' = [msb |-> total_frames_reg'.msb,
                           lsb |-> total_frames_reg'.lsb]
  BY <1>4
<1>7. StateTypes'
  BY <1>1, <1>2, <1>5, <1>6 DEF StateTypes
<1> QED BY <1>2, <1>5, <1>7 DEF v

LEMMA WriteInv ==
  ASSUME ToolInv, IoregWrite
  PROVE  ToolInv'
<1>1. CallInv /\ StateTypes /\ WrittenInv
  BY DEF ToolInv
<1>2. /\ pending # <<>> /\ pending' = Tail(pending) /\ calling' = calling
      /\ calling # <<>>
  BY <1>1 DEF IoregWrite, CallInv
<1>3. /\ Written \in 0..(Len(Writes) - 1) /\ Len(Writes) \in Nat
      /\ Head(pending) = Writes[Written + 1]
      /\ CallInv' /\ Written' = Written + 1
  BY <1>1, <1>2, NextWrite
<1>4. PICK a : a = calling[1]
  OBVIOUS
<1>5. PICK n : n = Written
  OBVIOUS
<1>6. /\ calling[1] = a /\ calling'[1] = a /\ Proper(a)
      /\ Writes = traffic_generator_common(a)
  BY <1>1, <1>2, <1>4, ArgumentsProper DEF Writes
<1>7. CASE a.disable
  <2>1. Head(pending) = Entry("control", [run |-> FALSE, timestamp |-> FALSE])
    <3>1. Len(Writes) = 1 /\ Writes[1]
            = Entry("control", [run |-> FALSE, timestamp |-> FALSE])
      BY <1>6, <1>7, StopList
    <3>2. Written = 0
      BY <1>3, <3>1
    <3> QED BY <1>3, <3>1, <3>2
  <2>2. StateTypes'
    BY <1>1, <2>1, StopWritten
  <2>3. WrittenInv'
    BY <1>6, <1>7 DEF WrittenInv
  <2> QED BY <1>3, <2>2, <2>3 DEF ToolInv
<1>8. CASE ~a.disable
  <2> DEFINE W == traffic_generator_common(a)
             c == Count(a)
  <2>1. /\ W \in Seq(Entries) /\ Len(W) = 2 * c + 11
        /\ \A i \in 1..4 : W[i] = Gaps(a)[i]
        /\ \A m \in 0..(c + 1) :
             /\ W[5 + 2 * m] = Entry("frame_buf_address", m)
             /\ W[6 + 2 * m] = Entry("frame_buf", Word(a, m))
        /\ W[2 * c + 9] = Msb(a) /\ W[2 * c + 10] = Lsb(a)
        /\ W[2 * c + 11] = Start(a)
    BY <1>6, <1>8, WriteList
  <2>2. c \in Nat
    BY <1>6, Sizes
  <2>3. n \in 0..(2 * c + 10) /\ Head(pending) = W[n + 1] /\ Written' = n + 1
        /\ n \in Nat
    BY <1>3, <1>5, <1>6, <2>1, <2>2
  <2>4. RegistersWritten(a, n) /\ BufferWritten(a, n) /\ ControlWritten(a, n)
    BY <1>1, <1>2, <1>5, <1>6, <1>8 DEF WrittenInv
  <2> HIDE DEF W
  <2>5. /\ StateTypes' /\ RegistersWritten(a, n + 1)'
        /\ BufferWritten(a, n + 1)' /\ ControlWritten(a, n + 1)'
    <3>1. CASE n \in 0..3
      <4>1. n + 1 \in 1..4
        BY <3>1
      <4>2. Head(pending) = Gaps(a)[n + 1]
        BY <2>1, <2>3, <4>1
      <4> QED BY <1>1, <1>6, <2>4, <3>1, <4>2, GapWritten
    <3>2. CASE n \in 4..(2 * c + 7) /\ n % 2 = 0
      <4> DEFINE m == (n - 4) \div 2
      <4>1. m \in 0..(c + 1) /\ n = 4 + 2 * m /\ n + 1 = 5 + 2 * m
        BY <2>2, <3>2
      <4> HIDE DEF m
      <4>2. Head(pending) = Entry("frame_buf_address", m)
        BY <2>1, <2>3, <4>1
      <4> HIDE DEF c
      <4> QED BY <1>1, <1>6, <2>3, <2>4, <4>1, <4>2, AddressWritten DEF c
    <3>3. CASE n \in 4..(2 * c + 7) /\ n % 2 = 1
      <4> DEFINE m == (n - 5) \div 2
      <4>1. m \in 0..(c + 1) /\ n = 5 + 2 * m /\ n + 1 = 6 + 2 * m
        BY <2>2, <3>3
      <4> HIDE DEF m
      <4>2. Head(pending) = Entry("frame_buf", Word(a, m))
        BY <2>1, <2>3, <4>1
      <4> QED BY <1>1, <1>6, <2>3, <2>4, <4>1, <4>2, WordWritten
    <3>4. CASE n = 2 * c + 8 \/ n = 2 * c + 9
      <4>1. \/ n = 2 * c + 8 /\ Head(pending) = Msb(a)
            \/ n = 2 * c + 9 /\ Head(pending) = Lsb(a)
        <5>1. CASE n = 2 * c + 8
          <6>1. n + 1 = 2 * c + 9
            BY <2>2, <5>1
          <6> QED BY <2>1, <2>3, <5>1, <6>1
        <5>2. CASE n = 2 * c + 9
          <6>1. n + 1 = 2 * c + 10
            BY <2>2, <5>2
          <6> QED BY <2>1, <2>3, <5>2, <6>1
        <5> QED BY <3>4, <5>1, <5>2
      <4> QED BY <1>1, <1>6, <2>3, <2>4, <4>1, TotalWritten
    <3>5. CASE n = 2 * c + 10
      <4>1. Head(pending) = Start(a)
        BY <2>1, <2>2, <2>3, <3>5
      <4> QED BY <1>1, <1>6, <2>3, <2>4, <3>5, <4>1, StartWritten
    <3>6. n % 2 = 0 \/ n % 2 = 1
      BY <2>3
    <3> QED BY <2>2, <2>3, <3>1, <3>2, <3>3, <3>4, <3>5, <3>6
  <2>6. WrittenInv'
    BY <1>6, <2>3, <2>5 DEF WrittenInv
  <2> QED BY <1>3, <2>5, <2>6 DEF ToolInv
<1> QED BY <1>7, <1>8
LEMMA CallStepInv ==
  ASSUME ToolInv, NEW options \in OptionSets, Call(options)
  PROVE  ToolInv'
<1> DEFINE a == Arguments(options)
           W == traffic_generator_common(a)
<1>1. calling' = <<a>> /\ pending' = W /\ calling' # <<>> /\ calling'[1] = a
  BY DEF Call
<1>2. Proper(a)
  BY GeneratorToolAssumption DEF Proper
<1> HIDE DEF a
<1>3. W \in Seq(Entries) /\ Len(W) \in Nat
  <2>1. CASE a.disable
    BY <2>1, StopList
  <2>2. CASE ~a.disable
    BY <1>2, <2>2, WriteList
  <2> QED BY <2>1, <2>2
<1>4. Writes' = W
  BY <1>1 DEF Writes
<1> HIDE DEF W
<1>5. Written' = 0
  BY <1>1, <1>3, <1>4 DEF Written
<1>6. CallInv'
  <2>1. \A k \in 1..Len(pending') : pending'[k] = Writes'[Written' + k]
    BY <1>1, <1>3, <1>4, <1>5
  <2> QED BY <1>1, <1>3, <1>4, <2>1 DEF CallInv, a
<1>7. StateTypes'
  BY DEF ToolInv, StateTypes, Call
<1>8. Count(a) \in Nat
  BY <1>2, Sizes
<1>9. WrittenInv'
  <2>1. RegistersWritten(a, 0)' /\ ControlWritten(a, 0)'
    BY <1>8 DEF RegistersWritten, ControlWritten
  <2>2. BufferWritten(a, 0)'
    BY <1>8 DEF BufferWritten
  <2> QED BY <1>1, <1>5, <2>1, <2>2 DEF WrittenInv
<1> QED BY <1>6, <1>7, <1>9 DEF ToolInv

LEMMA ToolInitInv == Init => ToolInv
<1> SUFFICES ASSUME Init PROVE ToolInv
  OBVIOUS
<1>1. CallInv /\ WrittenInv
  BY DEF Init, CallInv, WrittenInv
<1>2. <<0, 0, 0, 0>> \in [1..4 -> Nat]
  OBVIOUS
<1>3. mem \in [0..(Words - 1) -> [1..4 -> Nat]]
  BY <1>2 DEF Init
<1>4. control_reg \in Controls /\ mixed \in BOOLEAN
  BY DEF Init, Controls
<1>5. total_frames_reg = [msb |-> total_frames_reg.msb,
                          lsb |-> total_frames_reg.lsb]
  BY DEF Init
<1> QED BY <1>1, <1>3, <1>4, <1>5 DEF ToolInv, StateTypes

LEMMA ToolStepInv == ToolInv /\ [Next]_vars => ToolInv'
<1> SUFFICES ASSUME ToolInv, [Next]_vars PROVE ToolInv'
  OBVIOUS
<1>1. CASE Return \/ Killed
  BY <1>1 DEF ToolInv, CallInv, StateTypes, WrittenInv, Return, Killed
<1>2. CASE UNCHANGED vars
  <2>1. CallInv'
    BY <1>2 DEF ToolInv, CallInv, Writes, Written, vars, tool
  <2>2. StateTypes'
    BY <1>2 DEF ToolInv, StateTypes, vars
  <2>3. Written' = Written /\ calling' = calling
    BY <1>2 DEF Written, Writes, vars, tool
  <2>4. WrittenInv'
    BY <1>2, <2>3 DEF ToolInv, WrittenInv, RegistersWritten, BufferWritten,
       ControlWritten, vars
  <2> QED BY <2>1, <2>2, <2>4 DEF ToolInv
<1> QED BY <1>1, <1>2, CallStepInv, WriteInv DEF Next

LEMMA ToolInvariant == Spec => []ToolInv
BY ToolInitInv, ToolStepInv, PTL DEF Spec

---------------------------------------------------------------------------
\* What is on the line after a complete call.
LEMMA GapsWrap ==
  ASSUME NEW x \in Nat, NEW m \in Nat, x >= 8, x < m
  PROVE  ((x - 8) % m) + 8 = x
<1>1. x - 8 \in 0..(m - 1)
  OBVIOUS
<1>2. \A y \in 0..(m - 1) : y % m = y
  OBVIOUS
<1> QED BY <1>1, <1>2

LEMMA Halves ==
  ASSUME NEW x \in Nat, NEW m \in Nat \ {0}
  PROVE  (x \div m) * m + (x % m) = x
<1> DEFINE q == x \div m
           r == x % m
<1>1. q \in Int /\ r \in 0..(m - 1) /\ x = m * q + r
  OBVIOUS
<1> HIDE DEF q, r
<1>2. q * m = m * q
  BY <1>1
<1>3. q * m + r = x
  BY <1>1, <1>2
<1> QED BY <1>3 DEF q, r

LEMMA PreambleOffered ==
  ASSUME NEW a, mem[0] = Word(a, 0), mem[1] = Word(a, 1)
  PROVE  [i \in 1..Len(Preamble) |-> BufferOctet(i)] = Preamble
<1>1. mem[0] = <<85, 85, 85, 85>> /\ mem[1] = <<85, 85, 85, 213>>
  BY PreambleWords DEF Word
<1>2. ASSUME NEW i \in 1..8 PROVE BufferOctet(i) = Preamble[i]
  <2>1. CASE i \in 1..4
    <3>1. (i - 1) \div 4 = 0 /\ 1 + ((i - 1) % 4) = i
      BY <2>1
    <3>2. BufferOctet(i) = mem[0][i]
      BY <3>1 DEF BufferOctet
    <3> QED BY <1>1, <2>1, <3>2 DEF Preamble
  <2>2. CASE i \in 5..8
    <3>1. (i - 1) \div 4 = 1 /\ 1 + ((i - 1) % 4) = i - 4
      BY <2>2
    <3>2. BufferOctet(i) = mem[1][i - 4]
      BY <3>1 DEF BufferOctet
    <3> QED BY <1>1, <2>2, <3>2 DEF Preamble
  <2> QED BY <2>1, <2>2
<1>3. Len(Preamble) = 8 /\ Preamble = [i \in 1..8 |-> Preamble[i]]
  BY DEF Preamble
<1> QED BY <1>2, <1>3

\* The octets of the frame that the buffer holds.
LEMMA FrameOctets ==
  ASSUME NEW a, Proper(a)
  PROVE  SubSeq(FrameData(a), 1, StaticSize(a))
         = [i \in 1..StaticSize(a) |-> FrameData(a)[i]]
<1> DEFINE s == SubSeq(FrameData(a), 1, StaticSize(a))
<1>1. /\ StaticSize(a) \in Nat /\ StaticSize(a) <= a.frame_size
      /\ a.frame_size \in Nat
  BY Sizes
<1>2. \A i \in 1..StaticSize(a) : FrameData(a)[i] \in Nat
  <2>1. FrameData(a) \in [1..a.frame_size -> Nat]
    BY DataTypes
  <2> QED BY <1>1, <2>1
<1>3. /\ s \in Seq(Nat)
      /\ Len(s) = IF 1 <= StaticSize(a) THEN StaticSize(a) - 1 + 1 ELSE 0
      /\ \A i \in 1..(StaticSize(a) - 1 + 1) : s[i] = FrameData(a)[1 + i - 1]
  BY <1>1, <1>2, SubSeqProperties
<1> HIDE DEF s
<1>4. Len(s) = StaticSize(a) /\ s = [i \in 1..Len(s) |-> s[i]]
  BY <1>1, <1>3
<1>5. \A i \in 1..StaticSize(a) : s[i] = FrameData(a)[i]
  <2> TAKE i \in 1..StaticSize(a)
  <2>1. 1 + i - 1 = i /\ i \in 1..(StaticSize(a) - 1 + 1)
    BY <1>1
  <2> QED BY <1>3, <2>1
<1> QED BY <1>4, <1>5 DEF s

LEMMA OctetsOffered ==
  ASSUME NEW a, Proper(a),
         \A m \in 0..(Count(a) + 1) : mem[m] = Word(a, m)
  PROVE  [i \in 1..StaticSize(a) |-> BufferOctet(8 + i)]
         = SubSeq(FrameData(a), 1, StaticSize(a))
<1>1. /\ StaticSize(a) \in Nat /\ StaticSize(a) <= a.frame_size
      /\ Count(a) \in Nat /\ StaticSize(a) <= 4 * Count(a)
      /\ a.frame_size \in Nat
  BY Sizes
<1>2. ASSUME NEW i \in 1..StaticSize(a)
      PROVE  BufferOctet(8 + i) = FrameData(a)[i]
  <2> DEFINE k == (i - 1) \div 4
             lane == 1 + ((i - 1) % 4)
  <2>1. /\ k \in Nat /\ lane \in 1..4 /\ 4 * k + lane = i
        /\ ((8 + i) - 1) \div 4 = k + 2 /\ 1 + (((8 + i) - 1) % 4) = lane
    BY <1>1
  <2> HIDE DEF k, lane
  <2>2. k + 2 \in 0..(Count(a) + 1) /\ k + 2 # 0 /\ k + 2 # 1 /\ k + 2 - 2 = k
    BY <1>1, <2>1
  <2>3. BufferOctet(8 + i) = mem[k + 2][lane]
    BY <2>1 DEF BufferOctet
  <2>4. mem[k + 2] = Packed(FrameData(a), StaticSize(a), k)
    <3>1. mem[k + 2] = Word(a, k + 2)
      BY <2>2
    <3> DEFINE m == k + 2
    <3>2. m # 0 /\ m # 1 /\ m - 2 = k /\ mem[m] = Word(a, m)
      BY <2>1, <2>2, <3>1
    <3> HIDE DEF m
    <3>3. Word(a, m) = Packed(FrameData(a), StaticSize(a), m - 2)
      BY <3>2 DEF Word
    <3>4. mem[m] = Packed(FrameData(a), StaticSize(a), k)
      BY <3>2, <3>3
    <3> QED BY <3>4 DEF m
  <2>5. 4 * k + lane <= StaticSize(a)
    BY <1>1, <2>1
  <2>6. Packed(FrameData(a), StaticSize(a), k)[lane] = FrameData(a)[4 * k + lane]
    BY <2>1, <2>5 DEF Packed
  <2> QED BY <2>1, <2>3, <2>4, <2>6
<1>3. SubSeq(FrameData(a), 1, StaticSize(a))
      = [i \in 1..StaticSize(a) |-> FrameData(a)[i]]
  BY FrameOctets
<1> QED BY <1>2, <1>3

LEMMA StreamComplete ==
  ASSUME ToolInv, calling # <<>>, pending = <<>>, ~calling[1].disable
  PROVE  /\ StreamOffered = StreamAsked(calling[1])
         /\ control_reg.run /\ ~mixed
<1> DEFINE a == calling[1]
           c == Count(a)
<1>1. CallInv /\ StateTypes /\ WrittenInv /\ Proper(a)
  BY ArgumentsProper DEF ToolInv
<1>2. c \in Nat /\ StaticSize(a) \in Nat /\ a.frame_size \in Nat
      /\ StaticSize(a) = a.frame_size - DynamicOctets(a)
      /\ DynamicOctets(a) \in Nat
  BY <1>1, Sizes DEF StaticSize
<1>3. Written = 2 * c + 11
  <2>1. Len(Writes) = 2 * c + 11
    BY <1>1, WriteList DEF Writes
  <2>2. Len(pending) = 0
    OBVIOUS
  <2> QED BY <1>2, <2>1, <2>2 DEF Written
<1>4. /\ RegistersWritten(a, 2 * c + 11) /\ BufferWritten(a, 2 * c + 11)
      /\ ControlWritten(a, 2 * c + 11)
  BY <1>1, <1>3 DEF WrittenInv
<1> HIDE DEF a
<1>5. /\ interframe_gap_reg = (a.interframe_gap - 8) % Mod32
      /\ interburst_gap_reg = (a.interburst_gap - 8) % Mod32
      /\ frames_per_burst_reg = a.frames_per_burst
      /\ frame_size_reg = StaticSize(a) + 8
      /\ total_frames_reg.msb = a.total_frames \div Mod32
      /\ total_frames_reg.lsb = a.total_frames % Mod32
  <2>1. /\ 2 * c + 11 >= 1 /\ 2 * c + 11 >= 2 /\ 2 * c + 11 >= 3
        /\ 2 * c + 11 >= 4 /\ 2 * c + 11 >= 2 * c + 9
        /\ 2 * c + 11 >= 2 * c + 10
    BY <1>2
  <2> QED BY <1>4, <2>1 DEF RegistersWritten
<1>6. \A m \in 0..(c + 1) : mem[m] = Word(a, m)
  <2> TAKE m \in 0..(c + 1)
  <2>1. 2 * c + 11 >= 6 + 2 * m
    BY <1>2
  <2> QED BY <1>4, <2>1 DEF BufferWritten
<1>7. control_reg = [run |-> TRUE, timestamp |-> Dynamic(a)] /\ ~mixed
  <2> HIDE DEF c
  <2> QED BY <1>2, <1>4 DEF ControlWritten, c
<1>8. [i \in 1..Len(Preamble) |-> BufferOctet(i)] = Preamble
  <2>1. mem[0] = Word(a, 0) /\ mem[1] = Word(a, 1)
    BY <1>2, <1>6
  <2> QED BY <2>1, PreambleOffered
<1>9. [i \in 1..(frame_size_reg - Len(Preamble)) |->
         BufferOctet(Len(Preamble) + i)]
      = SubSeq(FrameData(a), 1, a.frame_size - DynamicOctets(a))
  <2>1. Len(Preamble) = 8 /\ frame_size_reg - 8 = StaticSize(a)
    <3>1. frame_size_reg - 8 = StaticSize(a)
      BY <1>2, <1>5
    <3> QED BY <3>1, PreambleWords
  <2>2. [i \in 1..StaticSize(a) |-> BufferOctet(8 + i)]
        = SubSeq(FrameData(a), 1, StaticSize(a))
    BY <1>1, <1>6, OctetsOffered DEF a
  <2> QED BY <1>2, <2>1, <2>2
<1>10. control_reg.timestamp = Dynamic(a) /\ control_reg.run = TRUE
  BY <1>7
<1>11. frame_size_reg + (IF control_reg.timestamp THEN DynamicLen ELSE 0)
       = a.frame_size + Len(Preamble)
  <2>1. DynamicOctets(a) = IF control_reg.timestamp THEN DynamicLen ELSE 0
    BY <1>10 DEF DynamicOctets
  <2>2. StaticSize(a) + 8 + DynamicOctets(a) = a.frame_size + 8
    BY <1>2
  <2> QED BY <1>5, <2>1, <2>2, PreambleWords
<1>12. /\ a.interframe_gap \in 0..(Mod32 - 1)
       /\ a.interburst_gap \in 0..(Mod32 - 1)
       /\ a.interframe_gap >= 8
       /\ a.frames_per_burst # 0 => a.interburst_gap >= 8
       /\ a.total_frames \in Nat /\ Mod32 \in Nat \ {0}
  BY <1>1, PreambleWords, GeneratorToolAssumption
  DEF Proper, WellTyped, Acceptable, a
<1>13. interframe_gap_reg + Len(Preamble) = a.interframe_gap
  <2>1. a.interframe_gap \in Nat /\ a.interframe_gap < Mod32 /\ Mod32 \in Nat
    BY <1>12
  <2>2. ((a.interframe_gap - 8) % Mod32) + 8 = a.interframe_gap
    BY <1>12, <2>1, GapsWrap
  <2> QED BY <1>5, <2>2, PreambleWords
<1>14. (IF frames_per_burst_reg = 0 THEN 0
        ELSE interburst_gap_reg + Len(Preamble))
       = IF a.frames_per_burst = 0 THEN 0 ELSE a.interburst_gap
  <2>1. CASE a.frames_per_burst = 0
    BY <1>5, <2>1
  <2>2. CASE a.frames_per_burst # 0
    <3>1. /\ a.interburst_gap \in Nat /\ a.interburst_gap < Mod32
          /\ Mod32 \in Nat /\ a.interburst_gap >= 8
      BY <1>12, <2>2
    <3>2. ((a.interburst_gap - 8) % Mod32) + 8 = a.interburst_gap
      BY <3>1, GapsWrap
    <3> QED BY <1>5, <2>2, <3>2, PreambleWords
  <2> QED BY <2>1, <2>2
<1>15. total_frames_reg.msb * Mod32 + total_frames_reg.lsb = a.total_frames
  BY <1>5, <1>12, Halves
<1>16. StreamOffered = StreamAsked(a)
  BY <1>5, <1>8, <1>9, <1>10, <1>11, <1>13, <1>14, <1>15
  DEF StreamOffered, StreamAsked
<1> QED BY <1>7, <1>10, <1>16 DEF a

\* A digit of the data, printed: half an octet of the frame.
LEMMA DigitOffered ==
  ASSUME NEW a, Proper(a), NEW k \in 1..(2 * (Len(a.frame_data) \div 2)),
         k <= 2 * StaticSize(a)
  PROVE  LET frame == [i \in 1..StaticSize(a) |-> FrameData(a)[i]]
         IN  bin2hexstr(frame)[k] = Upper(a.frame_data[k])
<1> DEFINE d == a.frame_data
           n == Len(d) \div 2
           s == StaticSize(a)
           frame == [i \in 1..s |-> FrameData(a)[i]]
<1>1. /\ d \in Seq(Digits) /\ Len(d) \in Nat
      /\ n \in Nat /\ 2 * n <= Len(d)
  <2>1. d \in Seq(Digits) /\ Len(d) \in Nat
    BY DEF Proper, WellTyped
  <2>2. \A x \in Nat : x \div 2 \in Nat /\ 2 * (x \div 2) <= x
    OBVIOUS
  <2> QED BY <2>1, <2>2
<1>2. s \in Nat /\ s <= a.frame_size /\ a.frame_size \in Nat
  BY Sizes
<1>3. Len(frame) = s /\ \A i \in 1..s : frame[i] = FrameData(a)[i]
  BY <1>2
<1>4. ASSUME NEW i \in 1..n, i <= s
      PROVE  /\ d[2 * i - 1] \in Digits /\ d[2 * i] \in Digits
             /\ frame[i] = 16 * hexchar2byte(d[2 * i - 1])
                           + hexchar2byte(d[2 * i])
  <2>1. i \in 1..s /\ i <= a.frame_size
    BY <1>1, <1>2, <1>4
  <2>2. 2 * i - 1 \in 1..Len(d) /\ 2 * i \in 1..Len(d)
    <3> HIDE DEF d, n
    <3> QED BY <1>1
  <2>3. FrameData(a)[i] = 16 * hexchar2byte(d[2 * i - 1])
                          + hexchar2byte(d[2 * i])
    BY <2>1, DataTypes
  <2> QED BY <1>1, <1>3, <2>1, <2>2, <2>3
<1>5. k \in 1..(2 * n) /\ k <= 2 * s
  OBVIOUS
<1> HIDE DEF d, n, s, frame
<1>6. bin2hexstr(frame)[k] =
        IF k % 2 = 1 THEN byte2hexchar(frame[(k + 1) \div 2] \div 16)
                     ELSE byte2hexchar(frame[k \div 2] % 16)
  <2>1. k \in 1..(2 * Len(frame))
    BY <1>1, <1>2, <1>3, <1>5
  <2> QED BY <2>1 DEF bin2hexstr
<1>7. \A x, y \in 0..15 : (16 * x + y) \div 16 = x /\ (16 * x + y) % 16 = y
  OBVIOUS
<1>8. CASE k % 2 = 1
  <2> DEFINE i == (k + 1) \div 2
  <2>1. i \in 1..n /\ i <= s /\ 2 * i - 1 = k
    BY <1>1, <1>2, <1>5, <1>8
  <2> HIDE DEF i
  <2>2. /\ d[2 * i - 1] \in Digits /\ d[2 * i] \in Digits
        /\ frame[i] = 16 * hexchar2byte(d[2 * i - 1]) + hexchar2byte(d[2 * i])
    BY <1>4, <2>1
  <2>3. hexchar2byte(d[2 * i - 1]) \in 0..15 /\ hexchar2byte(d[2 * i]) \in 0..15
    BY <2>2, DigitPrinted
  <2>4. frame[i] \div 16 = hexchar2byte(d[2 * i - 1])
    BY <1>7, <2>2, <2>3
  <2>5. byte2hexchar(frame[i] \div 16) = Upper(d[k])
    BY <2>1, <2>2, <2>4, DigitPrinted
  <2> QED BY <1>6, <1>8, <2>5 DEF i, d, n, s, frame
<1>9. CASE k % 2 # 1
  <2> DEFINE i == k \div 2
  <2>1. i \in 1..n /\ i <= s /\ 2 * i = k
    BY <1>1, <1>2, <1>5, <1>9
  <2> HIDE DEF i
  <2>2. /\ d[2 * i - 1] \in Digits /\ d[2 * i] \in Digits
        /\ frame[i] = 16 * hexchar2byte(d[2 * i - 1]) + hexchar2byte(d[2 * i])
    BY <1>4, <2>1
  <2>3. hexchar2byte(d[2 * i - 1]) \in 0..15 /\ hexchar2byte(d[2 * i]) \in 0..15
    BY <2>2, DigitPrinted
  <2>4. frame[i] % 16 = hexchar2byte(d[2 * i])
    BY <1>7, <2>2, <2>3
  <2>5. byte2hexchar(frame[i] % 16) = Upper(d[k])
    BY <2>1, <2>2, <2>4, DigitPrinted
  <2> QED BY <1>6, <1>9, <2>5 DEF i, d, n, s, frame
<1> QED BY <1>8, <1>9

LEMMA GivenData == ToolInv => DataAsGiven
<1> SUFFICES ASSUME ToolInv, calling # <<>>, pending = <<>>,
                    ~calling[1].disable,
                    NEW k \in 1..(2 * (Len(calling[1].frame_data) \div 2)),
                    k <= Len(bin2hexstr(StreamOffered.octets))
             PROVE  bin2hexstr(StreamOffered.octets)[k]
                    = Upper(calling[1].frame_data[k])
  BY DEF DataAsGiven
<1>1. PICK a : a = calling[1]
  OBVIOUS
<1>2. Proper(a)
  BY <1>1, ArgumentsProper DEF ToolInv
<1> DEFINE frame == [i \in 1..StaticSize(a) |-> FrameData(a)[i]]
<1>3. StreamOffered.octets = frame
  <2>1. StreamOffered = StreamAsked(a)
    BY <1>1, StreamComplete
  <2>2. StreamAsked(a).octets = SubSeq(FrameData(a), 1, StaticSize(a))
    BY DEF StreamAsked, StaticSize
  <2>3. SubSeq(FrameData(a), 1, StaticSize(a)) = frame
    BY <1>2, FrameOctets
  <2> QED BY <2>1, <2>2, <2>3
<1>4. StaticSize(a) \in Nat
  BY <1>2, Sizes
<1>5. Len(frame) = StaticSize(a)
  BY <1>4
<1>6. Len(bin2hexstr(frame)) = 2 * StaticSize(a)
  <2> HIDE DEF frame
  <2> QED BY <1>4, <1>5 DEF bin2hexstr
<1>7. k <= 2 * StaticSize(a)
  BY <1>3, <1>6
<1>8. bin2hexstr(frame)[k] = Upper(a.frame_data[k])
  <2>1. k \in 1..(2 * (Len(a.frame_data) \div 2))
    BY <1>1
  <2> QED BY <1>2, <1>7, <2>1, DigitOffered
<1> QED BY <1>1, <1>3, <1>8

(***************************************************************************)
(* hexstr2bin, the packing into words, ioreg_write of the words in turn    *)
(* and bin2hexstr: after a complete call, the frame in the buffer reads    *)
(* back as the digits that were given.                                     *)
(***************************************************************************)
THEOREM FrameAsGiven == Spec => []DataAsGiven
BY ToolInvariant, GivenData, PTL

---------------------------------------------------------------------------
(***************************************************************************)
(* The refinement.  Asked and Offered are what the mapping puts for the    *)
(* variables of GeneratorService.                                          *)
(***************************************************************************)
Asked ==
  IF calling = <<>> \/ calling[1].disable THEN Nothing
  ELSE StreamAsked(calling[1])
Offered ==
  IF ~control_reg.run THEN Nothing
  ELSE IF mixed THEN Mixture ELSE StreamOffered
Complete ==
  calling # <<>> /\ pending = <<>> /\ ~calling[1].disable =>
    /\ StreamOffered = StreamAsked(calling[1])
    /\ control_reg.run /\ ~mixed

LEMMA StreamsApart ==
  /\ Nothing # Mixture /\ StreamOffered # Nothing
  /\ \A a : StreamAsked(a) # Nothing
<1>1. Nothing # Mixture
  <2>1. Nothing.stream = "none" /\ Mixture.stream = "mixture"
    BY DEF Nothing, Mixture
  <2> QED BY <2>1
<1>2. "preamble" \notin DOMAIN Nothing
  BY DEF Nothing
<1>3. "preamble" \in DOMAIN StreamOffered
  BY DEF StreamOffered
<1>4. \A a : "preamble" \in DOMAIN StreamAsked(a)
  BY DEF StreamAsked
<1> QED BY <1>1, <1>2, <1>3, <1>4

\* control is written last.
LEMMA ControlLast ==
  ASSUME NEW a, Proper(a), ~a.disable, NEW n \in 1..(2 * Count(a) + 10)
  PROVE  \E r, v : /\ r # "control"
                   /\ traffic_generator_common(a)[n] = Entry(r, v)
<1> DEFINE W == traffic_generator_common(a)
           c == Count(a)
<1>1. /\ \A i \in 1..4 : W[i] = Gaps(a)[i]
      /\ \A m \in 0..(c + 1) :
           /\ W[5 + 2 * m] = Entry("frame_buf_address", m)
           /\ W[6 + 2 * m] = Entry("frame_buf", Word(a, m))
      /\ W[2 * c + 9] = Msb(a) /\ W[2 * c + 10] = Lsb(a)
  BY WriteList
<1>2. c \in Nat
  BY Sizes
<1> HIDE DEF W, c
<1>3. n \in 1..(2 * c + 10)
  BY DEF c
<1>4. CASE n \in 1..4
  <2>1. W[n] = Gaps(a)[n] /\ (n = 1 \/ n = 2 \/ n = 3 \/ n = 4)
    BY <1>1, <1>4
  <2> QED BY <2>1 DEF W, Gaps
<1>5. CASE n \in 5..(2 * c + 8)
  <2>1. \E m \in 0..(c + 1) : n = 5 + 2 * m \/ n = 6 + 2 * m
    <3> DEFINE m == (n - 5) \div 2
    <3>1. m \in 0..(c + 1) /\ (n = 5 + 2 * m \/ n = 6 + 2 * m)
      BY <1>2, <1>5
    <3> HIDE DEF m
    <3> QED BY <3>1
  <2>2. "frame_buf_address" # "control" /\ "frame_buf" # "control"
    OBVIOUS
  <2> QED BY <1>1, <2>1, <2>2 DEF W
<1>6. CASE n = 2 * c + 9 \/ n = 2 * c + 10
  <2>1. "total_msb" # "control" /\ "total_lsb" # "control"
    OBVIOUS
  <2> QED BY <1>1, <1>6, <2>1 DEF W, Msb, Lsb
<1> QED BY <1>2, <1>3, <1>4, <1>5, <1>6

\* A write of a call that starts the generator.
LEMMA WriteServes ==
  ASSUME ToolInv, Complete', IoregWrite, ~calling[1].disable
  PROVE  \/ Asked # Nothing /\ Offered = Nothing /\ Offered' = Asked
         \/ Asked # Nothing /\ Offered # Nothing /\ Offered' = Mixture
         \/ Asked # Nothing /\ Offered = Mixture /\ Offered' = Asked
         \/ Offered' = Offered
<1>1. CallInv /\ StateTypes /\ WrittenInv
  BY DEF ToolInv
<1>2. /\ pending # <<>> /\ pending' = Tail(pending) /\ calling' = calling
      /\ calling # <<>>
  BY <1>1 DEF IoregWrite, CallInv
<1>3. /\ Written \in 0..(Len(Writes) - 1) /\ Len(Writes) \in Nat
      /\ Head(pending) = Writes[Written + 1]
      /\ CallInv' /\ Written' = Written + 1
  BY <1>1, <1>2, NextWrite
<1>4. PICK a : a = calling[1]
  OBVIOUS
<1>5. /\ calling[1] = a /\ calling'[1] = a /\ Proper(a) /\ ~a.disable
      /\ Writes = traffic_generator_common(a)
  BY <1>1, <1>2, <1>4, ArgumentsProper DEF Writes
<1>6. Len(Writes) = 2 * Count(a) + 11 /\ Count(a) \in Nat
  BY <1>5, WriteList, Sizes
<1>7. Asked = StreamAsked(a) /\ Asked # Nothing
  BY <1>2, <1>5, StreamsApart DEF Asked
<1>8. CASE Written < 2 * Count(a) + 10
  <2>1. Written + 1 \in 1..(2 * Count(a) + 10)
    BY <1>3, <1>6, <1>8
  <2>2. PICK r, v : r # "control" /\ Head(pending) = Entry(r, v)
    BY <1>3, <1>5, <2>1, ControlLast
  <2>3. control_reg' = control_reg
    BY <2>2, WriteEffect
  <2>4. mixed' = (control_reg.run /\ r # "control")
    BY <2>2, WriteEffect
  <2>5. CASE control_reg.run
    <3>1. mixed' /\ control_reg'.run
      BY <2>2, <2>3, <2>4, <2>5
    <3>2. Offered' = Mixture
      BY <3>1 DEF Offered
    <3>3. Offered # Nothing
      BY <2>5, StreamsApart DEF Offered
    <3> QED BY <1>7, <3>2, <3>3
  <2>6. CASE ~control_reg.run
    BY <2>3, <2>6 DEF Offered
  <2> QED BY <2>5, <2>6
<1>9. CASE Written = 2 * Count(a) + 10
  <2>1. pending' = <<>>
    <3>1. Writes' = Writes
      BY <1>2 DEF Writes
    <3>2. pending' \in Seq(Entries)
      BY <1>2, <1>3 DEF CallInv
    <3>3. Len(pending') = 0
      <4>1. Len(Writes) - Len(pending') = 2 * Count(a) + 11
        <5>1. Written' = Len(Writes) - Len(pending')
          BY <3>1 DEF Written
        <5>2. Written' = 2 * Count(a) + 11
          BY <1>3, <1>6, <1>9
        <5> QED BY <5>1, <5>2
      <4>2. Len(pending') \in Nat
        BY <3>2
      <4> QED BY <1>6, <4>1, <4>2
    <3> QED BY <3>2, <3>3
  <2>2. /\ StreamOffered' = StreamAsked(calling[1])' /\ control_reg'.run
        /\ ~mixed'
    BY <1>2, <1>5, <2>1 DEF Complete
  <2>3. StreamAsked(calling[1])' = StreamAsked(a)
    BY <1>2, <1>5
  <2>4. Offered' = Asked
    BY <1>7, <2>2, <2>3 DEF Offered
  <2>5. control_reg.run => mixed
    <3>1. ControlWritten(a, 2 * Count(a) + 10)
      BY <1>1, <1>2, <1>5, <1>9 DEF WrittenInv
    <3> QED BY <1>6, <3>1 DEF ControlWritten
  <2>6. Offered = Nothing \/ Offered = Mixture
    BY <2>5 DEF Offered
  <2> QED BY <1>7, <2>4, <2>6
<1> QED BY <1>3, <1>6, <1>8, <1>9

LEMMA ServiceStep ==
  ASSUME ToolInv, Complete', [Next]_vars
  PROVE  [Service!Next]_<<Asked, Offered>>
<1>1. ASSUME NEW options \in OptionSets, Call(options)
      PROVE  [Service!Next]_<<Asked, Offered>>
  <2>1. /\ calling = <<>> /\ calling' # <<>>
        /\ calling'[1] = Arguments(options)
    BY <1>1 DEF Call
  <2>2. StreamOffered' = StreamOffered /\ Offered' = Offered
    BY <1>1 DEF Call, StreamOffered, BufferOctet, Offered
  <2>3. Asked = Nothing
    BY <2>1 DEF Asked
  <2>4. CASE Arguments(options).disable
    <3>1. Asked' = Nothing
      BY <2>1, <2>4 DEF Asked
    <3> QED BY <2>2, <2>3, <3>1
  <2>5. CASE ~Arguments(options).disable
    <3>1. Asked' = StreamAsked(Arguments(options))
      BY <2>1, <2>5 DEF Asked
    <3>2. Asked' \in StreamsAsked
      BY <3>1 DEF StreamsAsked
    <3> QED BY <2>2, <2>3, <3>2 DEF Service!Next, Service!Ask, Asked, Offered
  <2> QED BY <2>4, <2>5
<1>2. CASE IoregWrite
  <2>1. calling' = calling /\ calling # <<>> /\ pending # <<>>
    BY <1>2 DEF IoregWrite, ToolInv, CallInv
  <2>2. Asked' = Asked
    BY <2>1 DEF Asked
  <2>3. CASE ~calling[1].disable
    BY <1>2, <2>2, <2>3, WriteServes
    DEF Service!Next, Service!Start, Service!Disturb, Service!Settle, Asked,
        Offered
  <2>4. CASE calling[1].disable
    <3>1. Head(pending)
          = Entry("control", [run |-> FALSE, timestamp |-> FALSE])
      <4>1. /\ Written \in 0..(Len(Writes) - 1)
            /\ Head(pending) = Writes[Written + 1]
        BY <1>2, <2>1, NextWrite DEF IoregWrite, ToolInv
      <4>2. Len(Writes) = 1 /\ Writes[1]
              = Entry("control", [run |-> FALSE, timestamp |-> FALSE])
        BY <2>4, StopList DEF Writes
      <4>3. Written = 0
        BY <4>1, <4>2
      <4> QED BY <4>1, <4>2, <4>3
    <3>2. control_reg' = [run |-> FALSE, timestamp |-> FALSE]
      BY <1>2, <3>1, StopWritten DEF ToolInv
    <3>3. Offered' = Nothing
      BY <3>2 DEF Offered
    <3>4. Asked = Nothing
      BY <2>4 DEF Asked
    <3> QED BY <2>2, <3>3, <3>4 DEF Service!Next, Service!Stop, Asked, Offered
  <2> QED BY <2>3, <2>4
<1>3. CASE Return \/ Killed
  <2>1. calling' = <<>>
    BY <1>3 DEF Return, Killed
  <2>2. Asked' = Nothing
    BY <2>1 DEF Asked
  <2>3. StreamOffered' = StreamOffered /\ Offered' = Offered
    <3>1. CASE Return
      BY <3>1 DEF Return, StreamOffered, BufferOctet, Offered
    <3>2. CASE Killed
      BY <3>2 DEF Killed, StreamOffered, BufferOctet, Offered
    <3> QED BY <1>3, <3>1, <3>2
  <2> QED BY <2>2, <2>3 DEF Service!Next, Service!Leave, Asked, Offered
<1>4. CASE UNCHANGED vars
  BY <1>4 DEF vars, tool, Asked, Offered, StreamOffered, BufferOctet
<1> QED BY <1>1, <1>2, <1>3, <1>4 DEF Next

(***************************************************************************)
(* traffic_generator_common implements GeneratorService: every register    *)
(* write of every call, complete or killed, after any history of calls, is *)
(* a step of the service or invisible to it.                               *)
(***************************************************************************)
THEOREM ToolImplementsService == Spec => ImplementsService
<1>1. ToolInv => Complete
  BY StreamComplete DEF Complete
<1>2. Init => Service!Init
  BY DEF Init, Service!Init
<1>3. ToolInv /\ Complete' /\ [Next]_vars => [Service!Next]_<<Asked, Offered>>
  BY ServiceStep
<1> QED BY <1>1, <1>2, <1>3, ToolInvariant, PTL
        DEF Spec, ImplementsService, Service!Spec, Asked, Offered
=============================================================================
