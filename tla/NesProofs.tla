------------------------------ MODULE NesProofs ------------------------------
(***************************************************************************)
(* As long as nothing has gone wrong the debugger and hci.v stay in step,  *)
(* whatever is sent, with queues and counts of every size.                 *)
(***************************************************************************)
EXTENDS NesInv, TLAPS, SequenceTheorems

-----------------------------------------------------------------------------
(* Sequences. *)

\* The first byte of two sequences is that of the first.
LEMMA HeadOn ==
  ASSUME NEW S, NEW s \in Seq(S), NEW t \in Seq(S), s # <<>>
  PROVE  s \o t # <<>> /\ Head(s \o t) = Head(s) /\ Tail(s \o t) = Tail(s) \o t
<1>1. Len(s) \in Nat /\ Len(t) \in Nat /\ Len(s) > 0
  BY EmptySeq, LenProperties
<1>2. /\ s \o t \in Seq(S) /\ Len(s \o t) = Len(s) + Len(t)
      /\ \A i \in 1 .. Len(s) + Len(t) : (s \o t)[i] = IF i <= Len(s) THEN s[i] ELSE t[i - Len(s)]
  BY ConcatProperties
<1>3. s \o t # <<>>
  BY <1>1, <1>2, EmptySeq
<1>4. /\ Tail(s) \in Seq(S) /\ Len(Tail(s)) = Len(s) - 1
      /\ \A i \in 1 .. Len(Tail(s)) : Tail(s)[i] = s[i + 1]
  BY HeadTailProperties
<1>5. /\ Tail(s \o t) \in Seq(S) /\ Len(Tail(s \o t)) = Len(s) + Len(t) - 1
      /\ \A i \in 1 .. Len(Tail(s \o t)) : Tail(s \o t)[i] = (s \o t)[i + 1]
  BY <1>2, <1>3, HeadTailProperties
<1>6. /\ Tail(s) \o t \in Seq(S) /\ Len(Tail(s) \o t) = Len(s) - 1 + Len(t)
      /\ \A i \in 1 .. Len(s) - 1 + Len(t) :
           (Tail(s) \o t)[i] = IF i <= Len(s) - 1 THEN Tail(s)[i] ELSE t[i - (Len(s) - 1)]
  BY <1>4, ConcatProperties
<1>7. ASSUME NEW i \in 1 .. Len(Tail(s \o t)) PROVE Tail(s \o t)[i] = (Tail(s) \o t)[i]
  <2>1. i \in Nat /\ i >= 1 /\ i + 1 \in 1 .. Len(s) + Len(t) /\ i \in 1 .. Len(s) - 1 + Len(t)
    BY <1>1, <1>5
  <2>2. CASE i <= Len(s) - 1
    <3>1. Tail(s \o t)[i] = s[i + 1]
      BY <1>1, <1>2, <1>5, <2>1, <2>2
    <3>2. (Tail(s) \o t)[i] = Tail(s)[i]
      BY <1>6, <2>1, <2>2
    <3>3. i \in 1 .. Len(Tail(s))
      BY <1>1, <1>4, <2>1, <2>2
    <3> QED
      BY <1>4, <3>1, <3>2, <3>3
  <2>3. CASE i > Len(s) - 1
    <3>1. Tail(s \o t)[i] = t[i + 1 - Len(s)]
      BY <1>1, <1>2, <1>5, <2>1, <2>3
    <3>2. (Tail(s) \o t)[i] = t[i - (Len(s) - 1)]
      BY <1>1, <1>6, <2>1, <2>3
    <3>3. i + 1 - Len(s) = i - (Len(s) - 1)
      BY <1>1, <2>1
    <3> QED
      BY <3>1, <3>2, <3>3
  <2> QED
    BY <1>1, <2>1, <2>2, <2>3
<1>8. Tail(s \o t) = Tail(s) \o t
  <2>1. Len(Tail(s \o t)) = Len(Tail(s) \o t)
    BY <1>1, <1>5, <1>6
  <2> QED
    BY <1>5, <1>6, <1>7, <2>1, SeqEqual
<1>9. Head(s \o t) = (s \o t)[1] /\ Head(s) = s[1] /\ (s \o t)[1] = s[1]
  BY <1>1, <1>2
<1> QED
  BY <1>3, <1>8, <1>9

\* The head of a sequence moves to the end of the one before it.
LEMMA HeadMoves ==
  ASSUME NEW S, NEW s \in Seq(S), NEW t \in Seq(S), t # <<>>
  PROVE  Append(s, Head(t)) \o Tail(t) = s \o t
<1>1. Head(t) \in S /\ Tail(t) \in Seq(S)
  BY HeadTailProperties
<1>2. Append(s, Head(t)) = s \o <<Head(t)>>
  BY <1>1, AppendIsConcat
<1>3. <<Head(t)>> \in Seq(S)
  BY <1>1
<1>4. (s \o <<Head(t)>>) \o Tail(t) = s \o (<<Head(t)>> \o Tail(t))
  BY <1>1, <1>3, ConcatAssociative
<1>5. <<Head(t)>> \o Tail(t) = t
  BY <1>1
<1> QED
  BY <1>2, <1>4, <1>5

\* What is left of a sequence from a place on.
LEMMA FromFacts ==
  ASSUME NEW S, NEW p \in Seq(S), NEW i \in Nat, i >= 1, i <= Len(p) + 1
  PROVE  /\ From(p, i) \in Seq(S) /\ Len(From(p, i)) = Len(p) - i + 1
         /\ i <= Len(p) => /\ From(p, i) # <<>> /\ Head(From(p, i)) = p[i]
                           /\ Tail(From(p, i)) = From(p, i + 1)
         /\ i = Len(p) + 1 => From(p, i) = <<>>
<1>1. Len(p) \in Nat /\ \A j \in 1 .. Len(p) : p[j] \in S
  BY LenProperties, ElementOfSeq
<1>2. /\ From(p, i) \in Seq(S)
      /\ Len(From(p, i)) = IF i <= Len(p) THEN Len(p) - i + 1 ELSE 0
  BY <1>1, SubSeqProperties DEF From
<1>3. ASSUME i <= Len(p)
      PROVE  From(p, i) # <<>> /\ Head(From(p, i)) = p[i] /\ Tail(From(p, i)) = From(p, i + 1)
  <2>1. i \in 1 .. Len(p) /\ Len(p) \in i .. Len(p)
    BY <1>1, <1>3
  <2>2. Len(From(p, i)) > 0
    BY <1>1, <1>2, <1>3
  <2>3. From(p, i) # <<>>
    BY <2>2, EmptySeq
  <2> QED
    BY <2>1, <2>3, HeadTailOfSubSeq DEF From
<1>4. i = Len(p) + 1 => From(p, i) = <<>>
  <2>1. i = Len(p) + 1 => Len(p) < i
    BY <1>1
  <2> QED
    BY <1>1, <2>1, SubSeqEmpty DEF From
<1>5. Len(From(p, i)) = Len(p) - i + 1
  BY <1>1, <1>2
<1> QED
  BY <1>2, <1>3, <1>4, <1>5

\* A beginning of a sequence, and one byte more.
LEMMA OneMore ==
  ASSUME NEW S, NEW p \in Seq(S), NEW j \in 1 .. Len(p), NEW k \in j - 1 .. Len(p) - 1
  PROVE  SubSeq(p, j, k) \o <<p[k + 1]>> = SubSeq(p, j, k + 1)
<1>1. Len(p) \in Nat /\ k \in Int /\ k + 1 \in Int
  BY LenProperties
<1>2. k + 1 \in j .. Len(p)
  BY <1>1
<1>3. SubSeq(p, j, k + 1) = SubSeq(p, j, (k + 1) - 1) \o <<p[k + 1]>>
  BY <1>2, SubSeqRecursiveSecond
<1>4. (k + 1) - 1 = k
  BY <1>1
<1> QED
  BY <1>3, <1>4

\* The first bytes of a sequence.
LEMMA Beginning ==
  ASSUME NEW S, NEW s \in Seq(S), NEW t \in Seq(S)
  PROVE  SubSeq(s \o t, 1, Len(s)) = s
<1>1. Len(s) \in Nat
  BY LenProperties
<1>2. CASE s = <<>>
  <2>1. Len(s) < 1
    BY <1>2
  <2> QED
    BY <1>1, <1>2, <2>1, SubSeqEmpty
<1>3. CASE s # <<>>
  <2>1. Len(s) > 0
    BY <1>3, EmptySeq
  <2>2. 1 \in 1 .. Len(s) /\ Len(s) \in 1 .. Len(s)
    BY <1>1, <2>1
  <2> QED
    BY <2>2, SubSeqOfConcat1, SubSeqFull
<1> QED
  BY <1>2, <1>3

\* Bytes, put together in one order or the other.
LEMMA Joined ==
  \A s, t, u \in Seq(Byte) : s \o t \in Seq(Byte) /\ (s \o t) \o u = s \o (t \o u)
BY ConcatProperties, ConcatAssociative
LEMMA Regrouped ==
  ASSUME NEW s \in Seq(Byte), NEW t \in Seq(Byte), NEW u \in Seq(Byte)
  PROVE  (s \o t) \o u = s \o (t \o u)
BY ConcatAssociative
LEMMA JoinedNone ==
  \A s \in Seq(Byte) : s \o <<>> = s /\ <<>> \o s = s
BY ConcatEmptySeq

-----------------------------------------------------------------------------
(* Packets. *)

\* Numbers are two bytes, the low one first.
LEMMA WordFacts ==
  ASSUME NEW n \in Nat
  PROVE  /\ Word(n) \in Seq(Byte) /\ Len(Word(n)) = 2
         /\ n < WordMod => Word(n)[1] + Word(n)[2] * ByteMod = n
<1> DEFINE m == ByteMod
           q == n \div m
           a == n % m
<1>1. m \in Nat /\ m > 0
  BY HciAssumption
<1>2. n = (m * q) + a /\ a \in 0 .. m - 1 /\ q \in Int /\ q % m \in 0 .. m - 1
  <2>1. n = (m * q) + a /\ a \in 0 .. m - 1 /\ q \in Int
    BY <1>1, SMT
  <2> HIDE DEF q
  <2>2. q % m \in 0 .. m - 1
    BY <1>1, <2>1, SMT
  <2> QED
    BY <2>1, <2>2
<1>3. Word(n) = <<a, q % m>>
  BY DEF Word
<1> HIDE DEF a, q
<1>4. Word(n) \in Seq(Byte) /\ Len(Word(n)) = 2 /\ Word(n)[1] = a /\ Word(n)[2] = q % m
  <2> DEFINE b == q % m
  <2>1. a \in Byte /\ b \in Byte /\ Word(n) = <<a, b>>
    BY <1>2, <1>3 DEF Byte
  <2> HIDE DEF b
  <2> QED
    BY <2>1 DEF b
<1>5. ASSUME n < m * m PROVE q % m = q
  <2>1. q >= 0
    <3> SUFFICES ASSUME q + 1 <= 0 PROVE FALSE
      BY <1>2
    <3>1. m * (q + 1) <= 0
      BY <1>1, <1>2, SMT
    <3>2. m * (q + 1) = (m * q) + m
      BY <1>1, <1>2, SMT
    <3> DEFINE v == m * q
    <3>3. v \in Int /\ v + m <= 0 /\ n = v + a
      BY <1>1, <1>2, <3>1, <3>2, SMT
    <3> HIDE DEF v
    <3> QED
      BY <1>1, <1>2, <3>3
  <2>2. q < m
    <3> SUFFICES ASSUME m <= q PROVE FALSE
      BY <1>1, <1>2
    <3>1. m * m <= m * q
      BY <1>1, <1>2, SMT
    <3> QED
      BY <1>1, <1>2, <1>5, <3>1, SMT
  <2> QED
    BY <1>1, <1>2, <2>1, <2>2, SMT
<1>6. m * q = q * m
  BY <1>1, <1>2, SMT
<1>7. ASSUME n < WordMod PROVE Word(n)[1] + Word(n)[2] * m = n
  <2>1. q % m = q
    BY <1>5, <1>7 DEF WordMod
  <2>2. Word(n)[1] + Word(n)[2] * m = a + (m * q)
    BY <1>4, <1>6, <2>1
  <2> DEFINE v == m * q
  <2>3. v \in Int /\ n = v + a
    BY <1>1, <1>2, SMT
  <2> HIDE DEF v
  <2>4. a + v = n
    BY <1>2, <2>3
  <2> QED
    BY <2>2, <2>4 DEF v
<1> QED
  BY <1>4, <1>7

Ops == {OpEcho, OpCpuMemRd, OpCpuMemWr, OpDbgHlt, OpDbgRun, OpCpuRegRd, OpCpuRegWr, OpQueryHlt,
        OpPpuMemRd, OpPpuMemWr, OpPpuDisable, OpCartSetCfg}

\* The numbers of the opcodes.
LEMMA OpsAre ==
  /\ OpEcho = 0 /\ OpCpuMemRd = 1 /\ OpCpuMemWr = 2 /\ OpDbgHlt = 3 /\ OpDbgRun = 4 /\ OpCpuRegRd = 5
  /\ OpCpuRegWr = 6 /\ OpQueryHlt = 7 /\ OpQueryErrCode = 8 /\ OpPpuMemRd = 9 /\ OpPpuMemWr = 10
  /\ OpPpuDisable = 11 /\ OpCartSetCfg = 12
  BY DEF OpEcho, OpCpuMemRd, OpCpuMemWr, OpDbgHlt, OpDbgRun, OpCpuRegRd, OpCpuRegWr, OpQueryHlt,
         OpQueryErrCode, OpPpuMemRd, OpPpuMemWr, OpPpuDisable, OpCartSetCfg
LEMMA OpsByte == Ops \subseteq Byte
  BY OpsAre, HciAssumption DEF Ops, Byte
LEMMA OpsOf ==
  ASSUME NEW op \in Ops
  PROVE  op \in (0 .. OpCartSetCfg) \ {OpQueryErrCode}
  BY OpsAre DEF Ops
LEMMA OpsAll ==
  ASSUME NEW op \in (0 .. OpCartSetCfg) \ {OpQueryErrCode}
  PROVE  op \in Ops
  BY OpsAre DEF Ops
LEMMA NumberFacts ==
  ASSUME NEW p \in Seq(Byte), NEW i \in Nat, i >= 1, i + 1 <= Len(p)
  PROVE  /\ p[i] \in Byte /\ p[i + 1] \in Byte /\ p[i] % ByteMod = p[i]
         /\ Number(p, i) \in Nat /\ Number(p, i) < WordMod
<1> DEFINE m == ByteMod
           a == p[i]
           b == p[i + 1]
<1>1. m \in Nat /\ m > 0
  BY HciAssumption
<1>2. a \in 0 .. m - 1 /\ b \in 0 .. m - 1
  <2>1. Len(p) \in Nat
    BY LenProperties
  <2>2. i \in 1 .. Len(p) /\ i + 1 \in 1 .. Len(p)
    BY <2>1
  <2>3. a \in Byte /\ b \in Byte
    BY <2>2, ElementOfSeq
  <2> QED
    BY <2>3 DEF Byte
<1> HIDE DEF a, b
<1>3. a % m = a
  BY <1>1, <1>2, SMT
<1>4. b * m \in Nat /\ b * m <= (m - 1) * m /\ (m - 1) * m = (m * m) - m
  BY <1>1, <1>2, SMT
<1>5. Number(p, i) = a + b * m
  BY DEF Number, a, b
<1>6. a + b * m \in Nat /\ a + b * m < m * m
  <2> DEFINE v == b * m
             w == m * m
  <2>1. v \in Nat /\ v <= w - m /\ w \in Int
    BY <1>1, <1>4, SMT
  <2> HIDE DEF v, w
  <2>2. a + v \in Nat /\ a + v < w
    BY <1>1, <1>2, <2>1
  <2> QED
    BY <2>2 DEF v, w
<1> QED
  BY <1>2, <1>3, <1>5, <1>6 DEF a, b, Byte, WordMod

\* How long packets are, and what they count.
LEMMA PacketFacts ==
  ASSUME NEW p \in Packets
  PROVE  /\ p \in Seq(Byte) /\ p # <<>> /\ Len(p) \in Nat /\ Len(p) >= 1 /\ p[1] \in Ops
         /\ Head(p) = p[1] /\ p[1] \in Byte
         /\ p[1] = OpEcho => /\ Number(p, 2) \in Nat /\ Number(p, 2) < WordMod
                             /\ Len(p) = 3 + Number(p, 2)
         /\ p[1] \in {OpCpuMemRd, OpPpuMemRd} =>
              /\ Len(p) = 5 /\ Number(p, 2) \in Nat /\ Number(p, 4) \in Nat /\ Number(p, 4) < WordMod
         /\ p[1] \in {OpCpuMemWr, OpPpuMemWr} =>
              /\ Number(p, 4) \in Nat /\ Number(p, 4) < WordMod /\ Len(p) = 5 + Number(p, 4)
         /\ p[1] = OpCpuRegRd => Len(p) = 2
         /\ p[1] = OpCpuRegWr => Len(p) = 3
         /\ p[1] = OpCartSetCfg => Len(p) = 6
         /\ p[1] \in {OpDbgHlt, OpDbgRun, OpQueryHlt, OpPpuDisable} => Len(p) = 1
<1>1. p \in Seq(Byte) /\ p # <<>> /\ p[1] \in Ops /\ Len(p) = Span(p)
      /\ (p[1] = OpEcho => Len(p) > 2) /\ (p[1] \in {OpCpuMemWr, OpPpuMemWr} => Len(p) > 4)
  BY OpsAll DEF Packets
<1>2. Len(p) \in Nat /\ Len(p) >= 1
  BY <1>1, EmptySeq
<1>3. Head(p) = p[1] /\ p[1] \in Byte
  BY <1>1, <1>2, ElementOfSeq
<1>4. ASSUME p[1] = OpEcho
      PROVE  Number(p, 2) \in Nat /\ Number(p, 2) < WordMod /\ Len(p) = 3 + Number(p, 2)
  <2>1. Len(p) = 3 + Number(p, 2)
    BY <1>1, <1>4, OpsAre DEF Span
  <2>2. 2 \in Nat /\ 2 + 1 <= Len(p)
    BY <1>1, <1>2, <1>4
  <2> QED
    BY <1>1, <2>1, <2>2, NumberFacts
<1>5. ASSUME p[1] \in {OpCpuMemRd, OpPpuMemRd}
      PROVE  /\ Len(p) = 5 /\ Number(p, 2) \in Nat /\ Number(p, 4) \in Nat /\ Number(p, 4) < WordMod
  <2>1. Len(p) = 5
    BY <1>1, <1>5, OpsAre DEF Span
  <2>2. Number(p, 2) \in Nat
    <3>1. 2 \in Nat /\ 2 >= 1 /\ 2 + 1 <= Len(p)
      BY <2>1
    <3> QED
      BY <1>1, <3>1, NumberFacts
  <2>3. Number(p, 4) \in Nat /\ Number(p, 4) < WordMod
    <3>1. 4 \in Nat /\ 4 >= 1 /\ 4 + 1 <= Len(p)
      BY <2>1
    <3> QED
      BY <1>1, <3>1, NumberFacts
  <2> QED
    BY <2>1, <2>2, <2>3
<1>6. ASSUME p[1] \in {OpCpuMemWr, OpPpuMemWr}
      PROVE  /\ Number(p, 4) \in Nat /\ Number(p, 4) < WordMod /\ Len(p) = 5 + Number(p, 4)
  <2>1. Len(p) = 5 + Number(p, 4)
    BY <1>1, <1>6, OpsAre DEF Span
  <2>2. 4 \in Nat /\ 4 + 1 <= Len(p)
    BY <1>1, <1>2, <1>6
  <2> QED
    BY <1>1, <2>1, <2>2, NumberFacts
<1>7. /\ p[1] = OpCpuRegRd => Len(p) = 2
      /\ p[1] = OpCpuRegWr => Len(p) = 3
      /\ p[1] = OpCartSetCfg => Len(p) = 6
      /\ p[1] \in {OpDbgHlt, OpDbgRun, OpQueryHlt, OpPpuDisable} => Len(p) = 1
  BY <1>1, OpsAre DEF Span
<1> QED
  BY <1>1, <1>2, <1>3, <1>4, <1>5, <1>6, <1>7

\* A packet of one byte is that byte.
LEMMA OneByte ==
  ASSUME NEW p \in Packets, NEW op, p[1] = op, Len(p) = 1
  PROVE  p = <<op>>
<1>1. p \in Seq(Byte) /\ op \in Byte
  BY PacketFacts
<1>2. <<op>> \in Seq(Byte) /\ Len(<<op>>) = 1 /\ <<op>>[1] = op
  BY <1>1
<1> QED
  BY <1>1, <1>2, SeqEqual
LEMMA Singles ==
  ASSUME NEW p \in Packets
  PROVE  /\ p[1] = OpDbgHlt <=> p = DbgHltPacket
         /\ p[1] = OpDbgRun <=> p = DbgRunPacket
         /\ p[1] = OpQueryHlt <=> p = QueryHltPacket
<1>1. /\ p[1] = OpDbgHlt => p = <<OpDbgHlt>>
      /\ p[1] = OpDbgRun => p = <<OpDbgRun>>
      /\ p[1] = OpQueryHlt => p = <<OpQueryHlt>>
  BY PacketFacts, OneByte
<1> QED
  BY <1>1 DEF DbgHltPacket, DbgRunPacket, QueryHltPacket

\* How many bytes an answer has.
LEMMA AsksFacts ==
  ASSUME NEW p \in Packets
  PROVE  /\ ReturnBytesExpected(p) \in Nat
         /\ p[1] = OpEcho => ReturnBytesExpected(p) = Number(p, 2)
         /\ p[1] \in {OpCpuMemRd, OpPpuMemRd} => ReturnBytesExpected(p) = Number(p, 4)
         /\ p[1] \in {OpCpuRegRd, OpQueryHlt} => ReturnBytesExpected(p) = 1 /\ Asks(p)
         /\ p[1] \notin Reads => ReturnBytesExpected(p) = 0
         /\ Asks(p) => p[1] \in Reads
<1>1. p[1] = OpEcho => ReturnBytesExpected(p) = Number(p, 2) /\ Number(p, 2) \in Nat
  BY PacketFacts, OpsAre DEF ReturnBytesExpected
<1>2. p[1] \in {OpCpuMemRd, OpPpuMemRd} => ReturnBytesExpected(p) = Number(p, 4) /\ Number(p, 4) \in Nat
  BY PacketFacts, OpsAre DEF ReturnBytesExpected
<1>3. p[1] \in {OpCpuRegRd, OpQueryHlt} => ReturnBytesExpected(p) = 1
  BY OpsAre DEF ReturnBytesExpected
<1>4. p[1] \notin Reads => ReturnBytesExpected(p) = 0
  BY OpsAre DEF ReturnBytesExpected, Reads
<1>5. ReturnBytesExpected(p) \in Nat
  BY <1>1, <1>2, <1>3, <1>4 DEF Reads
<1> QED
  BY <1>1, <1>2, <1>3, <1>4, <1>5 DEF Asks

Stores == cpu_mem \in [CpuSpace -> Byte] /\ ppu_mem \in [PpuSpace -> Byte] /\ regs \in [RegSels -> Byte]

LEMMA AtByte ==
  ASSUME NEW S, NEW f \in [S -> Byte], NEW a
  PROVE  At(f, a) \in Byte
<1>1. 0 \in Byte
  BY HciAssumption DEF Byte
<1> QED
  BY <1>1 DEF At

\* An answer has the bytes that are expected of it.
LEMMA AnswerFacts ==
  ASSUME NEW p \in Packets, Asks(p), Stores
  PROVE  Answer(p) \in Seq(Byte) /\ Len(Answer(p)) = ReturnBytesExpected(p)
<1>1. p \in Seq(Byte) /\ Len(p) \in Nat /\ p[1] \in Reads
  BY PacketFacts, AsksFacts
<1>2. CASE p[1] = OpEcho
  <2>1. Answer(p) = SubSeq(p, 4, Len(p))
    BY <1>2, OpsAre DEF Answer
  <2>2. Number(p, 2) \in Nat /\ Len(p) = 3 + Number(p, 2) /\ ReturnBytesExpected(p) = Number(p, 2)
    BY <1>2, PacketFacts, AsksFacts
  <2>3. From(p, 4) \in Seq(Byte) /\ Len(From(p, 4)) = Len(p) - 4 + 1
    BY <1>1, <2>2, FromFacts
  <2> QED
    BY <2>1, <2>2, <2>3 DEF From
<1>3. CASE p[1] \in {OpCpuMemRd, OpPpuMemRd}
  <2> DEFINE mem == IF p[1] = OpPpuMemRd THEN ppu_mem ELSE cpu_mem
             n   == Number(p, 4)
             x(i) == At(mem, (Number(p, 2) + i - 1) % WordMod)
  <2>1. Answer(p) = [i \in 1 .. n |-> x(i)]
    BY <1>3, OpsAre DEF Answer
  <2>2. n \in Nat /\ ReturnBytesExpected(p) = n
    BY <1>3, PacketFacts, AsksFacts
  <2>3. \A i \in 1 .. n : x(i) \in Byte
    BY AtByte DEF Stores
  <2> HIDE DEF x, n
  <2>4. [i \in 1 .. n |-> x(i)] \in [1 .. n -> Byte]
    BY <2>3
  <2> DEFINE a == [i \in 1 .. n |-> x(i)]
  <2> HIDE DEF a
  <2>5. a \in Seq(Byte) /\ Len(a) = n
    BY <2>2, <2>4 DEF a
  <2> QED
    BY <2>1, <2>2, <2>5 DEF a, n
<1>4. CASE p[1] = OpCpuRegRd
  <2>1. Answer(p) = <<At(regs, Sel(p[2]))>>
    BY <1>4, OpsAre DEF Answer
  <2>2. At(regs, Sel(p[2])) \in Byte
    BY AtByte DEF Stores
  <2> QED
    BY <1>4, <2>1, <2>2, AsksFacts
<1>5. CASE p[1] = OpQueryHlt
  <2>1. Answer(p) = <<1>>
    BY <1>5, OpsAre DEF Answer
  <2>2. 1 \in Byte
    BY HciAssumption DEF Byte
  <2> QED
    BY <1>5, <2>1, <2>2, AsksFacts
<1> QED
  BY <1>1, <1>2, <1>3, <1>4, <1>5 DEF Reads

\* The packets that the debugger makes are what hci.v takes for packets.
LEMMA HeadThree ==
  ASSUME NEW op \in Byte, NEW n \in Nat
  PROVE  LET q == <<op>> \o Word(n) IN
         /\ q \in Seq(Byte) /\ Len(q) = 3 /\ q[1] = op /\ (n < WordMod => Number(q, 2) = n)
<1> DEFINE w == Word(n)
           u == <<op>>
           q == u \o w
<1>1. u \in Seq(Byte) /\ Len(u) = 1 /\ u[1] = op
  OBVIOUS
<1>2. w \in Seq(Byte) /\ Len(w) = 2 /\ (n < WordMod => w[1] + w[2] * ByteMod = n)
  BY WordFacts
<1> HIDE DEF w, u
<1>3. q \in Seq(Byte) /\ Len(q) = 3 /\ q[1] = op /\ q[2] = w[1] /\ q[3] = w[2]
  <2>1. /\ q \in Seq(Byte) /\ Len(q) = Len(u) + Len(w)
        /\ \A i \in 1 .. Len(u) + Len(w) : q[i] = IF i <= Len(u) THEN u[i] ELSE w[i - Len(u)]
    BY <1>1, <1>2, ConcatProperties, Zenon
  <2> HIDE DEF q
  <2> QED
    BY <1>1, <1>2, <2>1
<1> HIDE DEF q
<1>4. Number(q, 2) = w[1] + w[2] * ByteMod
  BY <1>3 DEF Number
<1> QED
  BY <1>2, <1>3, <1>4 DEF q, w, u
LEMMA HeadFive ==
  ASSUME NEW op \in Byte, NEW a \in Nat, NEW n \in Nat
  PROVE  LET q == <<op>> \o Word(a) \o Word(n) IN
         /\ q \in Seq(Byte) /\ Len(q) = 5 /\ q[1] = op /\ (n < WordMod => Number(q, 4) = n)
<1> DEFINE t == <<op>> \o Word(a)
           w == Word(n)
           q == t \o w
<1>1. t \in Seq(Byte) /\ Len(t) = 3 /\ t[1] = op
  BY HeadThree
<1>2. w \in Seq(Byte) /\ Len(w) = 2 /\ (n < WordMod => w[1] + w[2] * ByteMod = n)
  BY WordFacts
<1> HIDE DEF w, t
<1>3. q \in Seq(Byte) /\ Len(q) = 5 /\ q[1] = op /\ q[4] = w[1] /\ q[5] = w[2]
  <2>1. /\ q \in Seq(Byte) /\ Len(q) = Len(t) + Len(w)
        /\ \A i \in 1 .. Len(t) + Len(w) : q[i] = IF i <= Len(t) THEN t[i] ELSE w[i - Len(t)]
    BY <1>1, <1>2, ConcatProperties
  <2> QED
    BY <1>1, <1>2, <2>1
<1> HIDE DEF q
<1>4. Number(q, 4) = w[1] + w[2] * ByteMod
  BY <1>3 DEF Number
<1> QED
  BY <1>2, <1>3, <1>4 DEF q, w, t

\* Bytes after its head leave the numbers in it as they are.
LEMMA HeadKept ==
  ASSUME NEW q \in Seq(Byte), NEW d \in Seq(Byte), Len(q) >= 1
  PROVE  /\ q \o d \in Seq(Byte) /\ Len(q \o d) = Len(q) + Len(d) /\ (q \o d)[1] = q[1]
         /\ q \o d # <<>>
         /\ \A i \in Nat : i >= 1 /\ i + 1 <= Len(q) => Number(q \o d, i) = Number(q, i)
<1>1. Len(q) \in Nat /\ Len(d) \in Nat
  BY LenProperties
<1>2. /\ q \o d \in Seq(Byte) /\ Len(q \o d) = Len(q) + Len(d)
      /\ \A i \in 1 .. Len(q) + Len(d) : (q \o d)[i] = IF i <= Len(q) THEN q[i] ELSE d[i - Len(q)]
  BY ConcatProperties
<1>3. \A i \in Nat : i >= 1 /\ i <= Len(q) => (q \o d)[i] = q[i]
  BY <1>1, <1>2
<1>4. q \o d # <<>>
  BY <1>1, <1>2, EmptySeq
<1>5. ASSUME NEW i \in Nat, i >= 1, i + 1 <= Len(q) PROVE Number(q \o d, i) = Number(q, i)
  <2>1. (q \o d)[i] = q[i]
    BY <1>1, <1>3, <1>5
  <2>2. (q \o d)[i + 1] = q[i + 1]
    BY <1>1, <1>3, <1>5
  <2> QED
    BY <2>1, <2>2 DEF Number
<1> QED
  BY <1>1, <1>2, <1>3, <1>4, <1>5

LEMMA EchoIs ==
  ASSUME NEW d \in Chunks
  PROVE  EchoPacket(d) \in Packets
<1> DEFINE q == <<OpEcho>> \o Word(Len(d))
           p == q \o d
<1>1. d \in Seq(Byte) /\ Len(d) \in Nat /\ Len(d) < WordMod
  BY LenProperties DEF Chunks
<1>2. OpEcho \in Byte
  BY OpsByte DEF Ops
<1>3. q \in Seq(Byte) /\ Len(q) = 3 /\ q[1] = OpEcho /\ Number(q, 2) = Len(d)
  BY <1>1, <1>2, HeadThree
<1> HIDE DEF q
<1>4. p \in Seq(Byte) /\ Len(p) = 3 + Len(d) /\ p[1] = OpEcho /\ p # <<>> /\ Number(p, 2) = Len(d)
  <2>1. 2 \in Nat /\ 2 >= 1 /\ 2 + 1 <= Len(q) /\ Len(q) >= 1
    BY <1>3
  <2> QED
    BY <1>1, <1>3, <2>1, HeadKept
<1> HIDE DEF p
<1>5. Len(p) = Span(p)
  BY <1>4, OpsAre DEF Span
<1>6. p[1] \in (0 .. OpCartSetCfg) \ {OpQueryErrCode} /\ p[1] \notin {OpCpuMemWr, OpPpuMemWr}
  BY <1>4, OpsAre
<1>7. p \in Packets
  BY <1>1, <1>4, <1>5, <1>6 DEF Packets
<1> QED
  BY <1>7 DEF EchoPacket, p, q

LEMMA ReadsAre ==
  ASSUME NEW op \in {OpCpuMemRd, OpPpuMemRd}, NEW a \in Nat, NEW n \in Nat
  PROVE  <<op>> \o Word(a) \o Word(n) \in Packets
<1> DEFINE q == <<op>> \o Word(a) \o Word(n)
<1>1. op \in Byte
  BY OpsByte DEF Ops
<1>2. q \in Seq(Byte) /\ Len(q) = 5 /\ q[1] = op
  BY <1>1, HeadFive
<1> HIDE DEF q
<1>3. Span(q) = 5 /\ q[1] \in (0 .. OpCartSetCfg) \ {OpQueryErrCode}
  <2>1. q[1] = 1 \/ q[1] = 9
    BY <1>2, OpsAre
  <2>2. Span(q) = 5
    BY <2>1, OpsAre DEF Span
  <2> QED
    BY <2>1, <2>2, OpsAre
<1>4. q # <<>> /\ q[1] # OpEcho /\ q[1] \notin {OpCpuMemWr, OpPpuMemWr}
  <2>1. q[1] = 1 \/ q[1] = 9
    BY <1>2, OpsAre
  <2>2. q # <<>>
    <3>1. Len(<<>>) = 0
      OBVIOUS
    <3> QED
      BY ONLY <1>2, <3>1
  <2> QED
    BY <2>1, <2>2, OpsAre
<1>5. q \in Packets
  BY <1>2, <1>3, <1>4 DEF Packets
<1> QED
  BY <1>5 DEF q

LEMMA WritesAre ==
  ASSUME NEW op \in {OpCpuMemWr, OpPpuMemWr}, NEW a \in Nat, NEW d \in Chunks
  PROVE  <<op>> \o Word(a) \o Word(Len(d)) \o d \in Packets
<1> DEFINE q == <<op>> \o Word(a) \o Word(Len(d))
           p == q \o d
<1>1. d \in Seq(Byte) /\ Len(d) \in Nat /\ Len(d) < WordMod
  BY LenProperties DEF Chunks
<1>2. op \in Byte
  BY OpsByte DEF Ops
<1>3. q \in Seq(Byte) /\ Len(q) = 5 /\ q[1] = op /\ Number(q, 4) = Len(d)
  BY <1>1, <1>2, HeadFive
<1> HIDE DEF q
<1>4. p \in Seq(Byte) /\ Len(p) = 5 + Len(d) /\ p[1] = op /\ p # <<>> /\ Number(p, 4) = Len(d)
  <2>1. 4 \in Nat /\ 4 >= 1 /\ 4 + 1 <= Len(q) /\ Len(q) >= 1
    BY <1>3
  <2> QED
    BY <1>1, <1>3, <2>1, HeadKept
<1> HIDE DEF p
<1>5. Len(p) = Span(p)
  BY <1>4, OpsAre DEF Span
<1>6. p[1] \in (0 .. OpCartSetCfg) \ {OpQueryErrCode} /\ p[1] # OpEcho
  BY <1>4, OpsAre
<1>7. p \in Packets
  BY <1>1, <1>4, <1>5, <1>6 DEF Packets
<1> QED
  BY <1>7 DEF p, q

LEMMA ShortAre ==
  /\ {DbgHltPacket, DbgRunPacket, QueryHltPacket, PpuDisablePacket} \subseteq Packets
  /\ \A r \in Byte : CpuRegRdPacket(r) \in Packets
  /\ \A r, b \in Byte : CpuRegWrPacket(r, b) \in Packets
<1>1. ASSUME NEW op \in {OpDbgHlt, OpDbgRun, OpQueryHlt, OpPpuDisable} PROVE <<op>> \in Packets
  <2>1. op \in Byte
    BY OpsByte DEF Ops
  <2> DEFINE p == <<op>>
  <2>2. p \in Seq(Byte) /\ Len(p) = 1 /\ p[1] = op /\ p # <<>>
    BY <2>1
  <2> HIDE DEF p
  <2>3. Span(p) = 1 /\ p[1] \in (0 .. OpCartSetCfg) \ {OpQueryErrCode}
        /\ p[1] # OpEcho /\ p[1] \notin {OpCpuMemWr, OpPpuMemWr}
    BY <2>2, OpsAre DEF Span
  <2>4. p \in Packets
    BY <2>2, <2>3 DEF Packets
  <2> QED
    BY <2>4 DEF p
<1>2. ASSUME NEW r \in Byte PROVE CpuRegRdPacket(r) \in Packets
  <2>1. OpCpuRegRd \in Byte
    BY OpsByte DEF Ops
  <2> DEFINE p == <<OpCpuRegRd, r>>
  <2>2. p \in Seq(Byte) /\ Len(p) = 2 /\ p[1] = OpCpuRegRd /\ p # <<>>
    BY <2>1
  <2> HIDE DEF p
  <2>3. Span(p) = 2 /\ p[1] \in (0 .. OpCartSetCfg) \ {OpQueryErrCode}
        /\ p[1] # OpEcho /\ p[1] \notin {OpCpuMemWr, OpPpuMemWr}
    BY <2>2, OpsAre DEF Span
  <2>4. p \in Packets
    BY <2>2, <2>3 DEF Packets
  <2> QED
    BY <2>4 DEF p, CpuRegRdPacket
<1>3. ASSUME NEW r \in Byte, NEW b \in Byte PROVE CpuRegWrPacket(r, b) \in Packets
  <2>1. OpCpuRegWr \in Byte
    BY OpsByte DEF Ops
  <2> DEFINE p == <<OpCpuRegWr, r, b>>
  <2>2. p \in Seq(Byte) /\ Len(p) = 3 /\ p[1] = OpCpuRegWr /\ p # <<>>
    BY <2>1
  <2> HIDE DEF p
  <2>3. Span(p) = 3 /\ p[1] \in (0 .. OpCartSetCfg) \ {OpQueryErrCode}
        /\ p[1] # OpEcho /\ p[1] \notin {OpCpuMemWr, OpPpuMemWr}
    BY <2>2, OpsAre DEF Span
  <2>4. p \in Packets
    BY <2>2, <2>3 DEF Packets
  <2> QED
    BY <2>4 DEF p, CpuRegWrPacket
<1> QED
  BY <1>1, <1>2, <1>3 DEF DbgHltPacket, DbgRunPacket, QueryHltPacket, PpuDisablePacket

LEMMA CartIs ==
  ASSUME NEW f \in Seq(Byte), Len(f) >= 9
  PROVE  CartSetCfgPacket(f) \in Packets
<1> DEFINE c == SubSeq(f, 5, 9)
           p == <<OpCartSetCfg>> \o c
<1>1. Len(f) \in Nat /\ \A i \in 5 .. 9 : f[i] \in Byte
  BY LenProperties, ElementOfSeq
<1>2. c \in Seq(Byte) /\ Len(c) = 5
  BY <1>1, SubSeqProperties
<1>3. OpCartSetCfg \in Byte
  BY OpsByte DEF Ops
<1> HIDE DEF c
<1>4. p \in Seq(Byte) /\ Len(p) = 6 /\ p[1] = OpCartSetCfg /\ p # <<>>
  <2> DEFINE u == <<OpCartSetCfg>>
  <2>1. u \in Seq(Byte) /\ Len(u) = 1 /\ Len(u) >= 1 /\ u[1] = OpCartSetCfg
    BY <1>3
  <2> HIDE DEF u
  <2>2. u \o c \in Seq(Byte) /\ Len(u \o c) = 6 /\ (u \o c)[1] = OpCartSetCfg /\ u \o c # <<>>
    <3>1. /\ u \o c \in Seq(Byte) /\ Len(u \o c) = Len(u) + Len(c) /\ (u \o c)[1] = u[1]
          /\ u \o c # <<>>
      BY <1>2, <2>1, HeadKept, Zenon
    <3> DEFINE x == u \o c
    <3> HIDE DEF x
    <3> QED
      BY <1>2, <2>1, <3>1 DEF x
  <2> QED
    BY <2>2 DEF u
<1> HIDE DEF p
<1>5. Span(p) = 6 /\ p[1] \in (0 .. OpCartSetCfg) \ {OpQueryErrCode}
      /\ p[1] # OpEcho /\ p[1] \notin {OpCpuMemWr, OpPpuMemWr}
  BY <1>4, OpsAre DEF Span
<1>6. p \in Packets
  BY <1>4, <1>5 DEF Packets
<1> QED
  BY <1>6 DEF p, c, CartSetCfgPacket

\* The packets of a ROM that is accepted.
LEMMA PiecesAre ==
  ASSUME NEW f \in Seq(Byte), NEW size \in Nat, NEW off \in Nat, 16 + off + size <= Len(f),
         NEW i \in 1 .. size \div Block
  PROVE  Piece(f, off, i - 1) \in Chunks /\ Len(Piece(f, off, i - 1)) = Block /\ Block * (i - 1) \in Nat
<1> DEFINE b == Block
           k == size \div b
           r == size % b
           j == i - 1
           v == b * j
           w == b * (j + 1)
<1>1. b \in Nat /\ b > 0 /\ b < WordMod
  <2>1. WordMod \in Int
    <3>1. ByteMod \in Nat
      BY HciAssumption
    <3> QED
      BY <3>1, SMT DEF WordMod
  <2> QED
    BY <2>1, HostAssumption
<1>2. size = (b * k) + r /\ r \in 0 .. b - 1 /\ k \in Int
  BY <1>1, SMT
<1>3. i \in 1 .. k
  OBVIOUS
<1> HIDE DEF b, k, r
<1>4. j \in Nat /\ j + 1 <= k
  BY <1>2, <1>3
<1> HIDE DEF j
<1>5. v \in Nat /\ w = v + b /\ w <= size
  <2>1. v \in Nat /\ w = v + b
    BY <1>1, <1>4, SMT
  <2>2. b * (j + 1) <= b * k
    BY <1>1, <1>2, <1>4, SMT
  <2> DEFINE z == b * k
  <2>3. z \in Int /\ w <= z /\ size = z + r
    BY <1>1, <1>2, <2>2, SMT
  <2> HIDE DEF z, w
  <2> QED
    BY <1>2, <2>1, <2>3
<1> DEFINE p == SubSeq(f, 17 + off + v, 16 + off + w)
<1>6. p = Piece(f, off, j)
  BY DEF Piece, b
<1> HIDE DEF v, w
<1>7. Len(f) \in Nat
  BY LenProperties
<1>8. \A x \in 17 + off + v .. 16 + off + w : f[x] \in Byte
  <2> SUFFICES ASSUME NEW x \in 17 + off + v .. 16 + off + w PROVE x \in 1 .. Len(f)
    BY ElementOfSeq
  <2> QED
    BY <1>1, <1>5, <1>7
<1>9. 17 + off + v \in Int /\ 16 + off + w \in Int /\ 17 + off + v <= 16 + off + w
      /\ (16 + off + w) - (17 + off + v) + 1 = b
  BY <1>1, <1>5
<1>10. p \in Seq(Byte) /\ Len(p) = b
  <2> DEFINE lo == 17 + off + v
             hi == 16 + off + w
  <2> HIDE DEF lo, hi
  <2>1. SubSeq(f, lo, hi) \in Seq(Byte) /\ Len(SubSeq(f, lo, hi)) = hi - lo + 1
    BY <1>8, <1>9, SubSeqProperties DEF lo, hi
  <2> QED
    BY <1>9, <2>1 DEF lo, hi
<1> HIDE DEF p
<1>11. p \in Chunks
  BY <1>1, <1>10 DEF Chunks
<1> QED
  BY <1>5, <1>6, <1>10, <1>11 DEF b, j, v

LEMMA RomIs ==
  ASSUME NEW f \in Roms, Accepts(f)
  PROVE  RomPackets(f) \in Seq(Packets)
<1> DEFINE a == PrgSize(f)
           b == ChrSize(f)
           n == a \div Block
           m == b \div Block
<1>1. f \in Seq(Byte) /\ Len(f) \in Nat /\ Len(f) >= 16 /\ Len(f) >= 16 + a + b
      /\ PrgBank \in Nat /\ ChrBank \in Nat /\ RomBase \in Nat /\ Block \in Nat /\ Block > 0
  <2>1. Block \in Nat /\ Block > 0
    <3>1. WordMod \in Int
      BY HciAssumption, SMT DEF WordMod
    <3> QED
      BY <3>1, HostAssumption
  <2>2. f \in Seq(Byte) /\ Len(f) >= 16 /\ Len(f) >= 16 + PrgSize(f) + ChrSize(f)
    BY HostAssumption
  <2>3. Len(f) \in Nat
    BY <2>2, LenProperties
  <2>4. PrgBank \in Nat /\ ChrBank \in Nat /\ RomBase \in Nat
    BY HostAssumption
  <2> QED
    BY <2>1, <2>2, <2>3, <2>4
<1>2. f[5] \in Nat /\ f[6] \in Nat
  <2>1. 5 \in 1 .. Len(f) /\ 6 \in 1 .. Len(f)
    BY <1>1
  <2>2. f[5] \in Byte /\ f[6] \in Byte
    BY <1>1, <2>1, ElementOfSeq
  <2> QED
    BY <2>2, HciAssumption DEF Byte
<1>3. a \in Nat /\ b \in Nat
  BY <1>1, <1>2, SMT DEF PrgSize, ChrSize
<1> HIDE DEF a, b
<1>4. n \in Nat /\ m \in Nat
  BY <1>1, <1>3, SMT
<1>5. PrgPackets(f) \in Seq(Packets)
  <2> DEFINE x(i) == CpuMemWrPacket(RomBase + Block * (i - 1), Piece(f, 0, i - 1))
  <2>1. ASSUME NEW i \in 1 .. n PROVE x(i) \in Packets
    <3>1. 16 + 0 + a <= Len(f) /\ 0 \in Nat
      BY <1>1, <1>3
    <3>2. Piece(f, 0, i - 1) \in Chunks /\ Block * (i - 1) \in Nat
      BY <1>1, <1>3, <3>1, PiecesAre
    <3>3. RomBase + Block * (i - 1) \in Nat
      <4> DEFINE v == Block * (i - 1)
      <4>1. v \in Nat
        BY <3>2
      <4> HIDE DEF v
      <4>2. RomBase + v \in Nat
        BY <1>1, <4>1
      <4> QED
        BY <4>2 DEF v
    <3> QED
      BY <3>2, <3>3, WritesAre DEF CpuMemWrPacket
  <2> HIDE DEF x, n
  <2>2. [i \in 1 .. n |-> x(i)] \in [1 .. n -> Packets]
    BY <2>1
  <2>3. [i \in 1 .. n |-> x(i)] \in Seq(Packets)
    BY <1>4, <2>2
  <2> QED
    BY <2>3 DEF PrgPackets, x, n, a
<1>6. ChrPackets(f) \in Seq(Packets)
  <2> DEFINE x(i) == PpuMemWrPacket(Block * (i - 1), Piece(f, a, i - 1))
  <2>1. ASSUME NEW i \in 1 .. m PROVE x(i) \in Packets
    <3>1. 16 + a + b <= Len(f)
      BY <1>1
    <3>2. Piece(f, a, i - 1) \in Chunks /\ Block * (i - 1) \in Nat
      BY <1>1, <1>3, <3>1, PiecesAre
    <3> QED
      BY <3>2, WritesAre DEF PpuMemWrPacket
  <2> HIDE DEF x, m
  <2>2. [i \in 1 .. m |-> x(i)] \in [1 .. m -> Packets]
    BY <2>1
  <2>3. [i \in 1 .. m |-> x(i)] \in Seq(Packets)
    BY <1>4, <2>2
  <2> QED
    BY <2>3 DEF ChrPackets, x, m, a, b
<1> DEFINE hd == <<DbgHltPacket, PpuDisablePacket, CartSetCfgPacket(f)>>
           tl == <<CpuRegWrPacket(0, f[13 + a]), CpuRegWrPacket(1, f[14 + a]), DbgRunPacket>>
<1>7. hd \in Seq(Packets)
  <2>1. Len(f) >= 9
    BY <1>1
  <2>2. CartSetCfgPacket(f) \in Packets
    BY <1>1, <2>1, CartIs
  <2>3. DbgHltPacket \in Packets /\ PpuDisablePacket \in Packets
    BY ShortAre
  <2> QED
    BY <2>2, <2>3
<1>8. tl \in Seq(Packets)
  <2>1. 13 + a \in 1 .. Len(f) /\ 14 + a \in 1 .. Len(f)
    BY <1>1, <1>3
  <2>2. f[13 + a] \in Byte /\ f[14 + a] \in Byte /\ 0 \in Byte /\ 1 \in Byte
    BY <1>1, <2>1, ElementOfSeq, HciAssumption DEF Byte
  <2>3. /\ CpuRegWrPacket(0, f[13 + a]) \in Packets /\ CpuRegWrPacket(1, f[14 + a]) \in Packets
        /\ DbgRunPacket \in Packets
    BY <2>2, ShortAre
  <2> QED
    BY <2>3
<1> DEFINE u == PrgPackets(f)
           v == ChrPackets(f)
<1> HIDE DEF hd, tl, u, v
<1>9. hd \o u \o v \o tl \in Seq(Packets)
  <2>1. hd \o u \in Seq(Packets)
    BY <1>5, <1>7, ConcatProperties DEF u
  <2>2. hd \o u \o v \in Seq(Packets)
    BY <1>6, <2>1, ConcatProperties DEF v
  <2> QED
    BY <1>8, <2>2, ConcatProperties
<1> QED
  BY <1>9 DEF RomPackets, hd, tl, u, v, a

-----------------------------------------------------------------------------
(* What is on the line. *)

\* An empty line, and one on which nothing has changed.
LEMMA FollowNone ==
  ASSUME NEW d \in BOOLEAN, d => running
  PROVE  Follow(<<>>, d)
<1> DEFINE x == [bytes |-> <<>>, off |-> d]
<1>1. x.bytes \in Seq(Byte) /\ x.bytes = <<>> /\ x.off = d
  OBVIOUS
<1> HIDE DEF x
<1>2. Way({x})
  BY <1>1 DEF Way
<1> QED
  BY <1>1, <1>2 DEF Follow
LEMMA FollowKept ==
  ASSUME NEW t, NEW d, Follow(t, d), running' = running
  PROVE  Follow(t, d)'
BY DEF Follow, Way
LEMMA FollowEnd ==
  ASSUME NEW d, Follow(<<>>, d)
  PROVE  d => running
<1>1. PICK G : Way(G) /\ \E x \in G : x.bytes = <<>> /\ x.off = d
  BY DEF Follow
<1>2. PICK x \in G : x.bytes = <<>> /\ x.off = d
  BY <1>1
<1>3. ASSUME NEW p \in Packets, NEW y \in G, <<>> = p \o y.bytes PROVE FALSE
  <2>1. p \in Seq(Byte) /\ p # <<>> /\ y.bytes \in Seq(Byte)
    BY <1>1, PacketFacts DEF Way
  <2> QED
    BY <1>3, <2>1, HeadOn
<1>4. \/ x.bytes = <<>> /\ (x.off => running)
      \/ \E p \in Packets : \E y \in G : x.bytes = p \o y.bytes
  BY <1>1, <1>2, Zenon DEF Way
<1> QED
  BY <1>2, <1>3, <1>4

\* The packet that comes first.
LEMMA FollowFirst ==
  ASSUME NEW t, NEW d, Follow(t, d), t # <<>>
  PROVE  \E p \in Packets, y \in Seq(Byte), e \in BOOLEAN :
           /\ t = p \o y /\ ~Asks(p) /\ Follow(y, e)
           /\ d => p = DbgHltPacket
           /\ p = DbgRunPacket => e
<1>1. PICK G : Way(G) /\ \E x \in G : x.bytes = t /\ x.off = d
  BY DEF Follow
<1>2. PICK x \in G : x.bytes = t /\ x.off = d
  BY <1>1
<1>3. PICK p \in Packets, y \in G : ~Asks(p) /\ x.bytes = p \o y.bytes /\ (x.off => p = DbgHltPacket)
                                    /\ (p = DbgRunPacket => y.off)
  BY <1>1, <1>2 DEF Way
<1>4. y.bytes \in Seq(Byte) /\ y.off \in BOOLEAN
  BY <1>1 DEF Way
<1>5. Follow(y.bytes, y.off)
  BY <1>1 DEF Follow
<1> QED
  BY <1>2, <1>3, <1>4, <1>5

\* A packet without an answer is appended.
LEMMA FollowMore ==
  ASSUME NEW t \in Seq(Byte), NEW d \in BOOLEAN, Follow(t, d), NEW p \in Packets, ~Asks(p),
         running \in BOOLEAN, running => p \in {DbgHltPacket, QueryHltPacket},
         running' = (IF p = DbgRunPacket THEN TRUE ELSE running /\ p # DbgHltPacket)
  PROVE  Follow(t \o p, d)'
<1>1. PICK G : Way(G) /\ \E x \in G : x.bytes = t /\ x.off = d
  BY DEF Follow
<1>2. p \in Seq(Byte) /\ p # <<>> /\ running' \in BOOLEAN
  BY PacketFacts
<1>3. PICK on \in BOOLEAN : on = running'
  BY <1>2
<1> DEFINE m(x) == [bytes |-> x.bytes \o p, off |-> x.off]
<1>4. \A x : m(x).bytes = x.bytes \o p /\ m(x).off = x.off
  OBVIOUS
<1>5. PICK e : e.bytes = <<>> /\ e.off = on
  <2>1. [bytes |-> <<>>, off |-> on].bytes = <<>> /\ [bytes |-> <<>>, off |-> on].off = on
    OBVIOUS
  <2> QED
    BY <2>1, Zenon
<1> HIDE DEF m
<1>6. PICK G2 : G2 = {m(x) : x \in G} \union {e}
  OBVIOUS
<1>7. running => p = DbgHltPacket
  <2>1. p # QueryHltPacket
    <3>1. p = QueryHltPacket => p[1] = OpQueryHlt
      BY Singles
    <3> QED
      BY <3>1, AsksFacts
  <2> QED
    BY <2>1
<1>8. ASSUME NEW z \in G2
      PROVE  /\ z.bytes \in Seq(Byte) /\ z.off \in BOOLEAN
             /\ \/ z.bytes = <<>> /\ (z.off => running')
                \/ \E q \in Packets : \E y \in G2 :
                     /\ ~Asks(q) /\ z.bytes = q \o y.bytes
                     /\ z.off => q = DbgHltPacket
                     /\ q = DbgRunPacket => y.off
  <2>1. CASE z = e
    <3>1. z.bytes = <<>> /\ z.off = running' /\ z.bytes \in Seq(Byte) /\ z.off \in BOOLEAN
      BY <1>2, <1>3, <1>5, <2>1, EmptySeq
    <3> QED
      BY <3>1, Zenon
  <2>2. CASE \E x \in G : z = m(x)
    <3>1. PICK x \in G : z = m(x)
      BY <2>2
    <3>2. x.bytes \in Seq(Byte) /\ x.off \in BOOLEAN
      BY <1>1 DEF Way
    <3>3. z.bytes = x.bytes \o p /\ z.off = x.off
      BY <1>4, <3>1
    <3>4. z.bytes \in Seq(Byte) /\ z.off \in BOOLEAN
      BY <1>2, <3>2, <3>3, ConcatProperties
    <3>5. CASE x.bytes = <<>> /\ (x.off => running)
      <4>1. z.bytes = p \o e.bytes
        <5>1. <<>> \o p = p /\ p \o <<>> = p
          BY <1>2
        <5> QED
          BY <1>5, <3>3, <3>5, <5>1
      <4>2. z.off => p = DbgHltPacket
        BY <1>7, <3>3, <3>5
      <4>3. p = DbgRunPacket => e.off
        BY <1>3, <1>5
      <4>4. e \in G2
        BY <1>6
      <4> QED
        BY <3>4, <4>1, <4>2, <4>3, <4>4, Zenon
    <3>6. CASE \E q \in Packets : \E y \in G :
                  /\ ~Asks(q) /\ x.bytes = q \o y.bytes
                  /\ x.off => q = DbgHltPacket
                  /\ q = DbgRunPacket => y.off
      <4>1. PICK q \in Packets, y \in G :
                  /\ ~Asks(q) /\ x.bytes = q \o y.bytes
                  /\ x.off => q = DbgHltPacket
                  /\ q = DbgRunPacket => y.off
        BY <3>6
      <4>2. y.bytes \in Seq(Byte) /\ q \in Seq(Byte)
        BY <1>1, PacketFacts DEF Way
      <4>3. (q \o y.bytes) \o p = q \o (y.bytes \o p)
        <5>1. \A s \in Seq(Byte) : (q \o s) \o p = q \o (s \o p)
          BY <1>2, <4>2, ConcatAssociative
        <5> QED
          BY <4>2, <5>1, Zenon
      <4>4. m(y) \in G2 /\ m(y).bytes = y.bytes \o p /\ m(y).off = y.off
        BY <1>4, <1>6
      <4>5. z.bytes = q \o m(y).bytes
        BY <3>3, <4>1, <4>3, <4>4
      <4> QED
        BY <3>3, <3>4, <4>1, <4>4, <4>5, Zenon
    <3>7. \/ x.bytes = <<>> /\ (x.off => running)
          \/ \E q \in Packets : \E y \in G :
                  /\ ~Asks(q) /\ x.bytes = q \o y.bytes
                  /\ x.off => q = DbgHltPacket
                  /\ q = DbgRunPacket => y.off
      BY <1>1, Zenon DEF Way
    <3> QED
      BY <3>5, <3>6, <3>7
  <2> QED
    BY <1>6, <2>1, <2>2
<1>9. Way(G2)'
  <2>1. \A z \in G2 :
          /\ z.bytes \in Seq(Byte) /\ z.off \in BOOLEAN
          /\ \/ z.bytes = <<>> /\ (z.off => running')
             \/ \E q \in Packets : \E y \in G2 :
                  /\ ~Asks(q) /\ z.bytes = q \o y.bytes
                  /\ z.off => q = DbgHltPacket
                  /\ q = DbgRunPacket => y.off
    BY <1>8, Zenon
  <2> QED
    BY <2>1, Zenon DEF Way
<1>10. PICK x \in G : x.bytes = t /\ x.off = d
  BY <1>1
<1>11. m(x) \in G2 /\ m(x).bytes = t \o p /\ m(x).off = d
  BY <1>4, <1>6, <1>10
<1> QED
  BY <1>9, <1>11, Zenon DEF Follow

-----------------------------------------------------------------------------
(* The program. *)

\* While nothing is asked, what the program does otherwise does not matter.
LEMMA Unmoved ==
  ASSUME Link, ~Asked, Asked' = FALSE, UNCHANGED <<h, wr, rx, tx, down, up>>, running' = running
  PROVE  Link'
<1>1. PICK t \in Seq(Byte), d \in BOOLEAN, r \in Seq(Byte) :
         Follow(t, d) /\ (h.state = "DISABLED" => d) /\ Silent(r, t)
  BY DEF Link, Coming, Telling, Told
<1>2. Follow(t, d)'
  BY <1>1, FollowKept
<1>3. Silent(r, t)'
  BY <1>1 DEF Silent, Said, Stream, Busy, Between, Gathering, Doing
<1>4. (h.state = "DISABLED" => d)'
  BY <1>1
<1> QED
  BY <1>2, <1>3, <1>4 DEF Link

LEMMA SameBoard ==
  ASSUME Board, Room, UNCHANGED <<nes, down>>, up' \in Seq(Byte)
  PROVE  Board' /\ Room'
BY DEF Board, Room, nes, Fields


LEMMA IssueKeeps ==
  ASSUME SInv, NEW ps \in Seq(Packets), Issue(ps), UNCHANGED <<nes, down>>, up' \in {up, <<>>},
         mode' # "off", mode' = "init" => ps = <<EchoPacket(InitString)>>
  PROVE  SInv'
<1>1. /\ todo = <<>> /\ todo' = ps /\ UNCHANGED <<waiting, running>>
      /\ upset' = IF upset = 0 THEN 0 ELSE upset + 1
  BY DEF Issue, Idle
<1>2. Sending'
  <2>1. Sending
    BY DEF SInv
  <2>2. upset' \in Nat /\ waiting = FALSE
    BY <1>1, <2>1 DEF Sending
  <2> QED
    BY <1>1, <2>1, <2>2 DEF Sending
<1>3. ASSUME upset' = 0 PROVE ~hidden' /\ Board' /\ Room' /\ Link'
  <2>1. ~hidden /\ Board /\ Room /\ Link /\ Sending
    BY <1>1, <1>3 DEF SInv, Sending
  <2>2. ~Asked /\ Asked' = FALSE
    BY <1>1, <2>1 DEF Asked, Sending
  <2>3. up = <<>>
    <3>1. Said = <<>>
      BY <2>1, <2>2 DEF Link, Silent, Coming, Telling, Told
    <3>2. up \in Seq(Byte) /\ tx \o wr \in Seq(Byte)
      BY <2>1, ConcatProperties DEF Board
    <3> QED
      BY <3>1, <3>2, HeadOn DEF Said
  <2>4. UNCHANGED <<h, wr, rx, tx, down, up, hidden>>
    BY <2>3 DEF nes
  <2>5. Link'
    BY <1>1, <2>1, <2>2, <2>4, Unmoved
  <2>6. Board' /\ Room'
    <3>1. up' \in Seq(Byte)
      BY <2>1, <2>4 DEF Board
    <3> QED
      BY <2>1, <3>1, SameBoard
  <2> QED
    BY <2>1, <2>4, <2>5, <2>6
<1> QED
  BY <1>2, <1>3 DEF SInv

\* A text, a program, and what else is sent, is a packet or several.
LEMMA TextIs ==
  ASSUME NEW t \in Texts, CreateObjFromString(t) # <<>>
  PROVE  CreateObjFromString(t) \in Packets
BY HostAssumption
LEMMA ProgramIs ==
  ASSUME NEW f \in Programs
  PROVE  CpuMemWrPacket(Number(f, 1), SubSeq(f, 3, Len(f))) \in Packets
<1>1. f \in Seq(Byte) /\ Len(f) \in 2 .. WordMod + 1 /\ WordMod \in Nat
  <2>1. WordMod \in Nat
    BY HciAssumption, SMT DEF WordMod
  <2> QED
    BY <2>1, HostAssumption
<1>2. Number(f, 1) \in Nat
  <2>1. 1 \in Nat /\ 1 >= 1 /\ 1 + 1 <= Len(f)
    BY <1>1
  <2> QED
    BY <1>1, <2>1, NumberFacts
<1>3. From(f, 3) \in Seq(Byte) /\ Len(From(f, 3)) = Len(f) - 3 + 1
  <2>1. 3 \in Nat /\ 3 >= 1 /\ 3 <= Len(f) + 1
    BY <1>1
  <2> QED
    BY <1>1, <2>1, FromFacts
<1>4. From(f, 3) \in Chunks
  BY <1>1, <1>3 DEF Chunks
<1>5. OpCpuMemWr \in {OpCpuMemWr, OpPpuMemWr}
  OBVIOUS
<1>6. CpuMemWrPacket(Number(f, 1), From(f, 3)) \in Packets
  BY <1>2, <1>4, <1>5, WritesAre DEF CpuMemWrPacket
<1> QED
  BY <1>6 DEF From

LEMMA CallKeeps ==
  ASSUME SInv, NEW p \in Packets, Call(p)
  PROVE  SInv'
<1>1. <<p>> \in Seq(Packets)
  OBVIOUS
<1> QED
  BY <1>1, IssueKeeps DEF Call, line

LEMMA ScriptKeeps ==
  ASSUME SInv,
         \/ LuaEcho \/ LuaCpuMemRd \/ LuaCpuMemWr \/ LuaPpuMemRd \/ LuaPpuMemWr \/ LuaCpuRegRd
         \/ LuaCpuRegWr \/ LuaDbgHlt \/ LuaDbgRun \/ LuaWaitForHlt \/ LuaLoadAsm
  PROVE  SInv'
<1> SUFFICES \E p \in Packets : Call(p)
  BY CallKeeps
<1>1. OpCpuMemRd \in {OpCpuMemRd, OpPpuMemRd} /\ OpPpuMemRd \in {OpCpuMemRd, OpPpuMemRd}
      /\ OpCpuMemWr \in {OpCpuMemWr, OpPpuMemWr} /\ OpPpuMemWr \in {OpCpuMemWr, OpPpuMemWr}
  OBVIOUS
<1>2. Strings \subseteq Chunks /\ Addrs \subseteq Nat /\ Counts \subseteq Nat /\ Sels \subseteq Byte
  BY HostAssumption
<1>3. ASSUME LuaEcho PROVE \E p \in Packets : Call(p)
  BY <1>2, <1>3, EchoIs DEF LuaEcho
<1>4. ASSUME LuaCpuMemRd PROVE \E p \in Packets : Call(p)
  <2>1. \A a \in Addrs, n \in Counts : CpuMemRdPacket(a, n) \in Packets
    BY <1>1, <1>2, ReadsAre DEF CpuMemRdPacket
  <2> QED
    BY <1>4, <2>1 DEF LuaCpuMemRd
<1>5. ASSUME LuaPpuMemRd PROVE \E p \in Packets : Call(p)
  <2>1. \A a \in Addrs, n \in Counts : PpuMemRdPacket(a, n) \in Packets
    BY <1>1, <1>2, ReadsAre DEF PpuMemRdPacket
  <2> QED
    BY <1>5, <2>1 DEF LuaPpuMemRd
<1>6. ASSUME LuaCpuMemWr PROVE \E p \in Packets : Call(p)
  <2>1. \A a \in Addrs, d \in Strings : CpuMemWrPacket(a, d) \in Packets
    BY <1>1, <1>2, WritesAre DEF CpuMemWrPacket
  <2> QED
    BY <1>6, <2>1 DEF LuaCpuMemWr
<1>7. ASSUME LuaPpuMemWr PROVE \E p \in Packets : Call(p)
  <2>1. \A a \in Addrs, d \in Strings : PpuMemWrPacket(a, d) \in Packets
    BY <1>1, <1>2, WritesAre DEF PpuMemWrPacket
  <2> QED
    BY <1>7, <2>1 DEF LuaPpuMemWr
<1>8. ASSUME LuaCpuRegRd PROVE \E p \in Packets : Call(p)
  BY <1>2, <1>8, ShortAre DEF LuaCpuRegRd
<1>9. ASSUME LuaCpuRegWr PROVE \E p \in Packets : Call(p)
  <2>1. PICK r \in Sels, d \in Strings : d # <<>> /\ Call(CpuRegWrPacket(r, Head(d)))
    BY <1>9 DEF LuaCpuRegWr
  <2>2. d \in Seq(Byte)
    BY <1>2 DEF Chunks
  <2>3. Head(d) \in Byte
    BY <2>1, <2>2, HeadTailProperties
  <2>4. CpuRegWrPacket(r, Head(d)) \in Packets
    BY <1>2, <2>3, ShortAre
  <2> QED
    BY <2>1, <2>4
<1>10. ASSUME LuaDbgHlt \/ LuaDbgRun \/ LuaWaitForHlt PROVE \E p \in Packets : Call(p)
  BY <1>10, ShortAre DEF LuaDbgHlt, LuaDbgRun, LuaWaitForHlt
<1>11. ASSUME LuaLoadAsm PROVE \E p \in Packets : Call(p)
  BY <1>11, ProgramIs DEF LuaLoadAsm
<1> QED
  BY <1>3, <1>4, <1>5, <1>6, <1>7, <1>8, <1>9, <1>10, <1>11

LEMMA StartKeeps ==
  ASSUME SInv, Start
  PROVE  SInv'
<1>1. EchoPacket(InitString) \in Packets
  BY HostAssumption, EchoIs
<1>2. <<EchoPacket(InitString)>> \in Seq(Packets)
  BY <1>1
<1>3. Issue(<<EchoPacket(InitString)>>) /\ UNCHANGED <<nes, down>> /\ up' \in {up, <<>>} /\ mode' = "init"
  BY DEF Start
<1> DEFINE ps == <<EchoPacket(InitString)>>
<1> HIDE DEF ps
<1>4. ps \in Seq(Packets) /\ Issue(ps) /\ mode' # "off" /\ (mode' = "init" => ps = <<EchoPacket(InitString)>>)
  BY <1>2, <1>3 DEF ps
<1> QED
  BY <1>3, <1>4, IssueKeeps
LEMMA LoadRomKeeps ==
  ASSUME SInv, LoadRom
  PROVE  SInv'
<1>1. PICK f \in Roms : Accepts(f) /\ Issue(RomPackets(f))
  BY DEF LoadRom
<1>2. RomPackets(f) \in Seq(Packets)
  BY <1>1, RomIs
<1>3. UNCHANGED <<nes, down>> /\ up' \in {up, <<>>} /\ mode' # "off" /\ mode' # "init"
  BY DEF LoadRom, line
<1> QED
  BY <1>1, <1>2, <1>3, IssueKeeps
LEMMA RawKeeps ==
  ASSUME SInv, RawDbgSend
  PROVE  SInv'
<1>1. PICK t \in Texts : CreateObjFromString(t) # <<>> /\ Issue(<<CreateObjFromString(t)>>)
  BY DEF RawDbgSend
<1> DEFINE ps == <<CreateObjFromString(t)>>
<1>2. ps \in Seq(Packets)
  BY <1>1, TextIs
<1>3. UNCHANGED <<nes, down>> /\ up' \in {up, <<>>} /\ mode' # "off" /\ mode' # "init"
  BY DEF RawDbgSend, line
<1>4. Issue(ps)
  BY <1>1
<1> HIDE DEF ps
<1> QED
  BY <1>2, <1>3, <1>4, IssueKeeps
\* The dialogs
LEMMA DialogsKeep ==
  ASSUME SInv, Exit \/ Dialogs \/ TestScriptDlgRun \/ ScriptEnds
  PROVE  SInv'
<1>1. /\ todo = <<>> /\ UNCHANGED <<nes, line, todo, waiting, running, upset>> /\ mode' # "init"
  BY DEF Exit, Dialogs, TestScriptDlgRun, ScriptEnds, Open, Idle
<1>2. Sending'
  BY <1>1 DEF SInv, Sending
<1>3. ASSUME upset' = 0 PROVE ~hidden' /\ Board' /\ Room' /\ Link'
  <2>1. ~hidden /\ Board /\ Room /\ Link /\ Sending
    BY <1>1, <1>3 DEF SInv
  <2>2. ~Asked /\ Asked' = FALSE
    BY <1>1, <2>1 DEF Asked, Sending
  <2>3. UNCHANGED <<h, wr, rx, tx, down, up, hidden>> /\ running' = running
    BY <1>1 DEF nes, line
  <2>4. Link'
    BY <2>1, <2>2, <2>3, Unmoved
  <2>5. Board' /\ Room'
    <3>1. up' \in Seq(Byte)
      BY <2>1, <2>3 DEF Board
    <3>2. UNCHANGED <<nes, down>>
      BY <1>1, <2>3
    <3> QED
      BY <2>1, <3>1, <3>2, SameBoard
  <2> QED
    BY <2>1, <2>3, <2>4, <2>5
<1> QED
  BY <1>2, <1>3 DEF SInv

\* The program begins with an echo.
LEMMA EchoFirst == EchoPacket(InitString)[1] = OpEcho
<1>1. InitString \in Seq(Byte) /\ Len(InitString) \in Nat /\ OpEcho \in Byte
  BY HostAssumption, LenProperties, OpsByte DEF Chunks, Ops
<1> DEFINE q == <<OpEcho>> \o Word(Len(InitString))
<1>2. q \in Seq(Byte) /\ Len(q) = 3 /\ q[1] = OpEcho
  BY <1>1, HeadThree, Zenon
<1> HIDE DEF q
<1>3. Len(q) >= 1
  BY <1>2
<1>4. (q \o InitString)[1] = OpEcho
  BY <1>1, <1>2, <1>3, HeadKept
<1> QED
  BY <1>4 DEF EchoPacket, q

LEMMA SendKeeps ==
  ASSUME SInv, SendData
  PROVE  SInv'
<1>1. Sending /\ todo # <<>> /\ ~waiting
  BY DEF SInv, SendData
<1>2. Head(todo) \in Packets /\ Tail(todo) \in Seq(Packets)
  BY <1>1, HeadTailProperties DEF Sending
<1>0. PICK p \in Packets : p = Head(todo)
  BY <1>2
<1>3. p \in Seq(Byte) /\ Len(p) \in Nat
  BY PacketFacts
<1>4. PICK n \in Taken(p) :
        /\ down' = down \o SubSeq(p, 1, n)
        /\ upset' = (IF n < Len(p) \/ Strays(p) THEN Worse ELSE upset)
        /\ running' = (IF p = DbgRunPacket THEN TRUE ELSE running /\ p # DbgHltPacket)
        /\ \/ Crash /\ n < Len(p)
           \/ /\ \/ waiting' = TRUE /\ UNCHANGED todo /\ (p[1] \in Reads \/ mode = "raw")
                 \/ Done /\ p[1] \notin Reads
              /\ UNCHANGED mode
  BY <1>0 DEF SendData
<1>5. UNCHANGED <<nes, up>>
  BY DEF SendData
<1>6. Worse \in Nat /\ Worse # 0 /\ upset \in Nat
  BY <1>1 DEF Sending, Worse
<1>7. Sending'
  <2>1. upset' \in Nat /\ running' \in BOOLEAN
    BY <1>1, <1>4, <1>6 DEF Sending
  <2>2. CASE Crash
    <3>1. todo' = <<>> /\ mode' = "off" /\ waiting' = FALSE
      BY <2>2 DEF Crash
    <3> QED
      BY <1>1, <2>1, <3>1, EmptySeq DEF Sending
  <2>3. CASE waiting' = TRUE /\ UNCHANGED todo /\ UNCHANGED mode
    BY <1>1, <2>1, <2>3 DEF Sending
  <2>4. CASE Done /\ p[1] \notin Reads /\ UNCHANGED mode
    <3>1. todo' = Tail(todo) /\ waiting' = FALSE
      BY <2>4 DEF Done
    <3>2. mode # "off"
      BY <1>1 DEF Sending
    <3>3. mode # "init"
      <4>1. mode = "init" => p = EchoPacket(InitString)
        BY <1>0, <1>1 DEF Sending
      <4>2. EchoPacket(InitString)[1] = OpEcho
        BY EchoFirst
      <4> QED
        BY <2>4, <4>1, <4>2 DEF Reads
    <3> QED
      BY <1>2, <2>1, <2>4, <3>1, <3>2, <3>3 DEF Sending
  <2> QED
    BY <1>4, <2>2, <2>3, <2>4
<1>8. ASSUME upset' = 0 PROVE ~hidden' /\ Board' /\ Room' /\ Link'
  <2>1. upset = 0 /\ ~(n < Len(p)) /\ ~Strays(p)
    BY <1>4, <1>6, <1>8
  <2>2. n = Len(p)
    BY <1>3, <2>1 DEF Taken
  <2>3. SubSeq(p, 1, n) = p
    <3>1. <<>> \in Seq(Byte) /\ p \o <<>> = p
      BY <1>3
    <3>2. SubSeq(p \o <<>>, 1, Len(p)) = p
      BY <1>3, <3>1, Beginning
    <3> QED
      BY <2>2, <3>1, <3>2
  <2>4. down' = down \o p
    BY <1>4, <2>3
  <2>5. ~hidden /\ Board /\ Room /\ Link
    BY <2>1 DEF SInv
  <2>6. UNCHANGED <<h, wr, rx, tx, up, hidden, cpu_mem, ppu_mem, regs>>
    BY <1>5 DEF nes
  <2>7. Board' /\ Room'
    <3>1. down' \in Seq(Byte)
      BY <1>3, <2>4, <2>5, ConcatProperties DEF Board
    <3> QED
      BY <2>5, <2>6, <3>1 DEF Board, Room, Fields
  <2>8. ~Asked
    BY <1>1 DEF Asked
  <2>9. PICK t \in Seq(Byte), d \in BOOLEAN, r \in Seq(Byte) :
          Follow(t, d) /\ (h.state = "DISABLED" => d) /\ Silent(r, t)
    BY <2>5, <2>8 DEF Link, Coming, Telling, Told
  <2>10. Stream' = r \o (t \o p) /\ Stream' = (r \o t) \o p /\ Said' = <<>> /\ t \o p \in Seq(Byte)
    <3>1. rx \in Seq(Byte) /\ down \in Seq(Byte) /\ p \in Seq(Byte)
      BY <1>3, <2>5 DEF Board
    <3>2. (rx \o down) \o p = rx \o (down \o p)
      BY <3>1, Joined
    <3>3. (r \o t) \o p = r \o (t \o p) /\ t \o p \in Seq(Byte)
      BY <1>3, ConcatAssociative, ConcatProperties
    <3>4. Stream' = rx \o (down \o p) /\ Said' = Said
      BY <2>4, <2>6 DEF Stream, Said
    <3> QED
      BY <2>9, <3>2, <3>3, <3>4 DEF Silent, Stream
  <2>11. Busy(r)'
    BY <2>6, <2>9 DEF Silent, Busy, Between, Gathering, Doing
  <2>12. running => p \in {DbgHltPacket, QueryHltPacket}
    BY <2>1 DEF Strays
  <2>13. (h.state = "DISABLED" => d)'
    BY <2>6, <2>9
  <2>14. ~(Crash /\ n < Len(p))
    BY <2>1
  <2>15. CASE Asks(p)
    <3>1. p[1] \in Reads
      BY <2>15, AsksFacts
    <3>2. waiting' = TRUE /\ todo' = todo
      BY <1>4, <2>14, <3>1
    <3>3. p # DbgRunPacket /\ p # DbgHltPacket
      BY <3>1, Singles, OpsAre DEF Reads
    <3>4. running' = running
      BY <1>1, <1>4, <3>3 DEF Sending
    <3>5. Asked' /\ Head(todo') = p
      BY <1>0, <2>15, <3>2 DEF Asked
    <3>6. Follow(t, d)'
      BY <2>9, <3>4, FollowKept
    <3>7. Coming(r, t)'
      BY <2>10, <2>11, <2>12, <3>3, <3>4, <3>5 DEF Coming
    <3> QED
      BY <2>7, <2>5, <2>6, <2>13, <3>6, <3>7 DEF Link
  <2>16. CASE ~Asks(p)
    <3>1. Asked' = FALSE
      <4>1. \/ waiting' = FALSE
            \/ todo' = todo
        BY <1>4, <2>14 DEF Done
      <4>2. todo' = todo => Asks(Head(todo')) = Asks(p)
        BY <1>0
      <4> QED
        BY <2>16, <4>1, <4>2 DEF Asked
    <3>2. Follow(t \o p, d)'
      <4>1. running \in BOOLEAN
        BY <1>1 DEF Sending
      <4> QED
        BY <1>4, <2>9, <2>12, <2>16, <4>1, FollowMore
    <3>3. Silent(r, t \o p)'
      BY <2>10, <2>11, <3>1 DEF Silent
    <3> QED
      BY <2>5, <2>6, <2>7, <2>10, <2>13, <3>2, <3>3 DEF Link
  <2> QED
    BY <2>15, <2>16
<1> QED
  BY <1>7, <1>8 DEF SInv

-----------------------------------------------------------------------------
(* What the decoder has said. *)

\* A beginning of what is said, as long as the answer has bytes left.
LEMMA SomeOf ==
  ASSUME NEW a \in Seq(Byte), NEW k \in 0 .. Len(a)
  PROVE  SubSeq(a, 1, k) \in Seq(Byte) /\ Len(SubSeq(a, 1, k)) = k
<1>1. Len(a) \in Nat /\ k \in Int
  BY LenProperties
<1>2. \A i \in 1 .. k : a[i] \in Byte
  <2> SUFFICES ASSUME NEW i \in 1 .. k PROVE i \in 1 .. Len(a)
    BY ElementOfSeq
  <2> QED
    BY <1>1
<1>3. SubSeq(a, 1, k) \in Seq(Byte) /\ Len(SubSeq(a, 1, k)) = IF 1 <= k THEN k - 1 + 1 ELSE 0
  BY <1>1, <1>2, SubSeqProperties
<1> QED
  BY <1>1, <1>3
LEMMA SaidFacts ==
  ASSUME Board
  PROVE  /\ Said \in Seq(Byte) /\ Len(Said) = Len(up) + Len(tx) + Len(wr)
         /\ Len(up) \in Nat /\ Len(tx) \in Nat /\ Len(wr) \in Nat
         /\ SubSeq(Said, 1, Len(up)) = up
<1>1. up \in Seq(Byte) /\ tx \in Seq(Byte) /\ wr \in Seq(Byte)
  BY DEF Board
<1>2. tx \o wr \in Seq(Byte) /\ Len(tx \o wr) = Len(tx) + Len(wr)
  BY <1>1, ConcatProperties
<1>3. Said \in Seq(Byte) /\ Len(Said) = Len(up) + Len(tx \o wr)
  BY <1>1, <1>2, ConcatProperties DEF Said
<1>4. SubSeq(Said, 1, Len(up)) = up
  BY <1>1, <1>2, Beginning DEF Said
<1>5. Len(up) \in Nat /\ Len(tx) \in Nat /\ Len(wr) \in Nat
  BY <1>1, LenProperties
<1> QED
  BY <1>2, <1>3, <1>4, <1>5
LEMMA NoneSaid ==
  ASSUME Board, Said = <<>>
  PROVE  up = <<>> /\ tx = <<>> /\ wr = <<>>
<1>1. Len(Said) = 0
  BY EmptySeq
<1>2. Len(up) = 0 /\ Len(tx) = 0 /\ Len(wr) = 0
  BY <1>1, SaidFacts
<1> QED
  BY <1>2, EmptySeq DEF Board

LEMMA TellingFacts ==
  ASSUME Board, NEW p \in Packets, Asks(p),
         \/ Said = <<>> /\ Gathering(p, Stream)
         \/ Answering(p, Stream)
  PROVE  /\ Len(Said) < ReturnBytesExpected(p) /\ Said = SubSeq(Answer(p), 1, Len(Said))
         /\ p # QueryHltPacket /\ ~Between
<1> DEFINE a == Answer(p)
           n == ReturnBytesExpected(p)
<1>1. a \in Seq(Byte) /\ Len(a) = n /\ n \in Nat /\ n > 0
  <2>1. Stores
    BY DEF Board, Stores
  <2> QED
    BY <2>1, AnswerFacts, AsksFacts DEF Asks
<1> HIDE DEF a, n
<1>2. ASSUME p[1] # OpQueryHlt PROVE p # QueryHltPacket
  BY <1>2, Singles
<1>3. CASE Said = <<>> /\ Gathering(p, Stream)
  <2>1. Len(Said) = 0 /\ Said = SubSeq(a, 1, 0)
    <3>1. SubSeq(a, 1, 0) = <<>>
      BY SubSeqEmpty
    <3> QED
      BY <1>3, <3>1, EmptySeq
  <2>2. p[1] # OpQueryHlt
    BY <1>3, OpsAre DEF Gathering
  <2>3. ~Between
    BY <1>3 DEF Gathering, Between
  <2> QED
    BY <1>1, <1>2, <2>1, <2>2, <2>3 DEF a, n
<1>4. ASSUME NEW k \in 0 .. n - 1, Said = SubSeq(a, 1, k) PROVE Len(Said) < n /\ Said = SubSeq(a, 1, Len(Said))
  <2>1. Len(SubSeq(a, 1, k)) = k
    BY <1>1, SomeOf
  <2> QED
    BY <1>1, <1>4, <2>1
<1>5. CASE Answering(p, Stream)
  <2>1. ~Between
    BY <1>5 DEF Answering, Between
  <2>2. CASE h.state = "ECHO_1" /\ p[1] = OpEcho
    <3>1. h.execute_cnt \in 1 .. Len(p) - 3 /\ Said = SubSeq(a, 1, Len(p) - 3 - h.execute_cnt)
      BY <1>5, <2>2 DEF Answering, a
    <3>2. Len(p) = 3 + n
      BY <2>2, PacketFacts, AsksFacts DEF n
    <3>3. Len(p) - 3 - h.execute_cnt \in 0 .. n - 1
      BY <1>1, <3>1, <3>2
    <3>4. p[1] # OpQueryHlt
      BY <2>2, OpsAre
    <3> QED
      BY <1>2, <1>4, <2>1, <3>1, <3>3, <3>4 DEF a, n
  <2>3. CASE h.state = "MEM_RD_1" /\ p[1] \in {OpCpuMemRd, OpPpuMemRd}
    <3>1. PICK m \in 1 .. Number(p, 4) : Said = SubSeq(a, 1, Number(p, 4) - m)
      BY <1>5, <2>3 DEF Answering, a
    <3>2. Number(p, 4) = n
      BY <2>3, AsksFacts DEF n
    <3>3. n - m \in 0 .. n - 1
      BY <1>1, <3>2
    <3>4. p[1] # OpQueryHlt
      BY <2>3, OpsAre
    <3> QED
      BY <1>2, <1>4, <2>1, <3>1, <3>2, <3>3, <3>4 DEF a, n
  <2>4. CASE h.state = "REG_RD" /\ p[1] = OpCpuRegRd /\ Said = <<>>
    <3>1. SubSeq(a, 1, 0) = <<>>
      BY SubSeqEmpty
    <3>2. p[1] # OpQueryHlt
      BY <2>4, OpsAre
    <3>3. 0 \in 0 .. n - 1
      BY <1>1
    <3> QED
      BY <1>2, <1>4, <2>1, <2>4, <3>1, <3>2, <3>3 DEF a, n
  <2> QED
    BY <1>5, <2>2, <2>3, <2>4 DEF Answering
<1> QED
  BY <1>3, <1>5

\* When the bytes that are asked have arrived, nothing else is under way.
LEMMA Heard ==
  ASSUME Board, Link, Asked, NEW p \in Packets, p = Head(todo), Len(up) >= ReturnBytesExpected(p)
  PROVE  /\ Stream = <<>> /\ tx = <<>> /\ wr = <<>> /\ Len(up) = ReturnBytesExpected(p) /\ Between
         /\ \/ h.state = "DECODE" /\ up = Answer(p)
            \/ p = QueryHltPacket /\ up = <<0>>
         /\ h.state = "DISABLED" => running
<1> DEFINE n == ReturnBytesExpected(p)
<1>1. Asks(p) /\ n \in Nat /\ n > 0
  BY AsksFacts DEF Asked, Asks
<1>2. Len(Said) = Len(up) + Len(tx) + Len(wr) /\ Len(up) \in Nat /\ Len(tx) \in Nat /\ Len(wr) \in Nat
      /\ SubSeq(Said, 1, Len(up)) = up
  BY SaidFacts
<1> HIDE DEF n
<1>3. Said # <<>>
  <2>1. Len(Said) > 0
    BY <1>1, <1>2 DEF n
  <2> QED
    BY <2>1, EmptySeq
<1>4. ~Telling
  <2> SUFFICES ASSUME Telling PROVE FALSE
    OBVIOUS
  <2>1. Len(Said) < n
    BY <1>1, TellingFacts DEF Telling, n
  <2> QED
    BY <1>1, <1>2, <2>1 DEF n
<1>5. PICK d \in BOOLEAN : Follow(<<>>, d) /\ (h.state = "DISABLED" => d) /\ Told
  BY <1>3, <1>4 DEF Link, Silent, Coming
<1>6. d => running
  BY <1>5, FollowEnd
<1>7. Len(Said) = n
  <2>1. CASE Said = Answer(p)
    <3>1. Stores
      BY DEF Board, Stores
    <3> QED
      BY <1>1, <2>1, <3>1, AnswerFacts DEF n
  <2>2. CASE p = QueryHltPacket /\ Said = <<0>>
    <3>1. p[1] = OpQueryHlt
      BY <2>2, Singles
    <3> QED
      BY <2>2, <3>1, AsksFacts DEF n
  <2> QED
    BY <1>5, <2>1, <2>2 DEF Told
<1>8. Len(tx) = 0 /\ Len(wr) = 0 /\ Len(up) = n
  BY <1>1, <1>2, <1>7 DEF n
<1>9. tx = <<>> /\ wr = <<>>
  BY <1>8, EmptySeq DEF Board
<1>10. Said = up
  <2>1. up \in Seq(Byte)
    BY DEF Board
  <2>2. up \o <<>> = up /\ <<>> \o <<>> = <<>>
    BY <2>1, JoinedNone, EmptySeq
  <2> QED
    BY <1>9, <2>2 DEF Said
<1>11. /\ Between
       /\ \/ h.state = "DECODE" /\ up = Answer(p)
          \/ p = QueryHltPacket /\ up = <<0>>
  BY <1>5, <1>10 DEF Told, Between
<1> QED
  BY <1>5, <1>6, <1>8, <1>9, <1>11 DEF Told, n

LEMMA ReceiveKeeps ==
  ASSUME SInv, ReceiveData
  PROVE  SInv'
<1>1. Sending /\ waiting /\ todo # <<>> /\ mode # "off"
  BY DEF SInv, ReceiveData, Sending
<1>2. Head(todo) \in Packets /\ Tail(todo) \in Seq(Packets)
  BY <1>1, HeadTailProperties DEF Sending
<1>3. PICK p \in Packets : p = Head(todo)
  BY <1>2
<1> DEFINE n    == ReturnBytesExpected(p)
           got  == IF Len(up) < n THEN Len(up) ELSE n
           full == got = n
<1>4. /\ up' = SubSeq(up, got + 1, Len(up))
      /\ upset' = IF full THEN upset ELSE Worse
      /\ \/ ~full /\ Crash /\ UNCHANGED running
         \/ Handle(SubSeq(up, 1, got), full)
      /\ UNCHANGED <<down, nes>>
  BY <1>3 DEF ReceiveData
<1>5. n \in Nat /\ Worse \in Nat /\ Worse # 0 /\ upset \in Nat
  BY <1>1, AsksFacts DEF Sending, Worse
<1> HIDE DEF n, got, full
<1>6. ASSUME NEW data, NEW f, Handle(data, f)
      PROVE  \/ waiting' = FALSE /\ todo' = todo /\ UNCHANGED <<running, mode>> /\ p = QueryHltPacket
                /\ mode # "init"
             \/ /\ waiting' = FALSE /\ todo' = Tail(todo)
                /\ \/ UNCHANGED running /\ (mode = "init" \/ p # QueryHltPacket)
                   \/ running' = FALSE /\ p = QueryHltPacket /\ mode # "init" /\ (f => data[1] # 0)
                /\ mode' # "init" /\ (mode' = "off" => mode = "init")
  <2>1. CASE mode = "init"
    <3>0. Head(todo) # QueryHltPacket
      <4>1. p[1] = OpEcho
        BY <1>1, <1>3, <2>1, EchoFirst DEF Sending
      <4> QED
        BY <1>3, <4>1, Singles, OpsAre
    <3>1. Done /\ UNCHANGED running /\ mode' \in {"menu", "off"}
      <4>1. /\ mode' \in IF f THEN {IF data = InitString THEN "menu" ELSE "off"} ELSE {"menu", "off"}
            /\ Done /\ UNCHANGED running
        BY <1>6, <2>1, <3>0 DEF Handle
      <4>2. (IF f THEN {IF data = InitString THEN "menu" ELSE "off"} ELSE {"menu", "off"})
              \subseteq {"menu", "off"}
        OBVIOUS
      <4> QED
        BY <4>1, <4>2, Zenon
    <3> QED
      BY <2>1, <3>1 DEF Done
  <2>2. CASE mode # "init" /\ p = QueryHltPacket
    <3>1. /\ \E byte \in IF f THEN {data[1]} ELSE IF polled THEN {0} ELSE {0, 1} :
               IF Again(byte) THEN waiting' = FALSE /\ polled' = TRUE /\ UNCHANGED <<todo, running>>
               ELSE Done /\ running' = FALSE
          /\ UNCHANGED mode
      BY <1>3, <1>6, <2>2 DEF Handle
    <3> QED
      BY <1>1, <2>2, <3>1 DEF Done, Again
  <2>3. CASE mode # "init" /\ p # QueryHltPacket
    <3>1. Done /\ UNCHANGED <<mode, running>>
      BY <1>3, <1>6, <2>3 DEF Handle
    <3> QED
      BY <1>1, <2>3, <3>1 DEF Done
  <2> QED
    BY <2>1, <2>2, <2>3
<1>7. Sending'
  <2>1. upset' \in Nat
    BY <1>4, <1>5
  <2>2. CASE Crash /\ UNCHANGED running
    BY <1>1, <2>1, <2>2, EmptySeq DEF Crash, Sending
  <2>3. CASE Handle(SubSeq(up, 1, got), full)
    <3>1. CASE waiting' = FALSE /\ todo' = todo /\ UNCHANGED <<running, mode>>
      BY <1>1, <2>1, <3>1 DEF Sending
    <3>2. CASE /\ waiting' = FALSE /\ todo' = Tail(todo) /\ running' \in BOOLEAN
               /\ mode' # "init" /\ (mode' = "off" => mode = "init")
      <4>1. mode = "init" => Tail(todo) = <<>>
        <5>1. \A x : Tail(<<x>>) = <<>>
          OBVIOUS
        <5> QED
          BY <1>1, <5>1, Zenon DEF Sending
      <4> QED
        BY <1>2, <2>1, <3>2, <4>1 DEF Sending
    <3> QED
      BY <1>1, <1>6, <2>3, <3>1, <3>2 DEF Sending
  <2> QED
    BY <1>4, <2>2, <2>3
<1>8. ASSUME upset' = 0 PROVE ~hidden' /\ Board' /\ Room' /\ Link'
  <2>1. upset = 0 /\ full
    BY <1>4, <1>5, <1>8
  <2>2. ~hidden /\ Board /\ Room /\ Link
    BY <2>1 DEF SInv
  <2>3. up \in Seq(Byte) /\ Len(up) \in Nat
    BY <2>2, LenProperties DEF Board
  <2>4. Len(up) >= n /\ got = n
    BY <1>5, <2>1, <2>3 DEF got, full
  <2>5. UNCHANGED <<h, wr, rx, tx, hidden, down, cpu_mem, ppu_mem, regs>>
    BY <1>4 DEF nes
  <2>6. Handle(SubSeq(up, 1, n), TRUE)
    BY <1>4, <2>1, <2>4 DEF full
  <2>7. up' = <<>>
    <3>1. CASE ~Asks(p)
      <4>1. Said = <<>>
        BY <1>3, <2>2, <3>1 DEF Link, Silent, Coming, Telling, Told, Asked
      <4>2. up = <<>>
        BY <2>2, <4>1, NoneSaid
      <4>3. n = 0
        BY <1>5, <3>1 DEF Asks, n
      <4>4. Len(up) < got + 1 /\ got + 1 \in Int /\ Len(up) \in Int
        BY <2>4, <4>2, <4>3, EmptySeq
      <4> QED
        BY <1>4, <4>4, SubSeqEmpty
    <3>2. CASE Asks(p)
      <4>1. Len(up) = n
        BY <1>1, <1>3, <2>2, <2>4, <3>2, Heard DEF Asked, n
      <4>2. Len(up) < got + 1 /\ got + 1 \in Int /\ Len(up) \in Int
        BY <1>5, <2>4, <4>1
      <4> QED
        BY <1>4, <4>2, SubSeqEmpty
    <3> QED
      BY <3>1, <3>2
  <2>8. Board' /\ Room'
    <3>1. up' \in Seq(Byte)
      BY <2>7, EmptySeq
    <3> QED
      BY <1>4, <2>2, <3>1, SameBoard
  <2>9. waiting' = FALSE
    BY <1>6, <2>6
  <2>10. Asked' = FALSE
    BY <2>9 DEF Asked
  <2>11. CASE ~Asks(p)
    <3>1. ~Asked
      BY <1>3, <2>11 DEF Asked
    <3>2. up = <<>>
      <4>1. Said = <<>>
        BY <2>2, <3>1 DEF Link, Silent, Coming, Telling, Told
      <4> QED
        BY <2>2, <4>1, NoneSaid
    <3>3. running' = running
      <4>1. p # QueryHltPacket
        <5>1. p = QueryHltPacket => p[1] = OpQueryHlt
          BY Singles
        <5> QED
          BY <2>11, <5>1, AsksFacts
      <4> QED
        BY <1>6, <2>6, <4>1
    <3>4. Link'
      BY <2>2, <2>5, <2>7, <2>10, <3>1, <3>2, <3>3, Unmoved
    <3> QED
      BY <2>2, <2>5, <2>8, <3>4
  <2>12. CASE Asks(p)
    <3>1. Asked
      BY <1>1, <1>3, <2>12 DEF Asked
    <3>2. /\ Stream = <<>> /\ tx = <<>> /\ wr = <<>> /\ Len(up) = n /\ Between
          /\ \/ h.state = "DECODE" /\ up = Answer(p)
             \/ p = QueryHltPacket /\ up = <<0>>
          /\ h.state = "DISABLED" => running
      BY <1>3, <2>2, <2>4, <3>1, Heard DEF n
    <3>3. SubSeq(up, 1, n) = up
      BY <2>3, <3>2, SubSeqFull
    <3>4. h.state = "DISABLED" => running'
      <4>1. CASE running' = running
        BY <3>2, <4>1
      <4>2. CASE p = QueryHltPacket /\ up[1] # 0
        <5>1. up # <<0>>
          BY <4>2
        <5> QED
          BY <3>2, <5>1
      <4> QED
        BY <1>6, <2>6, <3>3, <4>1, <4>2
    <3>5. running' \in BOOLEAN /\ h.state \in {"DECODE", "DISABLED"}
      BY <1>7, <3>2 DEF Sending, Between
    <3>6. PICK d \in BOOLEAN : d = (h.state = "DISABLED")
      OBVIOUS
    <3>7. Follow(<<>>, d)'
      <4>1. (d => running')
        BY <3>4, <3>6
      <4>2. ASSUME d => running' PROVE Follow(<<>>, d)'
        <5> DEFINE x == [bytes |-> <<>>, off |-> d]
        <5>1. x.bytes \in Seq(Byte) /\ x.bytes = <<>> /\ x.off = d
          OBVIOUS
        <5> HIDE DEF x
        <5>2. PICK y : y = x
          OBVIOUS
        <5>3. Way({y})'
          BY <4>2, <5>1, <5>2 DEF Way
        <5> QED
          BY <5>1, <5>2, <5>3 DEF Follow
      <4> QED
        BY <4>1, <4>2
    <3>8. (h.state = "DISABLED" => d)'
      BY <2>5, <3>6
    <3>9. Silent(<<>>, <<>>)'
      <4>1. Stream' = <<>> /\ Said' = <<>>
        <5>1. <<>> \o <<>> = <<>>
          BY EmptySeq, JoinedNone
        <5> QED
          BY <2>5, <2>7, <3>2, <5>1 DEF Stream, Said
      <4>2. Stream' = <<>> \o <<>>
        BY <4>1, EmptySeq, JoinedNone
      <4>3. Busy(<<>>)'
        BY <2>5, <3>2 DEF Busy, Between
      <4> QED
        BY <2>10, <4>1, <4>2, <4>3 DEF Silent
    <3>10. Link'
      BY <3>7, <3>8, <3>9, EmptySeq DEF Link
    <3> QED
      BY <2>2, <2>5, <2>8, <3>10
  <2> QED
    BY <2>11, <2>12
<1> QED
  BY <1>7, <1>8 DEF SInv

-----------------------------------------------------------------------------
(* Counts and addresses. *)

\* What is left after a whole number of times m.
LEMMA LeftIs ==
  ASSUME NEW m \in Nat, m > 0, NEW q \in Int, NEW a \in 0 .. m - 1
  PROVE  ((m * q) + a) % m = a
<1> DEFINE y == (m * q) + a
           r == y \div m
           b == y % m
<1>1. y \in Int
  BY SMT
<1>2. y = (m * r) + b /\ b \in 0 .. m - 1 /\ r \in Int
  <2> HIDE DEF y
  <2> QED
    BY <1>1, SMT
<1> HIDE DEF r, b
<1>3. (m * q) + a = (m * r) + b
  BY <1>2
<1>4. ASSUME q + 1 <= r PROVE FALSE
  <2>1. m * (q + 1) <= m * r /\ m * (q + 1) = (m * q) + m /\ m * q \in Int /\ m * r \in Int
    BY <1>2, <1>4, SMT
  <2> DEFINE u == m * q
             v == m * r
  <2>2. u + m <= v /\ u + a = v + b /\ u \in Int /\ v \in Int
    BY <1>3, <2>1
  <2> HIDE DEF u, v
  <2> QED
    BY <1>2, <2>2
<1>5. ASSUME r + 1 <= q PROVE FALSE
  <2>1. m * (r + 1) <= m * q /\ m * (r + 1) = (m * r) + m /\ m * q \in Int /\ m * r \in Int
    BY <1>2, <1>5, SMT
  <2> DEFINE u == m * q
             v == m * r
  <2>2. v + m <= u /\ u + a = v + b /\ u \in Int /\ v \in Int
    BY <1>3, <2>1
  <2> HIDE DEF u, v
  <2> QED
    BY <1>2, <2>2
<1>6. r = q
  BY <1>2, <1>4, <1>5
<1>7. a = b
  <2>1. m * q = m * r /\ m * q \in Int
    BY <1>2, <1>6, SMT
  <2> DEFINE u == m * q
  <2>2. u \in Int /\ u + a = u + b
    BY <1>3, <2>1
  <2> HIDE DEF u
  <2> QED
    BY <1>2, <2>2
<1> QED
  BY <1>7 DEF b
LEMMA LeftOnce ==
  ASSUME NEW m \in Nat, m > 0, NEW a \in 0 .. m - 1
  PROVE  (a + m) % m = a /\ a % m = a
<1>1. ((m * 1) + a) % m = a /\ ((m * 0) + a) % m = a
  BY LeftIs
<1>2. (m * 1) + a = a + m /\ (m * 0) + a = a
  BY SMT
<1> QED
  BY <1>1, <1>2
LEMMA LeftNext ==
  ASSUME NEW m \in Nat, m > 0, NEW x \in Nat
  PROVE  ((x % m) + 1) % m = (x + 1) % m
<1> DEFINE q == x \div m
           a == x % m
           u == m * q
<1>1. x = (m * q) + a /\ a \in 0 .. m - 1 /\ q \in Int
  BY SMT
<1> HIDE DEF q, a
<1>2. u \in Int
  BY <1>1, SMT
<1>3. CASE a + 1 < m
  <2>1. a + 1 \in 0 .. m - 1
    BY <1>1, <1>3
  <2>2. ((m * q) + (a + 1)) % m = a + 1
    BY <1>1, <2>1, LeftIs
  <2>3. (m * q) + (a + 1) = x + 1
    <3> HIDE DEF u
    <3>1. x = u + a
      BY <1>1 DEF u
    <3>2. u + (a + 1) = x + 1
      BY <1>1, <1>2, <3>1
    <3> QED
      BY <3>2 DEF u
  <2>4. (a + 1) % m = a + 1
    BY <2>1, LeftOnce
  <2> QED
    BY <2>2, <2>3, <2>4 DEF a
<1>4. CASE a + 1 = m
  <2>1. 0 \in 0 .. m - 1 /\ q + 1 \in Int
    BY <1>1
  <2>2. ((m * (q + 1)) + 0) % m = 0
    BY <2>1, LeftIs
  <2>3. (m * (q + 1)) + 0 = x + 1
    <3>1. m * (q + 1) = u + m
      BY <1>1, SMT
    <3> HIDE DEF u
    <3>2. x = u + a
      BY <1>1 DEF u
    <3>3. (u + m) + 0 = x + 1
      BY <1>1, <1>2, <1>4, <3>2
    <3> QED
      BY <3>1, <3>3
  <2>4. (a + 1) % m = 0
    <3>1. (0 + m) % m = 0
      BY <2>1, LeftOnce
    <3>2. a + 1 = 0 + m
      BY <1>4
    <3> QED
      BY <3>1, <3>2
  <2> QED
    BY <2>2, <2>3, <2>4 DEF a
<1> QED
  BY <1>1, <1>3, <1>4
LEMMA WordModFacts == WordMod \in Nat /\ WordMod > 12 /\ WordMod >= ByteMod /\ ByteMod \in Nat /\ ByteMod > 12
<1>1. ByteMod \in Nat /\ ByteMod > 12
  BY HciAssumption
<1>2. ByteMod * ByteMod >= ByteMod /\ ByteMod * ByteMod \in Nat
  BY <1>1, SMT
<1> QED
  BY <1>1, <1>2 DEF WordMod

\* The registers of the decoder.
IsRegs(g) == g = [f \in Fields |-> g[f]]

LEMMA EndedFacts ==
  ASSUME IsRegs(h)
  PROVE  /\ IsRegs(Ended) /\ Ended.state = "DECODE" /\ Ended.decode_cnt = 0 /\ Ended.execute_cnt = 0
         /\ \A c : IsRegs([Ended EXCEPT !.cfg = c]) /\ [Ended EXCEPT !.cfg = c].state = "DECODE"
BY DEF Ended, HciReset, IsRegs, Fields

\* One byte less to come, and none after the last.
LEMMA CountedIs ==
  ASSUME NEW g, NEW c \in 1 .. 2 * WordMod, g.execute_cnt = c
  PROVE  Counted(g) = IF c = 1 THEN Ended ELSE [g EXCEPT !.execute_cnt = c - 1]
<1> DEFINE m == 2 * WordMod
<1>1. m \in Nat /\ m > 0
  BY WordModFacts
<1> HIDE DEF m
<1>2. c \in 1 .. m
  BY DEF m
<1>3. c - 1 \in 0 .. m - 1
  BY <1>1, <1>2
<1>4. ((c - 1) + m) % m = c - 1
  BY <1>1, <1>3, LeftOnce
<1>5. c + m - 1 = (c - 1) + m
  BY <1>1, <1>2
<1>6. (g.execute_cnt + m - 1) % m = c - 1
  BY <1>4, <1>5
<1>7. c - 1 = 0 <=> c = 1
  BY <1>1, <1>2
<1> QED
  BY <1>6, <1>7 DEF Counted, m

-----------------------------------------------------------------------------
(* The decoder in a packet. *)

\* A clock in which an address or a count is gathered.
LEMMA GatherIs ==
  ASSUME IsRegs(h), Gather, h.decode_cnt \in 0 .. 3
  PROVE  LET c == h.decode_cnt
             k == c + (IF h.state = "ECHO_0" THEN 2 ELSE 0)
             n == (h.execute_cnt % ByteMod) + Data * ByteMod
         IN /\ IsRegs(h')
            /\ k \in 0 .. 2 =>
                 h'.state = h.state /\ h'.unit = h.unit /\ h'.decode_cnt = c + 1
            /\ k = 0 => h'.addr = Data
            /\ k = 1 => h'.addr = (h.addr % ByteMod) + Data * ByteMod
            /\ k = 2 => h'.addr = h.addr /\ h'.execute_cnt = Data
            /\ k = 3 /\ n = 0 => h' = Ended
            /\ k = 3 /\ n # 0 =>
                 /\ h'.state = Begun /\ h'.unit = h.unit /\ h'.addr = h.addr
                 /\ h'.execute_cnt = IF h.state = "MEM_RD_0" THEN 2 * n ELSE n
<1> DEFINE c == h.decode_cnt
           k == c + (IF h.state = "ECHO_0" THEN 2 ELSE 0)
           n == (h.execute_cnt % ByteMod) + Data * ByteMod
           g == [h EXCEPT !.decode_cnt = @ + 1]
<1>1. h' = CASE k = 0 -> [g EXCEPT !.addr = Data]
             [] k = 1 -> [g EXCEPT !.addr = (@ % ByteMod) + Data * ByteMod]
             [] k = 2 -> [g EXCEPT !.execute_cnt = Data]
             [] k = 3 /\ n = 0 -> Ended
             [] OTHER -> [g EXCEPT !.execute_cnt = IF h.state = "MEM_RD_0" THEN 2 * n ELSE n,
                                   !.state = Begun]
  BY Zenon DEF Gather
<1>2. k \in Int /\ c \in Int
  OBVIOUS
<1>3. /\ IsRegs(g) /\ g.state = h.state /\ g.unit = h.unit /\ g.decode_cnt = c + 1 /\ g.addr = h.addr
      /\ g.execute_cnt = h.execute_cnt
  BY DEF IsRegs, Fields
<1> HIDE DEF g, k, n
<1>4. CASE k = 0
  <2>1. h' = [g EXCEPT !.addr = Data]
    BY <1>1, <1>4
  <2> QED
    BY <1>3, <1>4, <2>1 DEF IsRegs, Fields, k, n, c
<1>5. CASE k = 1
  <2>1. h' = [g EXCEPT !.addr = (@ % ByteMod) + Data * ByteMod]
    BY <1>1, <1>5
  <2> QED
    BY <1>3, <1>5, <2>1 DEF IsRegs, Fields, k, n, c
<1>6. CASE k = 2
  <2>1. h' = [g EXCEPT !.execute_cnt = Data]
    BY <1>1, <1>6
  <2> QED
    BY <1>3, <1>6, <2>1 DEF IsRegs, Fields, k, n, c
<1>7. CASE k = 3 /\ n = 0
  <2>1. h' = Ended
    BY <1>1, <1>7
  <2>2. IsRegs(Ended)
    BY EndedFacts
  <2> QED
    BY <1>7, <2>1, <2>2 DEF k, n, c
<1>8. CASE k = 3 /\ n # 0
  <2> DEFINE x == IF h.state = "MEM_RD_0" THEN 2 * n ELSE n
  <2>1. h' = [g EXCEPT !.execute_cnt = x, !.state = Begun]
    BY <1>1, <1>8
  <2> HIDE DEF x
  <2>2. /\ IsRegs(h') /\ h'.state = Begun /\ h'.unit = h.unit /\ h'.addr = h.addr
        /\ h'.execute_cnt = x
    BY <1>3, <2>1 DEF IsRegs, Fields
  <2> QED
    BY <1>8, <2>2 DEF k, n, c, x
<1>9. CASE k \notin 0 .. 3
  <2>1. h' = [g EXCEPT !.execute_cnt = IF h.state = "MEM_RD_0" THEN 2 * n ELSE n, !.state = Begun]
    BY <1>1, <1>2, <1>9
  <2>2. IsRegs(h')
    BY <1>3, <2>1 DEF IsRegs, Fields
  <2> QED
    BY <1>2, <1>9, <2>2 DEF k, n, c
<1> QED
  BY <1>2, <1>4, <1>5, <1>6, <1>7, <1>8, <1>9

\* What is gathered leads to the bytes that the packet counts.
LEMMA GatherStep ==
  ASSUME IsRegs(h), NEW p \in Packets, NEW r \in Seq(Byte), r # <<>>, Data = Head(r), Gather,
         Gathering(p, r)
  PROVE  /\ IsRegs(h')
         /\ \/ Gathering(p, Tail(r))'
            \/ h'.state = "DECODE" /\ Tail(r) = <<>> /\ ~Asks(p)
            \/ ~Asks(p) /\ Doing(p, Tail(r))'
            \/ /\ h'.state = "ECHO_1" /\ p[1] = OpEcho /\ Tail(r) = From(p, 4)
               /\ h'.execute_cnt = Number(p, 2) /\ Number(p, 2) > 0
            \/ /\ h'.state = "MEM_RD_1" /\ p[1] \in {OpCpuMemRd, OpPpuMemRd} /\ Tail(r) = <<>>
               /\ h'.unit = (IF p[1] = OpPpuMemRd THEN "ppu" ELSE "cpu")
               /\ h'.execute_cnt = 2 * Number(p, 4) /\ Number(p, 4) > 0
               /\ h'.addr = Number(p, 2)
<1> DEFINE c == h.decode_cnt
           n == (h.execute_cnt % ByteMod) + Data * ByteMod
<1>1. p \in Seq(Byte) /\ Len(p) \in Nat
  BY PacketFacts
<1>2. c \in 0 .. 3 /\ r = From(p, 2 + c)
  BY DEF Gathering
<1>3. IsRegs(h')
  BY <1>2, GatherIs
<1>4. ASSUME 2 + c <= Len(p)
      PROVE  Data = p[2 + c] /\ Tail(r) = From(p, 3 + c)
  <2>1. 2 + c \in Nat /\ 2 + c >= 1 /\ 2 + c <= Len(p) + 1 /\ (2 + c) + 1 = 3 + c
    BY <1>1, <1>2, <1>4
  <2>2. Head(From(p, 2 + c)) = p[2 + c] /\ Tail(From(p, 2 + c)) = From(p, (2 + c) + 1)
    BY <1>1, <1>4, <2>1, FromFacts
  <2> QED
    BY <1>2, <2>1, <2>2
<1>5. CASE h.state = "ECHO_0" /\ p[1] = OpEcho /\ c \in 0 .. 1 /\ (c = 1 => h.execute_cnt = p[2])
  <2>1. Number(p, 2) \in Nat /\ Len(p) = 3 + Number(p, 2)
    BY <1>5, PacketFacts
  <2>2. 2 + c <= Len(p)
    BY <1>5, <2>1
  <2>3. Data = p[2 + c] /\ Tail(r) = From(p, 3 + c)
    BY <1>4, <2>2
  <2>4. CASE c = 0
    <3>1. c + (IF h.state = "ECHO_0" THEN 2 ELSE 0) = 2
      BY <1>5, <2>4
    <3>2. h'.state = h.state /\ h'.decode_cnt = 1 /\ h'.execute_cnt = Data
      BY <1>2, <2>4, <3>1, GatherIs
    <3>3. Tail(r) = From(p, 2 + h'.decode_cnt) /\ Data = p[2]
      BY <2>3, <2>4, <3>2
    <3> QED
      BY <1>3, <1>5, <3>2, <3>3 DEF Gathering
  <2>5. CASE c = 1
    <3>1. c + (IF h.state = "ECHO_0" THEN 2 ELSE 0) = 3
      BY <1>5, <2>5
    <3>2. n = Number(p, 2)
      <4>1. p[2] % ByteMod = p[2]
        <5>1. 2 \in Nat /\ 2 >= 1 /\ 2 + 1 <= Len(p)
          BY <2>1
        <5> QED
          BY <1>1, <5>1, NumberFacts
      <4>2. h.execute_cnt = p[2] /\ Data = p[3]
        BY <1>5, <2>3, <2>5
      <4> QED
        BY <4>1, <4>2 DEF Number
    <3>3. CASE n = 0
      <4>1. h' = Ended
        BY <1>2, <3>1, <3>3, GatherIs
      <4>2. Len(p) = 3
        BY <2>1, <3>2, <3>3
      <4>3. Tail(r) = <<>>
        <5>1. 4 \in Nat /\ 4 >= 1 /\ 4 <= Len(p) + 1 /\ 4 = Len(p) + 1 /\ 3 + c = 4
          BY <2>5, <4>2
        <5>2. From(p, 4) = <<>>
          BY <1>1, <5>1, FromFacts
        <5> QED
          BY <2>3, <5>1, <5>2
      <4>4. ~Asks(p)
        <5>1. ReturnBytesExpected(p) = 0
          BY <1>5, <3>2, <3>3, AsksFacts
        <5> QED
          BY <5>1 DEF Asks
      <4> QED
        BY <1>3, <4>1, <4>3, <4>4, EndedFacts
    <3>4. CASE n # 0
      <4>1. h'.state = Begun /\ h'.execute_cnt = n
        BY <1>2, <1>5, <3>1, <3>4, GatherIs
      <4>2. Begun = "ECHO_1"
        BY <1>5 DEF Begun
      <4>3. 3 + c = 4
        BY <2>5
      <4> QED
        BY <1>3, <1>5, <2>1, <2>3, <3>2, <3>4, <4>1, <4>2, <4>3
    <3> QED
      BY <3>3, <3>4
  <2> QED
    BY <1>5, <2>4, <2>5
<1>6. CASE /\ h.state \in {"MEM_RD_0", "MEM_WR_0"}
           /\ p[1] \in {OpCpuMemRd, OpPpuMemRd, OpCpuMemWr, OpPpuMemWr}
  <2>1. /\ h.state = "MEM_RD_0" => /\ p[1] \in {OpCpuMemRd, OpPpuMemRd}
                                   /\ h.unit = IF p[1] = OpPpuMemRd THEN "ppu" ELSE "cpu"
        /\ h.state = "MEM_WR_0" => p[1] \in {OpCpuMemWr, OpPpuMemWr}
        /\ c = 1 => h.addr = p[2]
        /\ c > 1 => h.addr = Number(p, 2)
        /\ c = 3 => h.execute_cnt = p[4]
    BY <1>6 DEF Gathering
  <2>2. Number(p, 4) \in Nat /\ Len(p) >= 5 /\ (h.state = "MEM_RD_0" => Len(p) = 5)
        /\ (h.state = "MEM_WR_0" => Len(p) = 5 + Number(p, 4))
    <3>1. p[1] \in {OpCpuMemRd, OpPpuMemRd} => Number(p, 4) \in Nat /\ Len(p) = 5
      BY PacketFacts
    <3>2. p[1] \in {OpCpuMemWr, OpPpuMemWr} => Number(p, 4) \in Nat /\ Len(p) = 5 + Number(p, 4)
      BY PacketFacts
    <3> DEFINE v == Number(p, 4)
    <3> HIDE DEF v, n, c
    <3>3. CASE h.state = "MEM_RD_0"
      <4>1. p[1] \in {OpCpuMemRd, OpPpuMemRd} /\ h.state # "MEM_WR_0"
        BY <2>1, <3>3
      <4>2. v \in Nat /\ Len(p) = 5
        BY <3>1, <4>1, Zenon DEF v
      <4>3. Len(p) >= 5
        BY <4>2
      <4> QED
        BY <4>1, <4>2, <4>3, Zenon DEF v
    <3>4. CASE h.state = "MEM_WR_0"
      <4>1. v \in Nat /\ Len(p) = 5 + v
        <5>1. p[1] \in {OpCpuMemWr, OpPpuMemWr}
          BY <2>1, <3>4
        <5> QED
          BY <3>2, <5>1, Zenon DEF v
      <4>2. Len(p) >= 5 /\ h.state # "MEM_RD_0"
        BY <3>4, <4>1
      <4> QED
        BY <4>1, <4>2, Zenon DEF v
    <3> QED
      BY <1>6, <3>3, <3>4
  <2>3. 2 + c <= Len(p)
    BY <1>2, <2>2
  <2>4. Data = p[2 + c] /\ Tail(r) = From(p, 3 + c)
    BY <1>4, <2>3
  <2>5. c + (IF h.state = "ECHO_0" THEN 2 ELSE 0) = c
    BY <1>2, <1>6
  <2>6. ASSUME c \in 0 .. 2
        PROVE  h'.state = h.state /\ h'.unit = h.unit /\ h'.decode_cnt = c + 1
    BY <1>2, <2>5, <2>6, GatherIs
  <2>7. ASSUME c \in 0 .. 2, c + 1 = 1 => h'.addr = p[2], c + 1 > 1 => h'.addr = Number(p, 2),
               c + 1 = 3 => h'.execute_cnt = p[4]
        PROVE  Gathering(p, Tail(r))'
    <3>1. Tail(r) = From(p, 2 + h'.decode_cnt) /\ h'.decode_cnt = c + 1 /\ h'.decode_cnt \in 0 .. 3
      BY <2>4, <2>6, <2>7
    <3>2. h'.state = h.state /\ h'.unit = h.unit
      BY <2>6, <2>7
    <3> QED
      BY <1>6, <2>1, <2>7, <3>1, <3>2 DEF Gathering
  <2>8. CASE c = 0
    <3>1. h'.addr = Data
      BY <1>2, <2>5, <2>8, GatherIs
    <3> QED
      BY <1>3, <2>4, <2>7, <2>8, <3>1
  <2>9. CASE c = 1
    <3>1. h'.addr = (h.addr % ByteMod) + Data * ByteMod
      BY <1>2, <2>5, <2>9, GatherIs
    <3>2. p[2] % ByteMod = p[2]
      <4>1. 2 \in Nat /\ 2 >= 1 /\ 2 + 1 <= Len(p)
        BY <2>2
      <4> QED
        BY <1>1, <4>1, NumberFacts
    <3>3. h'.addr = Number(p, 2)
      BY <2>1, <2>4, <2>9, <3>1, <3>2 DEF Number
    <3> QED
      BY <1>3, <2>7, <2>9, <3>3
  <2>10. CASE c = 2
    <3>1. h'.addr = h.addr /\ h'.execute_cnt = Data
      BY <1>2, <2>5, <2>10, GatherIs
    <3> QED
      BY <1>3, <2>1, <2>4, <2>7, <2>10, <3>1
  <2>11. CASE c = 3
    <3>1. n = Number(p, 4)
      <4>1. p[4] % ByteMod = p[4]
        <5>1. 4 \in Nat /\ 4 >= 1 /\ 4 + 1 <= Len(p)
          BY <2>2
        <5> QED
          BY <1>1, <5>1, NumberFacts
      <4>2. h.execute_cnt = p[4] /\ Data = p[5]
        BY <2>1, <2>4, <2>11
      <4> QED
        BY <4>1, <4>2 DEF Number
    <3>2. Tail(r) = From(p, 6)
      BY <2>4, <2>11
    <3>3. Len(p) = 5 => Tail(r) = <<>>
      <4>1. ASSUME Len(p) = 5 PROVE From(p, 6) = <<>>
        <5>1. 6 \in Nat /\ 6 >= 1 /\ 6 <= Len(p) + 1 /\ 6 = Len(p) + 1
          BY <4>1
        <5> QED
          BY <1>1, <5>1, FromFacts
      <4> QED
        BY <3>2, <4>1
    <3>4. CASE n = 0
      <4>1. h' = Ended
        BY <1>2, <2>5, <2>11, <3>4, GatherIs
      <4>2. Tail(r) = <<>>
        <5>1. Number(p, 4) = 0
          BY <3>1, <3>4
        <5>2. Len(p) = 5
          <6>1. h.state = "MEM_RD_0" => Len(p) = 5
            BY <2>2
          <6>2. h.state = "MEM_WR_0" => Len(p) = 5 + Number(p, 4)
            BY <2>2
          <6>3. 5 + Number(p, 4) = 5
            BY <5>1
          <6> QED
            BY <1>6, <6>1, <6>2, <6>3, Zenon
        <5> QED
          BY <3>3, <5>2
      <4>3. ~Asks(p)
        <5>1. p[1] \in {OpCpuMemRd, OpPpuMemRd} => ReturnBytesExpected(p) = 0
          BY <3>1, <3>4, AsksFacts
        <5>2. p[1] \in {OpCpuMemWr, OpPpuMemWr} => p[1] \notin Reads
          BY OpsAre DEF Reads
        <5>3. p[1] \notin Reads => ReturnBytesExpected(p) = 0
          BY AsksFacts
        <5> QED
          BY <1>6, <5>1, <5>2, <5>3 DEF Asks
      <4> QED
        BY <1>3, <4>1, <4>2, <4>3, EndedFacts
    <3>5. CASE n # 0
      <4>1. /\ h'.state = Begun /\ h'.unit = h.unit /\ h'.addr = h.addr
            /\ h'.execute_cnt = IF h.state = "MEM_RD_0" THEN 2 * n ELSE n
        BY <1>2, <2>5, <2>11, <3>5, GatherIs
      <4>2. CASE h.state = "MEM_RD_0"
        <5>1. Begun = "MEM_RD_1"
          BY <4>2 DEF Begun
        <5> QED
          BY <1>3, <2>1, <2>2, <2>11, <3>1, <3>3, <3>5, <4>1, <4>2, <5>1
      <4>3. CASE h.state = "MEM_WR_0"
        <5>1. Begun = "MEM_WR_1"
          BY <4>3 DEF Begun
        <5>2. h'.execute_cnt = n /\ n \in 1 .. Len(p) - 5 /\ Len(p) - n + 1 = 6
          BY <2>2, <3>1, <3>5, <4>1, <4>3
        <5>3. Doing(p, Tail(r))'
          BY <2>1, <3>2, <4>1, <4>3, <5>1, <5>2 DEF Doing
        <5>4. ~Asks(p)
          <6>1. p[1] \notin Reads
            BY <2>1, <4>3, OpsAre DEF Reads
          <6> QED
            BY <6>1, AsksFacts
        <5> QED
          BY <1>3, <5>3, <5>4
      <4> QED
        BY <1>6, <4>2, <4>3
    <3> QED
      BY <3>4, <3>5
  <2> QED
    BY <1>2, <2>8, <2>9, <2>10, <2>11
<1> QED
  BY <1>5, <1>6 DEF Gathering

\* The opcode.
LEMMA DecodeStep ==
  ASSUME IsRegs(h), NEW p \in Packets, Data = p[1], Decode
  PROVE  /\ IsRegs(h')
         /\ \/ wr' = <<>> /\ Len(p) = 1 /\ ~Asks(p) /\ p[1] # OpDbgRun /\ h'.state = "DECODE"
            \/ wr' = <<>> /\ Len(p) = 1 /\ ~Asks(p) /\ p[1] = OpDbgRun /\ h'.state = "DISABLED"
            \/ wr' = <<1>> /\ p[1] = OpQueryHlt /\ h'.state = "DECODE"
            \/ wr' = <<>> /\ Gathering(p, From(p, 2))'
            \/ wr' = <<>> /\ ~Asks(p) /\ Doing(p, From(p, 2))'
            \/ wr' = <<>> /\ p[1] = OpCpuRegRd /\ h'.state = "REG_RD"
<1> DEFINE op == p[1]
<1>1. op \in Ops /\ p \in Seq(Byte) /\ Len(p) \in Nat
  BY PacketFacts
<1>2. /\ IsRegs(h') /\ h'.state = Stage(op) /\ h'.decode_cnt = 0
      /\ h'.unit = IF op \in {OpPpuMemRd, OpPpuMemWr} THEN "ppu" ELSE "cpu"
  <2> DEFINE s == Stage(Data)
             e == h.err \/ Data > OpCartSetCfg
             u == IF Data \in {OpPpuMemRd, OpPpuMemWr} THEN "ppu" ELSE "cpu"
  <2>1. h' = [h EXCEPT !.state = s, !.decode_cnt = 0, !.err = e, !.unit = u]
    BY DEF Decode
  <2> HIDE DEF s, e, u
  <2>2. IsRegs(h') /\ h'.state = s /\ h'.decode_cnt = 0 /\ h'.unit = u
    BY <2>1 DEF IsRegs, Fields
  <2> QED
    BY <2>2 DEF s, u
<1>3. /\ op = OpQueryHlt => wr' = <<1>>
      /\ op # OpQueryHlt => wr' = <<>>
  BY DEF Decode, Say, Mute
<1>4. op \notin Reads => ~Asks(p)
  BY AsksFacts
<1>5. CASE op \in {OpDbgHlt, OpDbgRun}
  <2>1. Len(p) = 1
    BY <1>5, PacketFacts
  <2>2. op # OpQueryHlt /\ op \notin Reads
    BY <1>5, OpsAre DEF Reads
  <2>3. op = OpDbgRun => Stage(op) = "DISABLED"
    BY OpsAre DEF Stage
  <2>4. op # OpDbgRun => Stage(op) = "DECODE"
    BY <1>5, OpsAre DEF Stage
  <2> QED
    BY <1>2, <1>3, <1>4, <2>1, <2>2, <2>3, <2>4
<1>6. CASE op = OpQueryHlt
  <2>1. Stage(op) = "DECODE"
    BY <1>6, OpsAre DEF Stage
  <2> QED
    BY <1>2, <1>3, <1>6, <2>1
<1>7. CASE op = OpEcho
  <2>1. Stage(op) = "ECHO_0" /\ op # OpQueryHlt
    BY <1>7, OpsAre DEF Stage
  <2>2. Gathering(p, From(p, 2))'
    BY <1>2, <1>7, <2>1 DEF Gathering
  <2> QED
    BY <1>2, <1>3, <2>1, <2>2
<1>8. CASE op \in {OpCpuMemRd, OpPpuMemRd}
  <2>1. Stage(op) = "MEM_RD_0" /\ op # OpQueryHlt
    BY <1>8, OpsAre DEF Stage
  <2>2. h'.unit = IF op = OpPpuMemRd THEN "ppu" ELSE "cpu"
    BY <1>2, <1>8, OpsAre
  <2>3. Gathering(p, From(p, 2))'
    BY <1>2, <1>8, <2>1, <2>2 DEF Gathering
  <2> QED
    BY <1>2, <1>3, <2>1, <2>3
<1>9. CASE op \in {OpCpuMemWr, OpPpuMemWr}
  <2>1. Stage(op) = "MEM_WR_0" /\ op # OpQueryHlt
    BY <1>9, OpsAre DEF Stage
  <2>2. Gathering(p, From(p, 2))'
    BY <1>2, <1>9, <2>1 DEF Gathering
  <2> QED
    BY <1>2, <1>3, <2>1, <2>2
<1>10. CASE op = OpCpuRegRd
  <2>1. Stage(op) = "REG_RD" /\ op # OpQueryHlt
    BY <1>10, OpsAre DEF Stage
  <2> QED
    BY <1>2, <1>3, <1>10, <2>1
<1>11. CASE op = OpCpuRegWr
  <2>1. Stage(op) = "REG_WR_0" /\ op # OpQueryHlt /\ op \notin Reads
    BY <1>11, OpsAre DEF Stage, Reads
  <2>2. Doing(p, From(p, 2))'
    BY <1>2, <1>11, <2>1 DEF Doing
  <2> QED
    BY <1>2, <1>3, <1>4, <2>1, <2>2
<1>12. CASE op = OpPpuDisable
  <2>1. Stage(op) = "PPU_DISABLE" /\ op # OpQueryHlt /\ op \notin Reads
    BY <1>12, OpsAre DEF Stage, Reads
  <2>2. From(p, 2) = <<>>
    <3>1. Len(p) = 1
      BY <1>12, PacketFacts
    <3>2. 2 \in Nat /\ 2 >= 1 /\ 2 <= Len(p) + 1 /\ 2 = Len(p) + 1
      BY <3>1
    <3> QED
      BY <1>1, <3>2, FromFacts
  <2>3. Doing(p, From(p, 2))'
    <3>1. h'.decode_cnt \in 0 .. 5 /\ h'.state = "PPU_DISABLE"
      BY <1>2, <2>1
    <3> QED
      BY <1>12, <2>2, <3>1 DEF Doing
  <2> QED
    BY <1>2, <1>3, <1>4, <2>1, <2>3
<1>13. CASE op = OpCartSetCfg
  <2>1. Stage(op) = "CART_0" /\ op # OpQueryHlt /\ op \notin Reads
    BY <1>13, OpsAre DEF Stage, Reads
  <2>2. Doing(p, From(p, 2))'
    BY <1>2, <1>13, <2>1 DEF Doing
  <2> QED
    BY <1>2, <1>3, <1>4, <2>1, <2>2
<1> QED
  BY <1>1, <1>5, <1>6, <1>7, <1>8, <1>9, <1>10, <1>11, <1>12, <1>13 DEF Ops

\* A packet that is gathered is not over.
LEMMA GatherSome ==
  ASSUME NEW p \in Packets, NEW r, Gathering(p, r)
  PROVE  r \in Seq(Byte) /\ r # <<>>
<1> DEFINE c == h.decode_cnt
<1>1. p \in Seq(Byte) /\ Len(p) \in Nat
  BY PacketFacts
<1>2. c \in Nat /\ r = From(p, 2 + c) /\ 2 + c <= Len(p)
  <2>1. CASE p[1] = OpEcho /\ c \in 0 .. 1 /\ r = From(p, 2 + c)
    <3>1. Len(p) = 3 + Number(p, 2) /\ Number(p, 2) \in Nat
      BY <2>1, PacketFacts
    <3> QED
      BY <2>1, <3>1
  <2>2. CASE /\ p[1] \in {OpCpuMemRd, OpPpuMemRd, OpCpuMemWr, OpPpuMemWr}
             /\ c \in 0 .. 3 /\ r = From(p, 2 + c)
    <3>1. p[1] \in {OpCpuMemRd, OpPpuMemRd} => Len(p) = 5
      BY PacketFacts
    <3>2. p[1] \in {OpCpuMemWr, OpPpuMemWr} => Len(p) = 5 + Number(p, 4) /\ Number(p, 4) \in Nat
      BY PacketFacts
    <3>3. p[1] \in {OpCpuMemWr, OpPpuMemWr} => Len(p) >= 5
      BY <3>2
    <3>4. Len(p) >= 5
      <4>1. Len(p) = 5 => Len(p) >= 5
        BY ONLY <1>1
      <4> QED
        BY <2>2, <3>1, <3>3, <4>1
    <3> QED
      BY <2>2, <3>4
  <2> QED
    BY <2>1, <2>2 DEF Gathering
<1>3. 2 + c \in Nat /\ 2 + c >= 1 /\ 2 + c <= Len(p) + 1
  BY <1>1, <1>2
<1> HIDE DEF c
<1> QED
  BY <1>1, <1>2, <1>3, FromFacts

\* What a packet without an answer does.
LEMMA DoingStep ==
  ASSUME IsRegs(h), NEW p \in Packets, NEW r \in Seq(Byte), Doing(p, r),
         MemWrite \/ RegWrite \/ PpuDisable \/ CartSetCfg
  PROVE  /\ wr' = <<>> /\ IsRegs(h')
         /\ \/ Pop /\ r # <<>> /\ Doing(p, Tail(r))'
            \/ Pop /\ r # <<>> /\ h'.state = "DECODE" /\ Tail(r) = <<>>
            \/ UNCHANGED rx /\ Doing(p, r)'
            \/ UNCHANGED rx /\ h'.state = "DECODE" /\ r = <<>>
<1>1. p \in Seq(Byte) /\ Len(p) \in Nat
  BY PacketFacts
<1>2. ASSUME NEW i \in Nat, i >= 1, i <= Len(p)
      PROVE  From(p, i) # <<>> /\ Tail(From(p, i)) = From(p, i + 1)
  <2>1. i <= Len(p) + 1
    BY <1>1, <1>2
  <2> QED
    BY <1>1, <1>2, <2>1, FromFacts
<1>3. From(p, Len(p) + 1) = <<>>
  <2>1. Len(p) + 1 \in Nat /\ Len(p) + 1 >= 1 /\ Len(p) + 1 <= Len(p) + 1
    BY <1>1
  <2> QED
    BY <1>1, <2>1, FromFacts
<1>4. wr' = <<>>
  BY DEF MemWrite, RegWrite, PpuDisable, CartSetCfg, Mute
<1>5. CASE h.state = "MEM_WR_1"
  <2>1. Pop /\ h' = Counted(Further(h))
    BY <1>5 DEF MemWrite, RegWrite, PpuDisable, CartSetCfg
  <2>2. PICK n \in 1 .. Len(p) - 5 : n = h.execute_cnt /\ r = From(p, Len(p) - n + 1)
                                     /\ p[1] \in {OpCpuMemWr, OpPpuMemWr}
    BY <1>5 DEF Doing
  <2>3. n \in 1 .. 2 * WordMod
    <3>1. Len(p) - 5 < WordMod /\ WordMod \in Nat
      <4>1. Number(p, 4) \in Nat /\ Number(p, 4) < WordMod /\ Len(p) = 5 + Number(p, 4)
        BY <2>2, PacketFacts
      <4> QED
        BY <4>1, WordModFacts
    <3> QED
      BY <1>1, <3>1
  <2> DEFINE g == Further(h)
  <2>4. IsRegs(g) /\ g.execute_cnt = n /\ g.state = "MEM_WR_1"
    <3> DEFINE a == (h.addr + 1) % WordMod
    <3>1. g = [h EXCEPT !.addr = a]
      BY DEF Further
    <3> HIDE DEF a, g
    <3> QED
      BY <1>5, <2>2, <3>1 DEF IsRegs, Fields
  <2> HIDE DEF g
  <2>5. Counted(g) = IF n = 1 THEN Ended ELSE [g EXCEPT !.execute_cnt = n - 1]
    BY <2>3, <2>4, CountedIs
  <2>6. r # <<>> /\ Tail(r) = From(p, Len(p) - n + 2)
    <3>1. Len(p) - n + 1 \in Nat /\ Len(p) - n + 1 >= 1 /\ Len(p) - n + 1 <= Len(p)
          /\ (Len(p) - n + 1) + 1 = Len(p) - n + 2
      BY <1>1
    <3> QED
      BY <1>2, <2>2, <3>1
  <2>7. CASE n = 1
    <3>1. h' = Ended
      BY <2>1, <2>5, <2>7 DEF g
    <3>2. Len(p) - n + 2 = Len(p) + 1
      BY <1>1, <2>7
    <3>3. Tail(r) = <<>>
      BY <1>3, <2>6, <3>2
    <3> QED
      BY <1>4, <2>1, <2>6, <3>1, <3>3, EndedFacts
  <2>8. CASE n # 1
    <3>1. h' = [g EXCEPT !.execute_cnt = n - 1]
      BY <2>1, <2>5, <2>8 DEF g
    <3>2. IsRegs(h') /\ h'.state = "MEM_WR_1" /\ h'.execute_cnt = n - 1
      BY <2>4, <3>1 DEF IsRegs, Fields
    <3>3. n - 1 \in 1 .. Len(p) - 5 /\ Len(p) - (n - 1) + 1 = Len(p) - n + 2
      BY <1>1, <2>8
    <3>4. Doing(p, Tail(r))'
      BY <2>2, <2>6, <3>2, <3>3 DEF Doing
    <3> QED
      BY <1>4, <2>1, <2>6, <3>2, <3>4
  <2> QED
    BY <2>7, <2>8
<1>6. CASE h.state = "REG_WR_0"
  <2>1. p[1] = OpCpuRegWr /\ r = From(p, 2) /\ Len(p) = 3
    BY <1>6, PacketFacts DEF Doing
  <2>2. Pop /\ h' = [To("REG_WR_1") EXCEPT !.addr = Data]
    BY <1>6 DEF MemWrite, RegWrite, PpuDisable, CartSetCfg
  <2>3. IsRegs(h') /\ h'.state = "REG_WR_1"
    BY <2>2 DEF IsRegs, Fields, To
  <2>4. r # <<>> /\ Tail(r) = From(p, 3)
    <3>1. 2 \in Nat /\ 2 >= 1 /\ 2 <= Len(p) /\ 2 + 1 = 3
      BY <2>1
    <3> QED
      BY <1>2, <2>1, <3>1
  <2>5. Doing(p, Tail(r))'
    BY <2>1, <2>3, <2>4 DEF Doing
  <2> QED
    BY <1>4, <2>2, <2>3, <2>4, <2>5
<1>7. CASE h.state = "REG_WR_1"
  <2>1. p[1] = OpCpuRegWr /\ r = From(p, 3) /\ Len(p) = 3
    BY <1>7, PacketFacts DEF Doing
  <2>2. Pop /\ h' = Ended
    BY <1>7 DEF MemWrite, RegWrite, PpuDisable, CartSetCfg
  <2>3. r # <<>> /\ Tail(r) = From(p, Len(p) + 1)
    <3>1. 3 \in Nat /\ 3 >= 1 /\ 3 <= Len(p) /\ 3 + 1 = Len(p) + 1
      BY <2>1
    <3> QED
      BY <1>2, <2>1, <3>1
  <2> QED
    BY <1>3, <1>4, <2>2, <2>3, EndedFacts
<1>8. CASE h.state = "PPU_DISABLE"
  <2>1. p[1] = OpPpuDisable /\ r = <<>> /\ h.decode_cnt \in 0 .. 5
    BY <1>8 DEF Doing
  <2> DEFINE k == h.decode_cnt
             a == CASE k = 0 -> PpuCtrl [] k = 2 -> PpuMask [] k = 4 -> PpuMask + 1 [] OTHER -> 0
  <2>2. UNCHANGED rx /\ h' = IF k = 5 THEN Ended ELSE [h EXCEPT !.decode_cnt = k + 1, !.addr = a]
    BY <1>8 DEF MemWrite, RegWrite, PpuDisable, CartSetCfg
  <2> HIDE DEF a
  <2>3. CASE k = 5
    BY <1>4, <2>1, <2>2, <2>3, EndedFacts
  <2>4. CASE k # 5
    <3>1. h' = [h EXCEPT !.decode_cnt = k + 1, !.addr = a] /\ k + 1 \in 0 .. 5
      BY <2>1, <2>2, <2>4
    <3>2. IsRegs(h') /\ h'.state = "PPU_DISABLE" /\ h'.decode_cnt = k + 1
      BY <1>8, <3>1 DEF IsRegs, Fields
    <3>3. Doing(p, r)'
      BY <2>1, <3>1, <3>2 DEF Doing
    <3> QED
      BY <1>4, <2>2, <3>2, <3>3
  <2> QED
    BY <2>3, <2>4
<1>9. CASE h.state = "CART_0"
  <2>1. p[1] = OpCartSetCfg /\ r = From(p, 2)
    BY <1>9 DEF Doing
  <2>2. UNCHANGED rx /\ h' = [To("CART_1") EXCEPT !.execute_cnt = 4]
    BY <1>9 DEF MemWrite, RegWrite, PpuDisable, CartSetCfg
  <2>3. IsRegs(h') /\ h'.state = "CART_1" /\ h'.execute_cnt = 4
    BY <2>2 DEF IsRegs, Fields, To
  <2>4. 6 - h'.execute_cnt = 2 /\ h'.execute_cnt \in 0 .. 4
    BY <2>3
  <2>5. Doing(p, r)'
    BY <2>1, <2>3, <2>4 DEF Doing
  <2> QED
    BY <1>4, <2>2, <2>3, <2>5
<1>10. CASE h.state = "CART_1"
  <2>1. PICK n \in 0 .. 4 : n = h.execute_cnt /\ r = From(p, 6 - n) /\ p[1] = OpCartSetCfg
    BY <1>10 DEF Doing
  <2>2. Len(p) = 6
    BY <2>1, PacketFacts
  <2> DEFINE cfg == Append(Tail(h.cfg), Data)
  <2>3. Pop /\ h' = IF n = 0 THEN [Ended EXCEPT !.cfg = cfg]
                    ELSE [h EXCEPT !.cfg = cfg, !.execute_cnt = n - 1]
    BY <1>10, <2>1 DEF MemWrite, RegWrite, PpuDisable, CartSetCfg
  <2> HIDE DEF cfg
  <2>4. r # <<>> /\ Tail(r) = From(p, 7 - n)
    <3>1. 6 - n \in Nat /\ 6 - n >= 1 /\ 6 - n <= Len(p) /\ (6 - n) + 1 = 7 - n
      BY <2>2
    <3> QED
      BY <1>2, <2>1, <3>1
  <2>5. CASE n = 0
    <3>1. IsRegs(h') /\ h'.state = "DECODE"
      BY <2>3, <2>5, EndedFacts
    <3>2. 7 - n = Len(p) + 1
      BY <2>2, <2>5
    <3> QED
      BY <1>3, <1>4, <2>3, <2>4, <3>1, <3>2
  <2>6. CASE n # 0
    <3>1. h' = [h EXCEPT !.cfg = cfg, !.execute_cnt = n - 1]
      BY <2>3, <2>6
    <3>2. IsRegs(h') /\ h'.state = "CART_1" /\ h'.execute_cnt = n - 1
      BY <1>10, <3>1 DEF IsRegs, Fields
    <3>3. n - 1 \in 0 .. 4 /\ 6 - (n - 1) = 7 - n
      BY <2>6
    <3>4. Doing(p, Tail(r))'
      BY <2>1, <2>4, <3>2, <3>3 DEF Doing
    <3> QED
      BY <1>4, <2>3, <2>4, <3>2, <3>4
  <2> QED
    BY <2>5, <2>6
<1> QED
  BY <1>5, <1>6, <1>7, <1>8, <1>9, <1>10 DEF Doing

\* One byte more of the answer.
LEMMA SayNext ==
  ASSUME NEW a \in Seq(Byte), NEW n \in Nat, n = Len(a), NEW m \in 1 .. n,
         Said = SubSeq(a, 1, n - m), wr' = <<a[n - m + 1]>>, Said' = Said \o wr'
  PROVE  Said' = SubSeq(a, 1, n - (m - 1)) /\ (m = 1 => Said' = a)
<1>1. n - m \in 1 - 1 .. Len(a) - 1 /\ 1 \in 1 .. Len(a) /\ (n - m) + 1 = n - (m - 1)
  OBVIOUS
<1>2. SubSeq(a, 1, n - m) \o <<a[(n - m) + 1]>> = SubSeq(a, 1, (n - m) + 1)
  BY <1>1, OneMore
<1>3. Said' = SubSeq(a, 1, n - (m - 1))
  BY <1>1, <1>2
<1>4. ASSUME m = 1 PROVE Said' = a
  <2>1. n - (m - 1) = Len(a)
    BY <1>4
  <2> QED
    BY <1>3, <2>1, SubSeqFull
<1> QED
  BY <1>3, <1>4

LEMMA AnswerKept ==
  ASSUME NEW p, UNCHANGED Stored
  PROVE  Answer(p)' = Answer(p)
BY DEF Stored, Answer, At

\* What the answers of ECHO and of the reads are made of.
LEMMA AnswerBytes ==
  ASSUME NEW p \in Packets, Stores
  PROVE  /\ p[1] = OpEcho => \A i \in 1 .. Number(p, 2) : Answer(p)[i] = p[3 + i]
         /\ p[1] \in {OpCpuMemRd, OpPpuMemRd} =>
              \A i \in 1 .. Number(p, 4) :
                Answer(p)[i] = At(IF p[1] = OpPpuMemRd THEN ppu_mem ELSE cpu_mem,
                                  (Number(p, 2) + i - 1) % WordMod)
<1>1. p \in Seq(Byte) /\ Len(p) \in Nat
  BY PacketFacts
<1>2. ASSUME p[1] = OpEcho, NEW i \in 1 .. Number(p, 2) PROVE Answer(p)[i] = p[3 + i]
  <2>1. Answer(p) = SubSeq(p, 4, Len(p))
    BY <1>2, OpsAre DEF Answer
  <2>2. Len(p) = 3 + Number(p, 2) /\ Number(p, 2) \in Nat
    BY <1>2, PacketFacts
  <2>3. \A j \in 4 .. Len(p) : p[j] \in Byte
    <3> SUFFICES ASSUME NEW j \in 4 .. Len(p) PROVE j \in 1 .. Len(p)
      BY <1>1, ElementOfSeq
    <3> QED
      BY <1>1
  <2>4. \A j \in 1 .. Len(p) - 4 + 1 : SubSeq(p, 4, Len(p))[j] = p[4 + j - 1]
    BY <1>1, <2>3, SubSeqProperties
  <2>5. i \in 1 .. Len(p) - 4 + 1 /\ 4 + i - 1 = 3 + i
    BY <2>2
  <2> QED
    BY <2>1, <2>4, <2>5
<1>3. ASSUME p[1] \in {OpCpuMemRd, OpPpuMemRd}, NEW i \in 1 .. Number(p, 4)
      PROVE  Answer(p)[i] = At(IF p[1] = OpPpuMemRd THEN ppu_mem ELSE cpu_mem,
                               (Number(p, 2) + i - 1) % WordMod)
  <2> DEFINE x(j) == At(IF p[1] = OpPpuMemRd THEN ppu_mem ELSE cpu_mem, (Number(p, 2) + j - 1) % WordMod)
  <2>1. Answer(p) = [j \in 1 .. Number(p, 4) |-> x(j)]
    BY <1>3, OpsAre DEF Answer
  <2> HIDE DEF x
  <2>2. Answer(p)[i] = x(i)
    BY <1>3, <2>1
  <2> QED
    BY <2>2 DEF x
<1> QED
  BY <1>2, <1>3

LEMMA AnswerStep ==
  ASSUME Board, NEW p \in Packets, NEW r \in Seq(Byte), Asks(p), Answering(p, r),
         r # <<>> => Data = Head(r), Said' = Said \o wr', UNCHANGED Stored,
         Echo \/ MemRead \/ RegRead, Works
  PROVE  /\ IsRegs(h')
         /\ \/ Pop /\ r # <<>> /\ Answering(p, Tail(r))'
            \/ Pop /\ r # <<>> /\ Tail(r) = <<>> /\ h'.state = "DECODE" /\ Said' = Answer(p)'
            \/ UNCHANGED rx /\ Answering(p, r)'
            \/ UNCHANGED rx /\ r = <<>> /\ h'.state = "DECODE" /\ Said' = Answer(p)'
<1>1. IsRegs(h) /\ Stores /\ p \in Seq(Byte) /\ Len(p) \in Nat
  BY PacketFacts DEF Board, IsRegs, Stores
<1>2. PICK a \in Seq(Byte) : a = Answer(p)
  BY <1>1, AnswerFacts
<1>3. Len(a) = ReturnBytesExpected(p) /\ a = Answer(p)'
  BY <1>1, <1>2, AnswerFacts, AnswerKept
<1>4. CASE h.state = "ECHO_1"
  <2>1. PICK n \in 1 .. Len(p) - 3 : /\ n = h.execute_cnt /\ r = From(p, Len(p) - n + 1)
                                     /\ Said = SubSeq(a, 1, Len(p) - 3 - n) /\ p[1] = OpEcho
    BY <1>2, <1>4 DEF Answering
  <2>2. Pop /\ Say(Data) /\ h' = Counted(h)
    BY <1>4 DEF Echo, MemRead, RegRead
  <2>3. Number(p, 2) = Len(a) /\ Len(p) = 3 + Len(a) /\ Number(p, 2) \in Nat /\ Number(p, 2) < WordMod
    BY <1>3, <2>1, PacketFacts, AsksFacts
  <2>4. Len(p) - 3 = Len(a) /\ Len(a) \in Nat /\ Len(p) - n + 1 \in Nat /\ Len(p) - n + 1 >= 1
        /\ Len(p) - n + 1 <= Len(p) /\ Len(p) - n + 1 <= Len(p) + 1
        /\ (Len(p) - n + 1) + 1 = Len(p) - (n - 1) + 1 /\ Len(p) - n + 1 = 3 + (Len(a) - n + 1)
        /\ Len(a) - n + 1 \in 1 .. Len(a) /\ n \in 1 .. Len(a)
    BY <1>1, <2>3
  <2>5. r # <<>> /\ Head(r) = p[Len(p) - n + 1] /\ Tail(r) = From(p, Len(p) - (n - 1) + 1)
    <3>1. /\ From(p, Len(p) - n + 1) # <<>> /\ Head(From(p, Len(p) - n + 1)) = p[Len(p) - n + 1]
          /\ Tail(From(p, Len(p) - n + 1)) = From(p, (Len(p) - n + 1) + 1)
      BY <1>1, <2>4, FromFacts
    <3> QED
      BY <2>1, <2>4, <3>1
  <2>6. wr' = <<a[Len(a) - n + 1]>>
    <3>1. a[Len(a) - n + 1] = p[3 + (Len(a) - n + 1)]
      BY <1>1, <1>2, <2>1, <2>3, <2>4, AnswerBytes
    <3> QED
      BY <2>2, <2>4, <2>5, <3>1 DEF Say
  <2>7. Said' = SubSeq(a, 1, Len(a) - (n - 1)) /\ (n = 1 => Said' = a)
    <3>1. Said = SubSeq(a, 1, Len(a) - n)
      BY <2>1, <2>4
    <3> QED
      BY <2>4, <2>6, <3>1, SayNext
  <2>8. n \in 1 .. 2 * WordMod
    BY <2>3, <2>4, WordModFacts
  <2>9. Counted(h) = IF n = 1 THEN Ended ELSE [h EXCEPT !.execute_cnt = n - 1]
    BY <2>1, <2>8, CountedIs
  <2>10. CASE n = 1
    <3>1. Tail(r) = <<>>
      <4>1. Len(p) - (n - 1) + 1 = Len(p) + 1 /\ Len(p) + 1 \in Nat /\ Len(p) + 1 >= 1
        BY <1>1, <2>10
      <4>2. From(p, Len(p) + 1) = <<>>
        BY <1>1, <4>1, FromFacts
      <4> QED
        BY <2>5, <4>1, <4>2
    <3> QED
      BY <1>1, <1>3, <2>2, <2>5, <2>7, <2>9, <2>10, <3>1, EndedFacts
  <2>11. CASE n # 1
    <3>1. h' = [h EXCEPT !.execute_cnt = n - 1]
      BY <2>2, <2>9, <2>11
    <3>2. IsRegs(h') /\ h'.state = "ECHO_1" /\ h'.execute_cnt = n - 1
      BY <1>1, <1>4, <3>1 DEF IsRegs, Fields
    <3>3. n - 1 \in 1 .. Len(p) - 3 /\ Len(p) - 3 - (n - 1) = Len(a) - (n - 1)
      BY <1>1, <2>4, <2>11
    <3>4. Answering(p, Tail(r))'
      BY <1>3, <2>1, <2>5, <2>7, <3>2, <3>3 DEF Answering
    <3> QED
      BY <2>2, <2>5, <3>2, <3>4
  <2> QED
    BY <2>10, <2>11
<1>5. CASE h.state = "MEM_RD_1"
  <2> DEFINE n == Number(p, 4)
  <2>1. /\ p[1] \in {OpCpuMemRd, OpPpuMemRd} /\ r = <<>>
        /\ h.unit = IF p[1] = OpPpuMemRd THEN "ppu" ELSE "cpu"
    BY <1>5 DEF Answering
  <2>2. PICK m \in 1 .. n :
          /\ h.execute_cnt = 2 * m \/ (h.execute_cnt = 2 * m - 1 /\ wr = <<>>)
          /\ h.addr = (Number(p, 2) + n - m) % WordMod
          /\ Said = SubSeq(a, 1, n - m)
    BY <1>2, <1>5 DEF Answering
  <2>3. n = Len(a) /\ n \in Nat /\ n < WordMod /\ Number(p, 2) \in Nat
    BY <1>3, <2>1, PacketFacts, AsksFacts
  <2>4. UNCHANGED rx /\ MemRead
    BY <1>5 DEF Echo, MemRead, RegRead
  <2> HIDE DEF n
  <2>5. CASE h.execute_cnt = 2 * m
    <3>1. ~Paced
      <4>1. (2 * m) % 2 = 0
        BY <2>3
      <4> QED
        BY <2>5, <4>1 DEF Paced
    <3>2. wr' = <<>> /\ h' = Counted(h)
      BY <2>4, <3>1 DEF MemRead, Mute
    <3>3. 2 * m \in 1 .. 2 * WordMod /\ 2 * m # 1
      BY <2>3, WordModFacts
    <3>4. h' = [h EXCEPT !.execute_cnt = 2 * m - 1]
      BY <2>5, <3>2, <3>3, CountedIs
    <3>5. /\ IsRegs(h') /\ h'.state = "MEM_RD_1" /\ h'.execute_cnt = 2 * m - 1 /\ h'.addr = h.addr
          /\ h'.unit = h.unit
      BY <1>1, <1>5, <3>4 DEF IsRegs, Fields
    <3>6. Said' = Said
      <4>1. Said \o <<>> = Said
        BY SaidFacts, JoinedNone
      <4> QED
        BY <3>2, <4>1
    <3>7. Answering(p, r)'
      BY <1>3, <2>1, <2>2, <3>2, <3>5, <3>6 DEF Answering, n
    <3> QED
      BY <2>4, <3>5, <3>7
  <2>6. CASE h.execute_cnt = 2 * m - 1
    <3>1. Paced /\ ~TxFull
      <4>1. (2 * m - 1) % 2 = 1
        BY <2>3
      <4>2. Paced
        BY <2>6, <4>1 DEF Paced
      <4> QED
        BY <1>5, <4>2 DEF Works
    <3>2. wr' = <<At(IF h.unit = "cpu" THEN cpu_mem ELSE ppu_mem, h.addr)>>
          /\ h' = Counted(Further(h))
      BY <2>4, <3>1 DEF MemRead, Say, Paced
    <3>3. wr' = <<a[n - m + 1]>>
      <4>1. a[n - m + 1] = At(IF p[1] = OpPpuMemRd THEN ppu_mem ELSE cpu_mem,
                              (Number(p, 2) + (n - m + 1) - 1) % WordMod)
        <5>1. n - m + 1 \in 1 .. n
          BY <2>3
        <5> QED
          BY <1>1, <1>2, <2>1, <5>1, AnswerBytes DEF n
      <4>2. Number(p, 2) + (n - m + 1) - 1 = Number(p, 2) + n - m
        BY <2>3
      <4>3. (IF h.unit = "cpu" THEN cpu_mem ELSE ppu_mem) = (IF p[1] = OpPpuMemRd THEN ppu_mem ELSE cpu_mem)
        BY <2>1
      <4> QED
        BY <2>2, <3>2, <4>1, <4>2, <4>3
    <3>4. Said' = SubSeq(a, 1, n - (m - 1)) /\ (m = 1 => Said' = a)
      BY <2>2, <2>3, <3>3, SayNext
    <3> DEFINE g == Further(h)
    <3>5. /\ IsRegs(g) /\ g.execute_cnt = 2 * m - 1 /\ g.state = "MEM_RD_1" /\ g.unit = h.unit
          /\ g.addr = (h.addr + 1) % WordMod
      <4> DEFINE x == (h.addr + 1) % WordMod
      <4>1. g = [h EXCEPT !.addr = x]
        BY DEF Further
      <4> HIDE DEF x, g
      <4>2. /\ IsRegs(g) /\ g.execute_cnt = h.execute_cnt /\ g.state = "MEM_RD_1" /\ g.unit = h.unit
            /\ g.addr = x
        BY <1>1, <1>5, <4>1 DEF IsRegs, Fields
      <4> QED
        BY <2>6, <4>2 DEF x
    <3> HIDE DEF g
    <3>6. 2 * m - 1 \in 1 .. 2 * WordMod /\ (2 * m - 1 = 1 <=> m = 1) /\ (2 * m - 1) - 1 = 2 * (m - 1)
      BY <2>3, WordModFacts
    <3>7. Counted(g) = IF m = 1 THEN Ended ELSE [g EXCEPT !.execute_cnt = 2 * (m - 1)]
      BY <3>5, <3>6, CountedIs
    <3>8. CASE m = 1
      <4>1. h' = Ended
        BY <3>2, <3>7, <3>8 DEF g
      <4> QED
        BY <1>1, <1>3, <2>1, <2>4, <3>4, <3>8, <4>1, EndedFacts
    <3>9. CASE m # 1
      <4>1. h' = [g EXCEPT !.execute_cnt = 2 * (m - 1)]
        BY <3>2, <3>7, <3>9 DEF g
      <4>2. /\ IsRegs(h') /\ h'.state = "MEM_RD_1" /\ h'.execute_cnt = 2 * (m - 1) /\ h'.unit = h.unit
            /\ h'.addr = (h.addr + 1) % WordMod
        BY <3>5, <4>1 DEF IsRegs, Fields
      <4>3. m - 1 \in 1 .. n
        BY <2>3, <3>9
      <4>4. h'.addr = (Number(p, 2) + n - (m - 1)) % WordMod
        <5> DEFINE y == Number(p, 2) + n - m
        <5>1. y \in Nat /\ y + 1 = Number(p, 2) + n - (m - 1)
          BY <2>3
        <5> HIDE DEF y
        <5>2. ((y % WordMod) + 1) % WordMod = (y + 1) % WordMod
          <6>1. WordMod \in Nat /\ WordMod > 0
            BY WordModFacts
          <6> QED
            BY <5>1, <6>1, LeftNext, Zenon
        <5>3. h.addr = y % WordMod
          BY <2>2 DEF y
        <5> QED
          BY <4>2, <5>1, <5>2, <5>3
      <4>5. Answering(p, r)'
        BY <1>3, <2>1, <3>4, <4>2, <4>3, <4>4 DEF Answering, n
      <4> QED
        BY <2>4, <4>2, <4>5
    <3> QED
      BY <3>8, <3>9
  <2> QED
    BY <2>2, <2>5, <2>6
<1>6. CASE h.state = "REG_RD"
  <2>1. p[1] = OpCpuRegRd /\ r = From(p, 2) /\ Said = <<>> /\ Len(p) = 2
    BY <1>6, PacketFacts DEF Answering
  <2>2. Pop /\ wr' = <<At(regs, Sel(Data))>> /\ h' = Ended
    BY <1>6 DEF Echo, MemRead, RegRead, Say
  <2>3. r # <<>> /\ Head(r) = p[2] /\ Tail(r) = <<>>
    <3>1. 2 \in Nat /\ 2 >= 1 /\ 2 <= Len(p) /\ 2 <= Len(p) + 1
      BY <2>1
    <3>2. r # <<>> /\ Head(r) = p[2] /\ Tail(r) = From(p, 2 + 1)
      <4>1. From(p, 2) # <<>> /\ Head(From(p, 2)) = p[2] /\ Tail(From(p, 2)) = From(p, 2 + 1)
        BY <1>1, <3>1, FromFacts
      <4> QED
        BY <2>1, <4>1
    <3>3. 2 + 1 \in Nat /\ 2 + 1 >= 1 /\ 2 + 1 <= Len(p) + 1 /\ 2 + 1 = Len(p) + 1
      BY <2>1
    <3>4. From(p, 2 + 1) = <<>>
      BY <1>1, <3>3, FromFacts
    <3> QED
      BY <3>2, <3>4
  <2>4. Said' = Answer(p)'
    <3>1. Answer(p) = <<At(regs, Sel(p[2]))>>
      BY <2>1, OpsAre DEF Answer
    <3>2. wr' = a
      BY <1>2, <2>2, <2>3, <3>1
    <3>3. <<>> \o a = a
      BY JoinedNone
    <3> QED
      BY <1>3, <2>1, <3>2, <3>3
  <2> QED
    BY <1>1, <2>2, <2>3, <2>4, EndedFacts
<1> QED
  BY <1>4, <1>5, <1>6 DEF Answering

-----------------------------------------------------------------------------
(* The clock. *)

LEMMA LinkBusy ==
  ASSUME NEW t \in Seq(Byte), NEW d \in BOOLEAN, NEW r \in Seq(Byte), NEW z,
         Follow(t, d), UNCHANGED <<todo, waiting, running>>, h'.state = "DISABLED" => d,
         \/ ~Asked /\ z = t
         \/ Asked /\ z = t \o Head(todo) /\ (running => Head(todo) = QueryHltPacket),
         Said' = <<>>, Stream' = r \o z, Busy(r)'
  PROVE  Link'
<1>1. Follow(t, d)'
  BY FollowKept
<1>2. Asked' <=> Asked
  BY DEF Asked
<1>3. CASE ~Asked /\ z = t
  <2>1. Silent(r, t)'
    BY <1>2, <1>3 DEF Silent
  <2> QED
    BY <1>1, <2>1 DEF Link
<1>4. CASE Asked /\ z = t \o Head(todo) /\ (running => Head(todo) = QueryHltPacket)
  <2>1. Coming(r, t)'
    BY <1>2, <1>4 DEF Coming
  <2> QED
    BY <1>1, <2>1 DEF Link
<1> QED
  BY <1>3, <1>4
LEMMA LinkTell ==
  ASSUME NEW d \in BOOLEAN, Follow(<<>>, d), running' = running, h'.state = "DISABLED" => d,
         Telling' \/ Told'
  PROVE  Link'
<1>1. Follow(<<>>, d)'
  BY FollowKept
<1> QED
  BY <1>1, EmptySeq DEF Link

\* What stands on the line, and what is said, stays.
LEMMA SameWords ==
  ASSUME Board, Link, wr' \in {<<>>, wr}, UNCHANGED <<h, Stored, todo, waiting, running>>,
         Said' = Said, Stream' = Stream
  PROVE  Link'
<1>1. PICK t \in Seq(Byte), d \in BOOLEAN :
        /\ Follow(t, d) /\ (h.state = "DISABLED" => d)
        /\ \/ \E r \in Seq(Byte) : Silent(r, t) \/ Coming(r, t)
           \/ t = <<>> /\ (Telling \/ Told)
  BY DEF Link
<1>2. \A p, r : (Gathering(p, r) => Gathering(p, r)') /\ (Doing(p, r) => Doing(p, r)')
  BY DEF Gathering, Doing
<1>3. Between' <=> Between
  BY DEF Between
<1>4. (h'.state = "DISABLED" => d) /\ (Asked' <=> Asked)
  BY <1>1 DEF Asked
<1>5. CASE \E r \in Seq(Byte) : Silent(r, t) \/ Coming(r, t)
  <2>1. PICK r \in Seq(Byte) : Silent(r, t) \/ Coming(r, t)
    BY <1>5
  <2>2. Busy(r)'
    BY <1>2, <1>3, <2>1 DEF Silent, Coming, Busy
  <2>3. CASE Silent(r, t)
    <3>1. ~Asked /\ Said' = <<>> /\ Stream' = r \o t
      BY <2>3 DEF Silent
    <3> QED
      BY <1>1, <1>4, <2>2, <3>1, LinkBusy
  <2>4. CASE Coming(r, t)
    <3>1. /\ Asked /\ Said' = <<>> /\ Stream' = r \o (t \o Head(todo))
          /\ running => Head(todo) = QueryHltPacket
      BY <2>4 DEF Coming
    <3>2. PICK z : z = t \o Head(todo)
      OBVIOUS
    <3>3. Asked /\ z = t \o Head(todo) /\ (running => Head(todo) = QueryHltPacket)
      BY <3>1, <3>2
    <3> QED
      BY <1>1, <1>4, <2>2, <3>1, <3>2, <3>3, LinkBusy
  <2> QED
    BY <2>1, <2>3, <2>4
<1>6. CASE t = <<>> /\ Telling
  <2>1. PICK p, r : p = Head(todo) /\ r = Stream
    OBVIOUS
  <2>2. Answer(p)' = Answer(p)
    BY AnswerKept
  <2>3. Answering(p, r) => Answering(p, r)'
    BY <2>2 DEF Answering
  <2>4. p = Head(todo)' /\ r = Stream'
    BY <2>1
  <2>5. Gathering(p, r) => Gathering(p, r)'
    BY <1>2
  <2>6. Asked' /\ (\/ Said' = <<>> /\ Gathering(p, r)'
                   \/ Answering(p, r)')
    BY <1>4, <1>6, <2>1, <2>3, <2>5 DEF Telling
  <2>7. Telling'
    BY <2>4, <2>6 DEF Telling
  <2> QED
    BY <1>1, <1>4, <1>6, <2>7, LinkTell
<1>7. CASE t = <<>> /\ Told
  <2>1. PICK p : p = Head(todo)
    OBVIOUS
  <2>2. Answer(p)' = Answer(p)
    BY AnswerKept
  <2>3. Told'
    BY <1>3, <1>4, <1>7, <2>1, <2>2 DEF Told
  <2> QED
    BY <1>1, <1>4, <1>7, <2>3, LinkTell
<1> QED
  BY <1>1, <1>5, <1>6, <1>7

\* A byte that the decoder takes is the first on the line.
LEMMA Popped ==
  ASSUME Board, Pop, UNCHANGED down
  PROVE  Stream # <<>> /\ Head(Stream) = Data /\ Stream' = Tail(Stream)
<1>1. rx \in Seq(Byte) /\ down \in Seq(Byte) /\ rx # <<>> /\ rx' = Tail(rx)
  BY DEF Board, Pop
<1>2. rx \o down # <<>> /\ Head(rx \o down) = Head(rx) /\ Tail(rx \o down) = Tail(rx) \o down
  BY <1>1, HeadOn
<1> QED
  BY <1>1, <1>2 DEF Stream, Data

Acts == \/ Disabled \/ Decode \/ Gather \/ Echo \/ MemRead \/ MemWrite
        \/ RegRead \/ RegWrite \/ QueryErr \/ PpuDisable \/ CartSetCfg

\* What is latched has been said before.
LEMMA Latched ==
  ASSUME Board, Room, ~hidden, ~hidden', Latch, wr' \in Seq(Byte)
  PROVE  tx' = tx \o wr /\ UNCHANGED <<down, up>> /\ Said' = Said \o wr' /\ tx' \in Seq(Byte)
<1>1. up \in Seq(Byte) /\ tx \in Seq(Byte) /\ wr \in Seq(Byte)
  BY DEF Board
<1>2. tx' = (IF TxFull THEN tx ELSE tx \o wr) /\ UNCHANGED <<down, up>>
  BY DEF Latch, line
<1>3. TxFull => wr = <<>>
  <2>1. TxFull => ~(Len(tx) < Cells)
    BY HciAssumption DEF TxFull
  <2> QED
    BY <2>1 DEF Room
<1>4. tx' = tx \o wr
  <2>1. tx \o <<>> = tx
    BY <1>1, JoinedNone
  <2> QED
    BY <1>2, <1>3, <2>1
<1>5. Said' = up \o ((tx \o wr) \o wr')
  BY <1>2, <1>4 DEF Said
<1>6. tx \o wr \in Seq(Byte)
  BY <1>1, Joined
<1>7. (up \o (tx \o wr)) \o wr' = up \o ((tx \o wr) \o wr')
  <2>1. up \in Seq(Byte) /\ tx \o wr \in Seq(Byte) /\ wr' \in Seq(Byte)
    BY <1>1, <1>6
  <2> QED
    BY ONLY <2>1, Regrouped
<1> QED
  BY <1>2, <1>4, <1>5, <1>6, <1>7 DEF Said

LEMMA SaysByte ==
  ASSUME NEW b \in Byte, Say(b)
  PROVE  wr' \in Seq(Byte) /\ Len(wr') <= 1
<1>1. <<b>> \in Seq(Byte) /\ Len(<<b>>) <= 1
  OBVIOUS
<1> QED
  BY <1>1 DEF Say
LEMMA SaysNone ==
  ASSUME Mute
  PROVE  wr' \in Seq(Byte) /\ Len(wr') <= 1 /\ wr' = <<>>
<1>1. <<>> \in Seq(Byte) /\ Len(<<>>) <= 1
  BY EmptySeq
<1> QED
  BY <1>1 DEF Mute
LEMMA PutByte ==
  ASSUME NEW S, NEW f \in [S -> Byte], NEW a, NEW b \in Byte
  PROVE  Put(f, a, b) \in [S -> Byte]
BY DEF Put

\* Bytes stay bytes.
LEMMA ClockTypes ==
  ASSUME Board, Acts
  PROVE  /\ wr' \in Seq(Byte) /\ Len(wr') <= 1 /\ rx' \in Seq(Byte) /\ Len(rx') <= Len(rx)
         /\ cpu_mem' \in [CpuSpace -> Byte] /\ ppu_mem' \in [PpuSpace -> Byte]
         /\ regs' \in [RegSels -> Byte]
<1>1. /\ rx \in Seq(Byte) /\ Len(rx) \in Nat
      /\ cpu_mem \in [CpuSpace -> Byte] /\ ppu_mem \in [PpuSpace -> Byte] /\ regs \in [RegSels -> Byte]
  BY LenProperties DEF Board
<1>2. {0, 1, 2} \subseteq Byte
  BY HciAssumption DEF Byte
<1>3. Pop => rx' \in Seq(Byte) /\ Len(rx') <= Len(rx) /\ Data \in Byte
  <2> SUFFICES ASSUME Pop PROVE rx' \in Seq(Byte) /\ Len(rx') <= Len(rx) /\ Data \in Byte
    OBVIOUS
  <2>1. Head(rx) \in Byte /\ Tail(rx) \in Seq(Byte) /\ Len(Tail(rx)) = Len(rx) - 1
    BY <1>1, HeadTailProperties DEF Pop
  <2> QED
    BY <1>1, <2>1 DEF Pop, Data
<1>4. UNCHANGED rx => rx' \in Seq(Byte) /\ Len(rx') <= Len(rx)
  BY <1>1
<1>5. \A a : At(cpu_mem, a) \in Byte /\ At(ppu_mem, a) \in Byte /\ At(regs, a) \in Byte
  BY <1>1, AtByte
<1>6. ASSUME Disabled \/ Decode
      PROVE  wr' \in Seq(Byte) /\ Len(wr') <= 1 /\ Pop /\ UNCHANGED Stored
  <2>1. (Mute \/ Say(0) \/ Say(1)) /\ Pop /\ UNCHANGED Stored
    BY <1>6 DEF Disabled, Decode
  <2> QED
    BY <1>2, <2>1, SaysByte, SaysNone
<1>7. ASSUME Gather PROVE wr' \in Seq(Byte) /\ Len(wr') <= 1 /\ Pop /\ UNCHANGED Stored
  BY <1>7, SaysNone DEF Gather
<1>8. ASSUME Echo \/ RegRead PROVE wr' \in Seq(Byte) /\ Len(wr') <= 1 /\ Pop /\ UNCHANGED Stored
  <2>1. (Say(Data) \/ Say(At(regs, Sel(Data)))) /\ Pop /\ UNCHANGED Stored
    BY <1>8 DEF Echo, RegRead
  <2> QED
    BY <1>3, <1>5, <2>1, SaysByte
<1>9. ASSUME MemRead PROVE wr' \in Seq(Byte) /\ Len(wr') <= 1 /\ UNCHANGED rx /\ UNCHANGED Stored
  <2>1. /\ Mute \/ Say(At(IF h.unit = "cpu" THEN cpu_mem ELSE ppu_mem, h.addr))
        /\ UNCHANGED rx /\ UNCHANGED Stored
    BY <1>9 DEF MemRead
  <2>2. At(IF h.unit = "cpu" THEN cpu_mem ELSE ppu_mem, h.addr) \in Byte
    BY <1>5
  <2> QED
    BY <2>1, <2>2, SaysByte, SaysNone
<1>10. ASSUME QueryErr PROVE wr' \in Seq(Byte) /\ Len(wr') <= 1 /\ UNCHANGED rx /\ UNCHANGED Stored
  <2>1. (Say(2) \/ Say(0)) /\ UNCHANGED rx /\ UNCHANGED Stored
    BY <1>10 DEF QueryErr
  <2> QED
    BY <1>2, <2>1, SaysByte
<1>11. ASSUME CartSetCfg PROVE wr' \in Seq(Byte) /\ Len(wr') <= 1 /\ (Pop \/ UNCHANGED rx) /\ UNCHANGED Stored
  BY <1>11, SaysNone DEF CartSetCfg
<1>12. ASSUME MemWrite
       PROVE  /\ wr' \in Seq(Byte) /\ Len(wr') <= 1 /\ Pop /\ UNCHANGED regs
              /\ cpu_mem' \in [CpuSpace -> Byte] /\ ppu_mem' \in [PpuSpace -> Byte]
  <2>1. /\ Mute /\ Pop /\ UNCHANGED regs
        /\ \/ cpu_mem' = Put(cpu_mem, h.addr, Data) /\ UNCHANGED ppu_mem
           \/ ppu_mem' = Put(ppu_mem, h.addr, Data) /\ UNCHANGED cpu_mem
    BY <1>12 DEF MemWrite
  <2>2. /\ Put(cpu_mem, h.addr, Data) \in [CpuSpace -> Byte]
        /\ Put(ppu_mem, h.addr, Data) \in [PpuSpace -> Byte]
    BY <1>1, <1>3, <2>1, PutByte
  <2> QED
    BY <1>1, <2>1, <2>2, SaysNone
<1>13. ASSUME RegWrite
       PROVE  /\ wr' \in Seq(Byte) /\ Len(wr') <= 1 /\ Pop /\ UNCHANGED <<cpu_mem, ppu_mem>>
              /\ regs' \in [RegSels -> Byte]
  <2>1. /\ Mute /\ Pop /\ UNCHANGED <<cpu_mem, ppu_mem>>
        /\ UNCHANGED regs \/ regs' = Put(regs, Sel(h.addr), Data)
    BY <1>13 DEF RegWrite
  <2>2. Put(regs, Sel(h.addr), Data) \in [RegSels -> Byte]
    BY <1>1, <1>3, <2>1, PutByte
  <2> QED
    BY <1>1, <2>1, <2>2, SaysNone
<1>14. ASSUME PpuDisable
       PROVE  /\ wr' \in Seq(Byte) /\ Len(wr') <= 1 /\ UNCHANGED <<rx, ppu_mem, regs>>
              /\ cpu_mem' \in [CpuSpace -> Byte]
  <2>1. /\ Mute /\ UNCHANGED <<rx, ppu_mem, regs>>
        /\ UNCHANGED cpu_mem \/ cpu_mem' = Put(cpu_mem, h.addr, 0)
    BY <1>14 DEF PpuDisable
  <2>2. Put(cpu_mem, h.addr, 0) \in [CpuSpace -> Byte]
    BY <1>1, <1>2, PutByte
  <2> QED
    BY <1>1, <2>1, <2>2, SaysNone
<1> USE DEF Stored
<1>15. CASE Disabled \/ Decode \/ Gather \/ Echo \/ RegRead
  BY <1>1, <1>3, <1>6, <1>7, <1>8, <1>15
<1>16. CASE MemRead \/ QueryErr \/ CartSetCfg
  BY <1>1, <1>3, <1>4, <1>9, <1>10, <1>11, <1>16
<1>17. CASE MemWrite
  BY <1>1, <1>3, <1>12, <1>17
<1>18. CASE RegWrite
  BY <1>1, <1>3, <1>13, <1>18
<1>19. CASE PpuDisable
  BY <1>1, <1>4, <1>14, <1>19
<1> QED
  BY <1>15, <1>16, <1>17, <1>18, <1>19 DEF Acts

\* Each state of the decoder has one action.
LEMMA ActOf ==
  ASSUME Acts
  PROVE  /\ h.state = "DISABLED" => Disabled
         /\ h.state = "DECODE" => Decode
         /\ h.state \in {"ECHO_0", "MEM_RD_0", "MEM_WR_0"} => Gather
         /\ h.state = "ECHO_1" => Echo
         /\ h.state = "MEM_RD_1" => MemRead
         /\ h.state = "REG_RD" => RegRead
         /\ h.state \in {"MEM_WR_1", "REG_WR_0", "REG_WR_1", "PPU_DISABLE", "CART_0", "CART_1"} =>
              \/ MemWrite
              \/ RegWrite
              \/ PpuDisable
              \/ CartSetCfg
BY DEF Acts, Disabled, Decode, Gather, Echo, MemRead, MemWrite, RegRead, RegWrite, QueryErr,
       PpuDisable, CartSetCfg

\* In a packet without an answer.
LEMMA BusyStep ==
  ASSUME IsRegs(h), Acts, NEW p \in Packets, ~Asks(p), NEW r \in Seq(Byte),
         Gathering(p, r) \/ Doing(p, r), Pop /\ r # <<>> => Data = Head(r)
  PROVE  /\ wr' = <<>> /\ IsRegs(h') /\ h'.state # "DISABLED"
         /\ \/ Pop /\ r # <<>> /\ Busy(Tail(r))'
            \/ UNCHANGED rx /\ Busy(r)'
<1>1. \A s : (Gathering(p, s) \/ Doing(p, s))' => Busy(s)' /\ h'.state # "DISABLED"
  BY DEF Busy, Gathering, Doing
<1>2. h'.state = "DECODE" => Busy(<<>>)' /\ h'.state # "DISABLED"
  BY DEF Busy, Between
<1>3. CASE Gathering(p, r)
  <2>1. Gather
    BY <1>3, ActOf DEF Gathering
  <2>2. r # <<>> /\ Pop /\ wr' = <<>>
    BY <1>3, <2>1, GatherSome DEF Gather, Mute
  <2>3. IsRegs(h') /\ (\/ Gathering(p, Tail(r))'
                       \/ h'.state = "DECODE" /\ Tail(r) = <<>>
                       \/ Doing(p, Tail(r))')
    <3>1. Data = Head(r)
      BY <2>2
    <3>2. p[1] = OpEcho => Number(p, 2) = 0
      BY PacketFacts, AsksFacts DEF Asks
    <3>3. p[1] \in {OpCpuMemRd, OpPpuMemRd} => Number(p, 4) = 0
      BY PacketFacts, AsksFacts DEF Asks
    <3>4. ~(0 > 0)
      OBVIOUS
    <3> QED
      BY <1>3, <2>1, <2>2, <3>1, <3>2, <3>3, <3>4, GatherStep
  <2> QED
    BY <1>1, <1>2, <2>2, <2>3
<1>4. CASE Doing(p, r)
  <2>1. \/ MemWrite
        \/ RegWrite
        \/ PpuDisable
        \/ CartSetCfg
    BY <1>4, ActOf DEF Doing
  <2>2. /\ wr' = <<>> /\ IsRegs(h')
        /\ \/ Pop /\ r # <<>> /\ Doing(p, Tail(r))'
           \/ Pop /\ r # <<>> /\ h'.state = "DECODE" /\ Tail(r) = <<>>
           \/ UNCHANGED rx /\ Doing(p, r)'
           \/ UNCHANGED rx /\ h'.state = "DECODE" /\ r = <<>>
    BY <1>4, <2>1, DoingStep
  <2> QED
    BY <1>1, <1>2, <2>2
<1> QED
  BY <1>3, <1>4

\* Between two packets, and the next has no answer.
LEMMA NextBegins ==
  ASSUME IsRegs(h), Between, Acts, NEW p \in Packets, ~Asks(p), Data = p[1],
         h.state = "DISABLED" => p = DbgHltPacket
  PROVE  /\ Pop /\ wr' = <<>> /\ IsRegs(h') /\ Busy(From(p, 2))'
         /\ h'.state = "DISABLED" => p = DbgRunPacket
<1>1. p \in Seq(Byte) /\ Len(p) \in Nat /\ p[1] # OpQueryHlt
  BY PacketFacts, AsksFacts
<1>2. Len(p) = 1 => From(p, 2) = <<>>
  <2>1. Len(p) = 1 => 2 \in Nat /\ 2 >= 1 /\ 2 <= Len(p) + 1 /\ 2 = Len(p) + 1
    OBVIOUS
  <2> QED
    BY <1>1, <2>1, FromFacts
<1>3. CASE h.state = "DISABLED"
  <2>1. Disabled /\ p = DbgHltPacket /\ p[1] = OpDbgHlt
    BY <1>3, ActOf, Singles
  <2>2. Len(p) = 1
    BY <2>1, PacketFacts
  <2>3. Pop /\ wr' = <<>> /\ h' = To("DECODE")
    BY <1>1, <2>1 DEF Disabled, Mute
  <2>4. IsRegs(h') /\ h'.state = "DECODE"
    BY <2>3 DEF IsRegs, Fields, To
  <2> QED
    BY <1>2, <2>2, <2>3, <2>4 DEF Busy, Between
<1>4. CASE h.state = "DECODE"
  <2>1. Decode /\ Pop
    BY <1>4, ActOf DEF Decode
  <2>2. \A s : (Gathering(p, s) \/ Doing(p, s))' => Busy(s)' /\ h'.state # "DISABLED"
    BY DEF Busy, Gathering, Doing
  <2>3. (h'.state = "DECODE" \/ h'.state = "DISABLED") => Busy(<<>>)'
    BY DEF Busy, Between
  <2>4. IsRegs(h') /\ (\/ wr' = <<>> /\ Len(p) = 1 /\ p[1] # OpDbgRun /\ h'.state = "DECODE"
                       \/ wr' = <<>> /\ Len(p) = 1 /\ p[1] = OpDbgRun /\ h'.state = "DISABLED"
                       \/ wr' = <<>> /\ Gathering(p, From(p, 2))'
                       \/ wr' = <<>> /\ Doing(p, From(p, 2))')
    <3>1. p[1] # OpCpuRegRd
      BY AsksFacts
    <3> QED
      BY <1>1, <2>1, <3>1, DecodeStep
  <2>5. p[1] = OpDbgRun => p = DbgRunPacket
    BY Singles
  <2> QED
    BY <1>2, <2>1, <2>2, <2>3, <2>4, <2>5
<1> QED
  BY <1>3, <1>4 DEF Between

\* The decoder on packets without an answer.
LEMMA BusyKeeps ==
  ASSUME Board, Acts, NEW t \in Seq(Byte), NEW d \in BOOLEAN, NEW r \in Seq(Byte), NEW q \in Seq(Byte),
         Follow(t, d), h.state = "DISABLED" => d, Said = <<>>, Said' = Said \o wr',
         Stream = r \o (t \o q), Busy(r), Between => t # <<>>,
         UNCHANGED <<down, todo, waiting, running>>,
         \/ ~Asked /\ q = <<>>
         \/ Asked /\ q = Head(todo) /\ (running => Head(todo) = QueryHltPacket)
  PROVE  wr' = <<>> /\ IsRegs(h') /\ Link'
<1>1. IsRegs(h) /\ t \o q \in Seq(Byte) /\ rx \in Seq(Byte) /\ down \in Seq(Byte)
  BY Joined DEF Board, IsRegs
<1>2. Pop => Stream # <<>> /\ Head(Stream) = Data /\ Stream' = Tail(Stream)
  BY Popped
<1>3. wr' = <<>> => Said' = <<>>
  BY EmptySeq, JoinedNone
<1>4. UNCHANGED rx => Stream' = Stream
  BY DEF Stream
<1>5. \A y \in Seq(Byte) : \/ ~Asked /\ y \o q = y
                           \/ Asked /\ y \o q = y \o Head(todo) /\ (running => Head(todo) = QueryHltPacket)
  BY JoinedNone
<1>6. r # <<>> => Head(Stream) = Head(r) /\ Tail(Stream) = Tail(r) \o (t \o q) /\ Tail(r) \in Seq(Byte)
  <2>1. \A z \in Seq(Byte) : r # <<>> => Head(r \o z) = Head(r) /\ Tail(r \o z) = Tail(r) \o z
    BY HeadOn
  <2>2. r # <<>> => Tail(r) \in Seq(Byte)
    BY HeadTailProperties
  <2>3. r # <<>> => Head(r \o (t \o q)) = Head(r) /\ Tail(r \o (t \o q)) = Tail(r) \o (t \o q)
    BY <1>1, <2>1, Zenon
  <2> QED
    BY <2>2, <2>3
<1>7. CASE ~(Between /\ r = <<>>)
  <2>1. PICK p \in Packets : ~Asks(p) /\ (Gathering(p, r) \/ Doing(p, r))
    BY <1>7 DEF Busy
  <2>2. /\ wr' = <<>> /\ IsRegs(h') /\ h'.state # "DISABLED"
        /\ \/ Pop /\ r # <<>> /\ Busy(Tail(r))'
           \/ UNCHANGED rx /\ Busy(r)'
    <3>1. Pop /\ r # <<>> => Data = Head(r)
      BY <1>2, <1>6
    <3> QED
      BY <1>1, <2>1, <3>1, BusyStep
  <2>3. PICK s \in Seq(Byte) : Stream' = s \o (t \o q) /\ Busy(s)'
    BY <1>2, <1>4, <1>6, <2>2
  <2>4. Link'
    <3>1. PICK z : z = t \o q
      OBVIOUS
    <3>2. \/ ~Asked /\ z = t
          \/ Asked /\ z = t \o Head(todo) /\ (running => Head(todo) = QueryHltPacket)
      BY <1>5, <3>1
    <3>3. Said' = <<>> /\ Stream' = s \o z /\ (h'.state = "DISABLED" => d)
      BY <1>3, <2>2, <2>3, <3>1
    <3> QED
      BY <2>3, <3>2, <3>3, LinkBusy
  <2> QED
    BY <2>2, <2>4
<1>8. CASE Between /\ r = <<>>
  <2>1. PICK p \in Packets, y \in Seq(Byte), e \in BOOLEAN :
          /\ t = p \o y /\ ~Asks(p) /\ Follow(y, e)
          /\ d => p = DbgHltPacket
          /\ p = DbgRunPacket => e
    BY <1>8, FollowFirst
  <2>2. p \in Seq(Byte) /\ p # <<>> /\ Head(p) = p[1] /\ y \o q \in Seq(Byte) /\ Len(p) \in Nat /\ Len(p) >= 1
    BY PacketFacts, Joined
  <2>3. Stream = p \o (y \o q)
    <3>1. <<>> \o (t \o q) = t \o q
      BY <1>1, JoinedNone
    <3>2. (p \o y) \o q = p \o (y \o q)
      <4>1. p \in Seq(Byte) /\ y \in Seq(Byte) /\ q \in Seq(Byte)
        BY <2>2
      <4> QED
        BY ONLY <4>1, Regrouped
    <3> QED
      BY <1>8, <2>1, <3>1, <3>2
  <2>4. Tail(p) = From(p, 2) /\ From(p, 2) \in Seq(Byte)
    <3>1. 1 \in Nat /\ 1 >= 1 /\ 1 <= Len(p) + 1 /\ 1 <= Len(p) /\ 1 + 1 = 2
          /\ 2 \in Nat /\ 2 >= 1 /\ 2 <= Len(p) + 1
      BY <2>2
    <3>2. Tail(From(p, 1)) = From(p, 1 + 1)
      BY <2>2, <3>1, FromFacts
    <3>3. From(p, 1) = p
      BY <2>2, SubSeqFull DEF From
    <3>4. From(p, 2) \in Seq(Byte)
      BY <2>2, <3>1, FromFacts
    <3> QED
      BY <3>1, <3>2, <3>3, <3>4
  <2>5. Head(Stream) = p[1] /\ Tail(Stream) = From(p, 2) \o (y \o q)
    <3>1. Head(p \o (y \o q)) = Head(p) /\ Tail(p \o (y \o q)) = Tail(p) \o (y \o q)
      BY <2>2, HeadOn
    <3> QED
      BY <2>2, <2>3, <2>4, <3>1
  <2>6. Pop
    BY <1>8, ActOf DEF Between, Disabled, Decode
  <2>7. /\ wr' = <<>> /\ IsRegs(h') /\ Busy(From(p, 2))'
        /\ h'.state = "DISABLED" => p = DbgRunPacket
    <3>1. Data = p[1]
      BY <1>2, <2>5, <2>6
    <3>2. h.state = "DISABLED" => p = DbgHltPacket
      BY <2>1
    <3> QED
      BY <1>1, <1>8, <2>1, <3>1, <3>2, NextBegins
  <2>8. Link'
    <3>1. PICK z : z = y \o q
      OBVIOUS
    <3>2. \/ ~Asked /\ z = y
          \/ Asked /\ z = y \o Head(todo) /\ (running => Head(todo) = QueryHltPacket)
      BY <1>5, <3>1
    <3>3. PICK s \in Seq(Byte) : s = From(p, 2)
      BY <2>4
    <3>4. Said' = <<>> /\ Stream' = s \o z /\ (h'.state = "DISABLED" => e) /\ Busy(s)'
      BY <1>2, <1>3, <2>1, <2>5, <2>6, <2>7, <3>1, <3>3
    <3> QED
      BY <2>1, <3>2, <3>4, LinkBusy
  <2> QED
    BY <2>7, <2>8
<1> QED
  BY <1>7, <1>8

\* Between two packets, and the next is the question.
LEMMA QuestionBegins ==
  ASSUME Board, Acts, Between, Asked, NEW p \in Packets, p = Head(todo), Stream = p, Said = <<>>,
         Said' = Said \o wr', NEW d \in BOOLEAN, Follow(<<>>, d), h.state = "DISABLED" => d,
         running => p = QueryHltPacket, UNCHANGED <<down, todo, waiting, running>>
  PROVE  IsRegs(h') /\ Link'
<1>1. IsRegs(h) /\ p \in Seq(Byte) /\ p # <<>> /\ Head(p) = p[1] /\ Len(p) \in Nat /\ Len(p) >= 1
  BY PacketFacts DEF Board, IsRegs
<1>2. Asks(p) /\ Asked' /\ p = Head(todo)'
  BY DEF Asked
<1>3. Pop
  BY ActOf DEF Between, Disabled, Decode
<1>4. Data = p[1] /\ Stream' = Tail(p)
  BY <1>1, <1>3, Popped
<1>5. Tail(p) = From(p, 2) /\ (Len(p) = 1 => From(p, 2) = <<>>)
  <2>1. 1 \in Nat /\ 1 >= 1 /\ 1 <= Len(p) + 1 /\ 1 <= Len(p) /\ 1 + 1 = 2
        /\ 2 \in Nat /\ 2 >= 1 /\ 2 <= Len(p) + 1
    BY <1>1
  <2>2. Tail(From(p, 1)) = From(p, 1 + 1)
    BY <1>1, <2>1, FromFacts
  <2>3. From(p, 1) = p
    BY <1>1, SubSeqFull DEF From
  <2>4. Len(p) = 1 => 2 = Len(p) + 1
    BY ONLY <1>1
  <2>5. Len(p) = 1 => From(p, 2) = <<>>
    BY <1>1, <2>1, <2>4, FromFacts
  <2> QED
    BY <2>1, <2>2, <2>3, <2>5
<1>6. wr' \in Seq(Byte)
  BY ClockTypes
<1>7. Said' = wr'
  BY <1>6, JoinedNone
<1>8. p[1] = OpQueryHlt => p = QueryHltPacket /\ Len(p) = 1
  BY Singles, PacketFacts
<1>9. CASE h.state = "DISABLED"
  <2>1. p = QueryHltPacket /\ p[1] = OpQueryHlt
    <3>1. running
      BY <1>9, FollowEnd
    <3> QED
      BY <3>1, Singles
  <2>2. wr' = <<0>> /\ h' = h
    <3>1. Disabled /\ OpQueryHlt # OpDbgHlt
      BY <1>9, ActOf, OpsAre
    <3> QED
      BY <1>4, <2>1, <3>1 DEF Disabled, Say
  <2>3. Told'
    <3>1. Stream' = <<>>
      BY <1>4, <1>5, <1>8, <2>1
    <3>2. Between'
      BY <1>9, <2>2 DEF Between
    <3> QED
      BY <1>2, <1>7, <2>1, <2>2, <3>1, <3>2 DEF Told
  <2>4. h'.state = "DISABLED" => d
    BY <1>9
  <2> QED
    BY <1>1, <2>2, <2>3, <2>4, LinkTell
<1>10. CASE h.state = "DECODE"
  <2>1. /\ IsRegs(h')
        /\ \/ wr' = <<1>> /\ p[1] = OpQueryHlt /\ h'.state = "DECODE"
           \/ wr' = <<>> /\ Gathering(p, From(p, 2))'
           \/ wr' = <<>> /\ p[1] = OpCpuRegRd /\ h'.state = "REG_RD"
    BY <1>1, <1>2, <1>4, <1>10, ActOf, DecodeStep
  <2>2. CASE wr' = <<1>> /\ p[1] = OpQueryHlt /\ h'.state = "DECODE"
    <3>1. Stream' = <<>>
      BY <1>4, <1>5, <1>8, <2>2
    <3>2. Answer(p)' = <<1>>
      BY <2>2, OpsAre DEF Answer
    <3>3. Told'
      BY <1>2, <1>7, <2>2, <3>1, <3>2 DEF Told
    <3> QED
      BY <2>1, <2>2, <3>3, LinkTell
  <2>3. CASE wr' = <<>> /\ Gathering(p, From(p, 2))'
    <3>1. PICK s : s = Stream' /\ s = From(p, 2)
      BY <1>4, <1>5
    <3>2. Gathering(p, s)' /\ h'.state # "DISABLED"
      BY <2>3, <3>1 DEF Gathering
    <3>3. Telling'
      BY <1>2, <1>7, <2>3, <3>1, <3>2 DEF Telling
    <3> QED
      BY <2>1, <3>2, <3>3, LinkTell
  <2>4. CASE wr' = <<>> /\ p[1] = OpCpuRegRd /\ h'.state = "REG_RD"
    <3>1. PICK s : s = Stream' /\ s = From(p, 2)
      BY <1>4, <1>5
    <3>2. Answering(p, s)'
      BY <1>7, <2>4, <3>1 DEF Answering
    <3>3. Telling'
      BY <1>2, <3>1, <3>2 DEF Telling
    <3> QED
      BY <2>1, <2>4, <3>3, LinkTell
  <2> QED
    BY <2>1, <2>2, <2>3, <2>4
<1> QED
  BY <1>9, <1>10 DEF Between

\* The question is gathered, then answered.
LEMMA TellStep ==
  ASSUME Board, Acts, Works, Telling, NEW p \in Packets, p = Head(todo), Said' = Said \o wr',
         UNCHANGED <<down, todo, waiting, running>>
  PROVE  IsRegs(h') /\ h'.state # "DISABLED" /\ (Telling' \/ Told')
<1>1. IsRegs(h) /\ p \in Seq(Byte) /\ Len(p) \in Nat /\ Stores /\ Stream \in Seq(Byte)
  BY PacketFacts, Joined DEF Board, IsRegs, Stores, Stream
<1>2. Asks(p) /\ Asked' /\ p = Head(todo)'
  BY DEF Telling, Asked
<1>3. PICK r \in Seq(Byte) : r = Stream
  BY <1>1
<1>4. Pop => r # <<>> /\ Data = Head(r) /\ Stream' = Tail(r)
  BY <1>3, Popped
<1>5. UNCHANGED rx => r = Stream'
  BY <1>3 DEF Stream
<1>6. CASE Said = <<>> /\ Gathering(p, r)
  <2>1. Gather
    BY <1>6, ActOf DEF Gathering
  <2>2. Pop /\ wr' = <<>> /\ UNCHANGED Stored
    BY <2>1 DEF Gather, Mute
  <2>3. Said' = <<>>
    BY <1>6, <2>2, EmptySeq, JoinedNone
  <2>4. PICK s : s = Stream' /\ s = Tail(r)
    BY <1>4, <2>2
  <2>5. /\ IsRegs(h')
        /\ \/ Gathering(p, s)'
           \/ /\ h'.state = "ECHO_1" /\ p[1] = OpEcho /\ s = From(p, 4)
              /\ h'.execute_cnt = Number(p, 2) /\ Number(p, 2) > 0
           \/ /\ h'.state = "MEM_RD_1" /\ p[1] \in {OpCpuMemRd, OpPpuMemRd} /\ s = <<>>
              /\ h'.unit = (IF p[1] = OpPpuMemRd THEN "ppu" ELSE "cpu")
              /\ h'.execute_cnt = 2 * Number(p, 4) /\ Number(p, 4) > 0
              /\ h'.addr = Number(p, 2)
    BY <1>1, <1>2, <1>4, <1>6, <2>1, <2>2, <2>4, GatherStep
  <2>6. Answer(p)' \in Seq(Byte) /\ SubSeq(Answer(p)', 1, 0) = <<>>
    <3>1. Answer(p)' \in Seq(Byte)
      BY <1>1, <1>2, <2>2, AnswerFacts, AnswerKept
    <3>2. 0 < 1 /\ 0 \in Int /\ 1 \in Int
      OBVIOUS
    <3> QED
      BY <3>1, <3>2, SubSeqEmpty
  <2>7. CASE Gathering(p, s)'
    <3>1. Telling'
      BY <1>2, <2>3, <2>4, <2>7 DEF Telling
    <3> QED
      BY <2>5, <2>7, <3>1 DEF Gathering
  <2>8. CASE /\ h'.state = "ECHO_1" /\ p[1] = OpEcho /\ s = From(p, 4)
             /\ h'.execute_cnt = Number(p, 2) /\ Number(p, 2) > 0
    <3>1. PICK n : n = Number(p, 2)
      OBVIOUS
    <3>2. n \in 1 .. Len(p) - 3 /\ Len(p) - n + 1 = 4 /\ Len(p) - 3 - n = 0
      <4>1. Len(p) = 3 + n /\ n \in Nat /\ n > 0
        BY <2>8, <3>1, PacketFacts
      <4> QED
        BY <4>1
    <3>3. Answering(p, s)'
      BY <2>3, <2>6, <2>8, <3>1, <3>2 DEF Answering
    <3>4. Telling'
      BY <1>2, <2>4, <3>3 DEF Telling
    <3> QED
      BY <2>5, <2>8, <3>4
  <2>9. CASE /\ h'.state = "MEM_RD_1" /\ p[1] \in {OpCpuMemRd, OpPpuMemRd} /\ s = <<>>
             /\ h'.unit = (IF p[1] = OpPpuMemRd THEN "ppu" ELSE "cpu")
             /\ h'.execute_cnt = 2 * Number(p, 4) /\ Number(p, 4) > 0
             /\ h'.addr = Number(p, 2)
    <3>1. PICK n, a : n = Number(p, 4) /\ a = Number(p, 2)
      OBVIOUS
    <3>2. n \in 1 .. n /\ n - n = 0 /\ a + n - n = a /\ a \in Nat /\ a < WordMod
      <4>1. Len(p) = 5 /\ n \in Nat /\ n > 0
        BY <2>9, <3>1, PacketFacts
      <4>2. 2 \in Nat /\ 2 >= 1 /\ 2 + 1 <= Len(p)
        BY ONLY <4>1
      <4>3. a \in Nat /\ a < WordMod
        BY <1>1, <3>1, <4>2, NumberFacts
      <4> QED
        BY <4>1, <4>3
    <3>3. a % WordMod = a
      <4>1. WordMod \in Nat /\ WordMod > 0 /\ a \in 0 .. WordMod - 1
        BY <3>2, WordModFacts
      <4> QED
        BY <4>1, LeftOnce
    <3>4. /\ h'.execute_cnt = 2 * n /\ h'.addr = (a + n - n) % WordMod
          /\ Said' = SubSeq(Answer(p)', 1, n - n)
      BY <2>3, <2>6, <2>9, <3>1, <3>2, <3>3
    <3>5. Answering(p, s)'
      BY <2>9, <3>1, <3>2, <3>4 DEF Answering
    <3>6. Telling'
      BY <1>2, <2>4, <3>5 DEF Telling
    <3> QED
      BY <2>5, <2>9, <3>6
  <2> QED
    BY <2>5, <2>7, <2>8, <2>9
<1>7. CASE Answering(p, r)
  <2>1. \/ Echo
        \/ MemRead
        \/ RegRead
    BY <1>7, ActOf DEF Answering
  <2>2. UNCHANGED Stored
    BY <2>1 DEF Echo, MemRead, RegRead, Stored
  <2>3. r # <<>> => Data = Head(r)
    <3>1. r # <<>> => Pop
      <4>1. h.state = "MEM_RD_1" => r = <<>>
        BY <1>7 DEF Answering
      <4>2. h.state # "MEM_RD_1" => Pop
        BY <2>1 DEF Echo, MemRead, RegRead
      <4> QED
        BY <4>1, <4>2
    <3> QED
      BY <1>4, <3>1
  <2>4. /\ IsRegs(h')
        /\ \/ Pop /\ r # <<>> /\ Answering(p, Tail(r))'
           \/ Pop /\ r # <<>> /\ Tail(r) = <<>> /\ h'.state = "DECODE" /\ Said' = Answer(p)'
           \/ UNCHANGED rx /\ Answering(p, r)'
           \/ UNCHANGED rx /\ r = <<>> /\ h'.state = "DECODE" /\ Said' = Answer(p)'
    BY <1>2, <1>7, <2>1, <2>2, <2>3, AnswerStep
  <2>5. PICK s : /\ s = Stream'
                 /\ \/ Answering(p, s)'
                    \/ s = <<>> /\ h'.state = "DECODE" /\ Said' = Answer(p)'
    BY <1>4, <1>5, <2>4
  <2>6. CASE Answering(p, s)'
    <3>1. Telling'
      BY <1>2, <2>5, <2>6 DEF Telling
    <3> QED
      BY <2>4, <2>6, <3>1 DEF Answering
  <2>7. CASE s = <<>> /\ h'.state = "DECODE" /\ Said' = Answer(p)'
    <3>1. Told'
      BY <1>2, <2>5, <2>7 DEF Told
    <3> QED
      BY <2>4, <2>7, <3>1
  <2> QED
    BY <2>5, <2>6, <2>7
<1> QED
  BY <1>3, <1>6, <1>7 DEF Telling

\* Nothing is left to say but while an answer is said.
LEMMA SaidNow ==
  ASSUME Board, Sending, Link, Acts
  PROVE  /\ h.state # "QUERY_ERR"
         /\ h.state \notin {"ECHO_1", "MEM_RD_1"} => Said = <<>>
         /\ h.state = "MEM_RD_1" /\ Paced => wr = <<>>
<1>1. CASE Said = <<>> /\ \E r : Busy(r)
  BY <1>1 DEF Busy, Between, Gathering, Doing
<1>2. CASE Told
  <2>1. Stream = <<>> /\ Between
    BY <1>2 DEF Told, Between
  <2>2. Pop
    BY <2>1, ActOf DEF Between, Disabled, Decode
  <2>3. rx \in Seq(Byte) /\ down \in Seq(Byte) /\ rx # <<>>
    BY <2>2 DEF Board, Pop
  <2> QED
    BY <2>1, <2>3, HeadOn DEF Stream
<1>3. CASE Telling
  <2>1. PICK p, r : /\ p = Head(todo) /\ r = Stream
                    /\ \/ Said = <<>> /\ Gathering(p, r)
                       \/ Answering(p, r)
    BY <1>3 DEF Telling
  <2>2. CASE Said = <<>> /\ Gathering(p, r)
    BY <2>2 DEF Gathering
  <2>3. CASE Answering(p, r) /\ h.state # "MEM_RD_1"
    BY <2>3 DEF Answering
  <2>4. CASE Answering(p, r) /\ h.state = "MEM_RD_1"
    <3>1. PICK m \in 1 .. Number(p, 4) :
            h.execute_cnt = 2 * m \/ (h.execute_cnt = 2 * m - 1 /\ wr = <<>>)
      BY <2>4 DEF Answering
    <3>2. p \in Packets
      <4>1. todo \in Seq(Packets) /\ todo # <<>>
        BY <1>3 DEF Sending, Telling, Asked
      <4> QED
        BY <2>1, <4>1, HeadTailProperties
    <3>3. m \in Nat
      <4>1. Number(p, 4) \in Nat
        BY <2>4, <3>2, PacketFacts DEF Answering
      <4> QED
        BY <4>1
    <3>4. (2 * m) % 2 = 0
      BY <3>3
    <3> QED
      BY <2>4, <3>1, <3>4 DEF Paced
  <2> QED
    BY <2>1, <2>2, <2>3, <2>4
<1> QED
  BY <1>1, <1>2, <1>3 DEF Link, Silent, Coming

LEMMA RoomKept ==
  ASSUME Board, Sending, Room, Link, Acts, tx' = tx \o wr
  PROVE  Room'
<1>1. /\ rx' \in Seq(Byte) /\ Len(rx') <= Len(rx) /\ wr' \in Seq(Byte) /\ Len(wr') <= 1
  BY ClockTypes
<1>2. Len(rx) \in Nat /\ Len(rx') \in Nat /\ Len(tx) \in Nat /\ Len(wr) \in Nat /\ Len(wr') \in Nat
      /\ Cells \in Nat /\ Cells > 0 /\ Len(wr) <= 1
  BY <1>1, LenProperties, HciAssumption DEF Board
<1>3. Len(tx') = Len(tx) + Len(wr) /\ Len(tx') \in Nat
  BY <1>2, ConcatProperties DEF Board
<1>4. /\ wr = <<>> => Len(wr) = 0
      /\ wr # <<>> => Len(tx) < Cells
      /\ Len(rx) <= 1 /\ Len(tx) <= Cells
      /\ h.state = "ECHO_1" => Len(rx) + Len(tx) + Len(wr) <= 1
  BY EmptySeq DEF Room
<1>5. Len(rx') <= 1 /\ Len(tx') <= Cells
  BY <1>1, <1>2, <1>3, <1>4
<1>6. Said = <<>> => Len(tx) = 0 /\ Len(wr) = 0
  BY NoneSaid, EmptySeq
<1>7. Pop => Len(rx) = 1 /\ Len(rx') = 0
  <2>1. Pop => rx # <<>> /\ rx' = Tail(rx) /\ rx \in Seq(Byte)
    BY DEF Pop, Board
  <2>2. Pop => Len(rx') = Len(rx) - 1
    BY <2>1, HeadTailProperties
  <2> QED
    BY <1>2, <1>4, <2>2
<1>8. ASSUME wr' # <<>> PROVE Len(tx') < Cells
  <2>1. CASE h.state \notin {"ECHO_1", "MEM_RD_1"}
    <3>1. Said = <<>>
      BY <2>1, SaidNow
    <3> QED
      BY <1>2, <1>3, <1>6, <3>1
  <2>2. CASE h.state = "ECHO_1"
    <3>1. Pop
      BY <2>2, ActOf DEF Echo
    <3> QED
      BY <1>2, <1>3, <1>4, <1>7, <2>2, <3>1
  <2>3. CASE h.state = "MEM_RD_1"
    <3>1. Paced /\ ~TxFull
      BY <1>8, <2>3, ActOf DEF MemRead, Mute
    <3>2. Len(wr) = 0
      BY <1>4, <2>3, <3>1, SaidNow
    <3>3. Len(tx) # Cells
      BY <3>1 DEF TxFull
    <3> QED
      BY ONLY <1>2, <1>3, <1>4, <3>2, <3>3
  <2> QED
    BY <2>1, <2>2, <2>3
<1>9. ASSUME h'.state = "ECHO_1" PROVE Len(rx') + Len(tx') + Len(wr') <= 1
  <2>1. Gather \/ Echo
    <3>1. IsRegs(h) /\ Ended.state = "DECODE"
      BY EndedFacts DEF Board, IsRegs
    <3>2. h = [f \in Fields |-> h[f]]
      BY DEF Board
    <3>3. ~Disabled
      BY <1>9, <3>2 DEF Disabled, To, Fields
    <3>4. h.state = "DECODE" => ~Decode
      <4> SUFFICES ASSUME h.state = "DECODE", Decode PROVE FALSE
        OBVIOUS
      <4>1. h'.state = Stage(Data)
        BY <3>2 DEF Decode, Fields
      <4>2. Stage(Data) # "ECHO_1"
        BY DEF Stage
      <4> QED
        BY <1>9, <4>1, <4>2
    <3>5. \A g : IsRegs(g) => Counted(g).state \in {"DECODE", g.state}
      <4> SUFFICES ASSUME NEW g, IsRegs(g) PROVE Counted(g).state \in {"DECODE", g.state}
        OBVIOUS
      <4> DEFINE c == (g.execute_cnt + 2 * WordMod - 1) % (2 * WordMod)
      <4>1. Counted(g) = IF c = 0 THEN Ended ELSE [g EXCEPT !.execute_cnt = c]
        BY DEF Counted
      <4> HIDE DEF c
      <4>2. [g EXCEPT !.execute_cnt = c].state = g.state
        BY DEF IsRegs, Fields
      <4> QED
        BY <3>1, <4>1, <4>2
    <3>6. IsRegs(Further(h)) /\ Further(h).state = h.state
      <4> DEFINE a == (h.addr + 1) % WordMod
      <4>1. Further(h) = [h EXCEPT !.addr = a]
        BY DEF Further
      <4> HIDE DEF a
      <4> QED
        BY <3>2, <4>1 DEF IsRegs, Fields
    <3>7. ~RegRead /\ ~QueryErr
      BY <1>9, <3>1 DEF RegRead, QueryErr
    <3>8. ~RegWrite
      BY <1>9, <3>1, <3>2 DEF RegWrite, To, Fields
    <3>9. h.state = "MEM_WR_1" => ~MemWrite
      BY <1>9, <3>5, <3>6 DEF MemWrite
    <3>10. ~MemRead
      <4> SUFFICES ASSUME MemRead PROVE FALSE
        OBVIOUS
      <4>1. h.state = "MEM_RD_1"
        BY DEF MemRead
      <4>2. \/ h' = Counted(h)
            \/ h' = h
            \/ h' = Counted(Further(IF h.execute_cnt % 2 = 1 THEN h ELSE Counted(h)))
        BY DEF MemRead
      <4>3. ASSUME Paced PROVE h' # Counted(Further(IF h.execute_cnt % 2 = 1 THEN h ELSE Counted(h)))
        <5>1. (IF h.execute_cnt % 2 = 1 THEN h ELSE Counted(h)) = h
          BY <4>3 DEF Paced
        <5> QED
          BY <1>9, <3>5, <3>6, <4>1, <5>1
      <4>4. ~Paced => h' = Counted(h)
        BY DEF MemRead
      <4> QED
        BY <1>9, <3>1, <3>5, <4>1, <4>2, <4>3, <4>4
    <3>11. ~PpuDisable
      <4> SUFFICES ASSUME PpuDisable PROVE FALSE
        OBVIOUS
      <4> DEFINE k == h.decode_cnt
                 a == CASE k = 0 -> PpuCtrl [] k = 2 -> PpuMask [] k = 4 -> PpuMask + 1 [] OTHER -> 0
      <4>1. h.state = "PPU_DISABLE" /\ h' = IF k = 5 THEN Ended ELSE [h EXCEPT !.decode_cnt = k + 1, !.addr = a]
        BY DEF PpuDisable
      <4> HIDE DEF a
      <4> QED
        BY <1>9, <3>1, <3>2, <4>1 DEF Fields
    <3>12. ~CartSetCfg
      <4> SUFFICES ASSUME CartSetCfg PROVE FALSE
        OBVIOUS
      <4> DEFINE c == Append(Tail(h.cfg), Data)
      <4>1. \/ h' = [To("CART_1") EXCEPT !.execute_cnt = 4]
            \/ h.state = "CART_1" /\ h' = IF h.execute_cnt = 0 THEN [Ended EXCEPT !.cfg = c]
                                          ELSE [h EXCEPT !.cfg = c, !.execute_cnt = @ - 1]
        BY DEF CartSetCfg
      <4> HIDE DEF c
      <4>2. [Ended EXCEPT !.cfg = c].state = "DECODE"
        BY <3>1, EndedFacts
      <4>3. h.state = "CART_1" => h' # [h EXCEPT !.cfg = c, !.execute_cnt = @ - 1]
        BY <1>9, <3>2 DEF Fields
      <4>4. h' # [To("CART_1") EXCEPT !.execute_cnt = 4]
        BY <1>9, <3>2 DEF Fields, To
      <4> QED
        BY <1>9, <4>1, <4>2, <4>3, <4>4
    <3>13. MemWrite => h.state = "MEM_WR_1"
      BY DEF MemWrite
    <3>14. Decode => h.state = "DECODE"
      BY DEF Decode
    <3> QED
      BY <3>3, <3>4, <3>7, <3>8, <3>9, <3>10, <3>11, <3>12, <3>13, <3>14 DEF Acts
  <2>2. CASE Gather
    <3>1. Pop /\ wr' = <<>> /\ Said = <<>>
      BY <2>2, SaidNow DEF Gather, Mute
    <3> QED
      BY <1>2, <1>3, <1>6, <1>7, <3>1, EmptySeq
  <2>3. CASE Echo
    <3>1. Pop /\ h.state = "ECHO_1"
      BY <2>3 DEF Echo
    <3> QED
      BY <1>1, <1>2, <1>3, <1>4, <1>7, <3>1
  <2> QED
    BY <2>1, <2>2, <2>3
<1> QED
  BY <1>5, <1>8, <1>9 DEF Room

\* A clock keeps the two in step.
LEMMA ClockKeeps ==
  ASSUME Sending, Board, Room, Link, Clock, ~hidden, ~hidden', UNCHANGED <<todo, waiting, running>>
  PROVE  Board' /\ Room' /\ Link'
<1>1. \/ Works /\ Acts
      \/ ~Works /\ Mute /\ UNCHANGED <<h, rx, Stored>>
  BY DEF Clock, Acts
<1>2. Latch
  BY DEF Clock
<1>3. CASE ~Works /\ Mute /\ UNCHANGED <<h, rx, Stored>>
  <2>1. wr' \in Seq(Byte) /\ wr' = <<>>
    BY <1>3, SaysNone
  <2>2. tx' = tx \o wr /\ UNCHANGED <<down, up>> /\ Said' = Said \o wr' /\ tx' \in Seq(Byte)
    BY <1>2, <2>1, Latched
  <2>3. Said' = Said /\ Stream' = Stream
    <3>1. Said \in Seq(Byte)
      BY SaidFacts
    <3>2. Said \o <<>> = Said
      BY <3>1, JoinedNone
    <3> QED
      BY <1>3, <2>1, <2>2, <3>2 DEF Stream
  <2>4. Link'
    BY <1>3, <2>1, <2>3, SameWords
  <2>5. Board'
    <3>1. Len(wr') <= 1
      BY <1>3, SaysNone
    <3> QED
      BY <1>3, <2>1, <2>2, <3>1 DEF Board, Stored, Fields
  <2>6. Room'
    <3>1. Len(tx') = Len(tx) + Len(wr) /\ Len(tx) \in Nat /\ Len(wr) \in Nat /\ Len(wr) <= 1
          /\ Len(rx) \in Nat
      BY <2>2, ConcatProperties, LenProperties DEF Board
    <3>2. Len(rx') = Len(rx) /\ Len(wr') = 0 /\ h'.state = h.state
      BY <1>3, <2>1, EmptySeq
    <3>3. wr = <<>> => Len(wr) = 0
      BY EmptySeq
    <3>4. Len(tx') <= Cells
      BY <3>1, <3>3, HciAssumption DEF Room
    <3> QED
      BY <2>1, <3>1, <3>2, <3>4 DEF Room
  <2> QED
    BY <2>4, <2>5, <2>6
<1>4. CASE Works /\ Acts
  <2>1. /\ wr' \in Seq(Byte) /\ Len(wr') <= 1 /\ rx' \in Seq(Byte)
        /\ cpu_mem' \in [CpuSpace -> Byte] /\ ppu_mem' \in [PpuSpace -> Byte]
        /\ regs' \in [RegSels -> Byte]
    BY <1>4, ClockTypes
  <2>2. tx' = tx \o wr /\ UNCHANGED <<down, up>> /\ Said' = Said \o wr' /\ tx' \in Seq(Byte)
    BY <1>2, <2>1, Latched
  <2>3. Room'
    BY <1>4, <2>2, RoomKept
  <2>4. IsRegs(h') /\ Link'
    <3>1. PICK t \in Seq(Byte), d \in BOOLEAN :
            /\ Follow(t, d) /\ (h.state = "DISABLED" => d)
            /\ \/ \E r \in Seq(Byte) : Silent(r, t) \/ Coming(r, t)
               \/ t = <<>> /\ (Telling \/ Told)
      BY DEF Link
    <3>2. Asked => Head(todo) \in Packets
      <4>1. Asked => todo \in Seq(Packets) /\ todo # <<>>
        BY DEF Sending, Asked
      <4> QED
        BY <4>1, HeadTailProperties
    <3>3. rx \in Seq(Byte) /\ down \in Seq(Byte)
      BY DEF Board
    <3>4. Between => rx # <<>>
      <4>1. Between => Pop
        BY <1>4, ActOf DEF Between, Disabled, Decode
      <4> QED
        BY <4>1 DEF Pop
    <3>5. rx # <<>> => Stream # <<>>
      BY <3>3, HeadOn DEF Stream
    <3>6. CASE \E r \in Seq(Byte) : Silent(r, t)
      <4>1. PICK r \in Seq(Byte) : Silent(r, t)
        BY <3>6
      <4>2. ~Asked /\ Said = <<>> /\ Stream = r \o t /\ Busy(r)
        BY <4>1 DEF Silent
      <4>3. PICK q \in Seq(Byte) : q = <<>>
        BY EmptySeq
      <4>4. Stream = r \o (t \o q)
        BY <4>2, <4>3, JoinedNone
      <4>5. Between => t # <<>>
        <5>1. Between /\ t = <<>> => r = <<>>
          BY <4>2 DEF Busy, Between, Gathering, Doing
        <5>2. <<>> \o <<>> = <<>>
          BY EmptySeq, JoinedNone
        <5> QED
          BY <3>4, <3>5, <4>2, <5>1, <5>2
      <4> QED
        BY <1>4, <2>2, <3>1, <4>2, <4>3, <4>4, <4>5, BusyKeeps
    <3>7. CASE \E r \in Seq(Byte) : Coming(r, t)
      <4>1. PICK r \in Seq(Byte) : Coming(r, t)
        BY <3>7
      <4>2. /\ Asked /\ Said = <<>> /\ Stream = r \o (t \o Head(todo)) /\ Busy(r)
            /\ running => Head(todo) = QueryHltPacket
        BY <4>1 DEF Coming
      <4>3. PICK q \in Packets : q = Head(todo)
        BY <3>2, <4>2
      <4>4. q \in Seq(Byte)
        BY PacketFacts
      <4>5. CASE Between => t # <<>>
        <5>1. Stream = r \o (t \o q)
          BY <4>2, <4>3
        <5>2. Asked /\ q = Head(todo) /\ (running => Head(todo) = QueryHltPacket)
          BY <4>2, <4>3
        <5> QED
          BY <1>4, <2>2, <3>1, <4>2, <4>4, <4>5, <5>1, <5>2, BusyKeeps
      <4>6. CASE Between /\ t = <<>>
        <5>1. r = <<>>
          BY <4>2, <4>6 DEF Busy, Between, Gathering, Doing
        <5>2. Stream = q
          BY <4>2, <4>3, <4>4, <4>6, <5>1, JoinedNone
        <5>3. Follow(<<>>, d) /\ (running => q = QueryHltPacket)
          BY <3>1, <4>2, <4>3, <4>6
        <5> QED
          BY <1>4, <2>2, <3>1, <4>2, <4>3, <4>6, <5>2, <5>3, QuestionBegins
      <4> QED
        BY <4>5, <4>6
    <3>8. CASE t = <<>> /\ Telling
      <4>1. PICK p \in Packets : p = Head(todo)
        BY <3>2, <3>8 DEF Telling
      <4>2. IsRegs(h') /\ h'.state # "DISABLED" /\ (Telling' \/ Told')
        BY <1>4, <2>2, <3>8, <4>1, TellStep
      <4> QED
        BY <3>1, <3>8, <4>2, LinkTell
    <3>9. CASE Told
      BY <3>4, <3>5, <3>9 DEF Told, Between
    <3> QED
      BY <3>1, <3>6, <3>7, <3>8, <3>9
  <2>5. Board'
    BY <2>1, <2>2, <2>4 DEF Board, IsRegs
  <2> QED
    BY <2>3, <2>4, <2>5
<1> QED
  BY <1>1, <1>3, <1>4

LEMMA NesClockKeeps ==
  ASSUME SInv, NesClock
  PROVE  SInv'
<1>1. Clock /\ upset' = (IF hidden' THEN Worse ELSE upset) /\ UNCHANGED <<mode, todo, waiting, running>>
  BY DEF NesClock
<1>2. Sending'
  BY <1>1 DEF SInv, Sending, Worse
<1>3. ASSUME upset' = 0 PROVE ~hidden' /\ Board' /\ Room' /\ Link'
  <2>1. upset = 0 /\ ~hidden'
    BY <1>1, <1>3 DEF Worse
  <2>2. Sending /\ ~hidden /\ Board /\ Room /\ Link
    BY <2>1 DEF SInv
  <2> QED
    BY <1>1, <2>1, <2>2, ClockKeeps
<1> QED
  BY <1>2, <1>3 DEF SInv

-----------------------------------------------------------------------------
(* The line, and the processor of the NES. *)

\* At rest the decoder has taken all that came.
LEMMA RestEmpty ==
  ASSUME Board, Link, AtRest
  PROVE  rx = <<>> /\ wr = <<>>
<1>1. wr = <<>> /\ ~Works
  BY DEF AtRest
<1>2. rx \in Seq(Byte) /\ down \in Seq(Byte)
  BY DEF Board
<1>3. Stream = <<>> => rx = <<>>
  BY <1>2, HeadOn DEF Stream
<1>4. CASE h.state \notin {"MEM_RD_1", "QUERY_ERR", "REG_RD", "PPU_DISABLE", "CART_0"}
  BY <1>1, <1>4 DEF Works
<1>5. CASE h.state = "REG_RD" /\ Said = <<>>
  <2>1. Len(tx) = 0 /\ 0 # Cells
    BY <1>5, NoneSaid, EmptySeq, HciAssumption
  <2> QED
    BY <1>1, <1>5, <2>1 DEF Works, TxFull
<1>6. CASE h.state \in {"PPU_DISABLE", "CART_0"}
  BY <1>1, <1>6 DEF Works
<1>7. ASSUME NEW r, Busy(r) PROVE rx = <<>>
  <2>1. h.state \notin {"MEM_RD_1", "QUERY_ERR", "REG_RD"}
    BY <1>7 DEF Busy, Between, Gathering, Doing
  <2> QED
    BY <1>4, <1>6, <2>1
<1>8. CASE Telling
  <2>1. PICK p, r : /\ p = Head(todo) /\ r = Stream
                    /\ \/ Said = <<>> /\ Gathering(p, r)
                       \/ Answering(p, r)
    BY <1>8 DEF Telling
  <2>2. CASE Gathering(p, r)
    BY <1>4, <2>2 DEF Gathering
  <2>3. CASE Answering(p, r)
    <3>1. \/ h.state = "ECHO_1"
          \/ h.state = "MEM_RD_1" /\ r = <<>>
          \/ h.state = "REG_RD" /\ Said = <<>>
      BY <2>3 DEF Answering
    <3> QED
      BY <1>1, <1>3, <1>4, <1>5, <2>1, <3>1
  <2> QED
    BY <2>1, <2>2, <2>3
<1>9. CASE Told
  BY <1>1, <1>3, <1>9 DEF Told
<1> QED
  BY <1>1, <1>7, <1>8, <1>9 DEF Link, Silent, Coming

LEMMA TickKeeps ==
  ASSUME SInv, Tick, UNCHANGED host
  PROVE  SInv'
<1>1. UNCHANGED <<mode, todo, waiting, running, upset>>
  BY DEF host
<1>2. Sending'
  BY <1>1 DEF SInv, Sending
<1>3. ASSUME upset' = 0 PROVE ~hidden' /\ Board' /\ Room' /\ Link'
  <2>1. Sending /\ ~hidden /\ Board /\ Room /\ Link
    BY <1>1, <1>3 DEF SInv
  <2>2. AtRest /\ UNCHANGED <<h, wr, hidden, Stored>>
    BY DEF Tick
  <2>3. rx = <<>> /\ wr = <<>>
    BY <2>1, <2>2, RestEmpty
  <2>4. /\ up \in Seq(Byte) /\ tx \in Seq(Byte) /\ down \in Seq(Byte) /\ rx \in Seq(Byte)
        /\ Len(tx) \in Nat /\ Len(rx) = 0 /\ Len(wr) = 0 /\ Cells \in Nat /\ Cells > 0
    BY <2>1, <2>3, EmptySeq, LenProperties, HciAssumption DEF Board
  <2>5. /\ rx' \in Seq(Byte) /\ down' \in Seq(Byte) /\ Len(rx') <= 1 /\ Len(rx') \in Nat
        /\ Stream' = Stream
    <3>1. CASE down = <<>>
      <4>1. UNCHANGED <<down, rx>>
        BY <3>1 DEF Tick
      <4> QED
        BY <2>4, <4>1 DEF Stream
    <3>2. CASE down # <<>>
      <4>1. down' = Tail(down) /\ rx' = Append(rx, Head(down))
        BY <2>4, <3>2 DEF Tick
      <4>2. Head(down) \in Byte /\ Tail(down) \in Seq(Byte)
        BY <2>4, <3>2, HeadTailProperties
      <4>3. Append(rx, Head(down)) \o Tail(down) = rx \o down
        BY <2>4, <3>2, HeadMoves
      <4>4. Append(rx, Head(down)) \in Seq(Byte) /\ Len(Append(rx, Head(down))) = Len(rx) + 1
        BY <2>4, <4>2, AppendProperties
      <4> QED
        BY <2>4, <4>1, <4>2, <4>3, <4>4 DEF Stream
    <3> QED
      BY <3>1, <3>2
  <2>6. /\ up' \in Seq(Byte) /\ tx' \in Seq(Byte) /\ Len(tx') \in Nat
        /\ Said' = Said /\ (tx = <<>> => Len(tx') = 0) /\ (tx # <<>> => Len(tx') = Len(tx) - 1)
    <3>1. CASE tx = <<>>
      <4>1. UNCHANGED <<up, tx>>
        BY <3>1 DEF Tick
      <4> QED
        BY <2>2, <2>4, <3>1, <4>1, EmptySeq DEF Said
    <3>2. CASE tx # <<>>
      <4>1. up' = Append(up, Head(tx)) /\ tx' = Tail(tx)
        BY <2>1, <3>2 DEF Tick
      <4>2. Head(tx) \in Byte /\ Tail(tx) \in Seq(Byte) /\ Len(Tail(tx)) = Len(tx) - 1
            /\ Len(Tail(tx)) \in Nat
        BY <2>4, <3>2, HeadTailProperties, LenProperties
      <4>3. Append(up, Head(tx)) \o Tail(tx) = up \o tx
        BY <2>4, <3>2, HeadMoves
      <4>4. Append(up, Head(tx)) \in Seq(Byte)
        BY <2>4, <4>2, AppendProperties
      <4>5. tx \o wr = tx /\ Tail(tx) \o wr = Tail(tx)
        BY <2>3, <2>4, <4>2, JoinedNone
      <4> QED
        BY <2>2, <3>2, <4>1, <4>2, <4>3, <4>4, <4>5 DEF Said
    <3> QED
      BY <3>1, <3>2
  <2>7. Link'
    <3>1. wr' = <<>> /\ UNCHANGED <<h, Stored, todo, waiting, running>>
      BY <1>1, <2>2, <2>3
    <3> QED
      BY <2>1, <2>5, <2>6, <3>1, SameWords
  <2>8. Board'
    BY <2>1, <2>2, <2>5, <2>6 DEF Board, Stored, Fields
  <2>9. Room'
    <3>1. Len(tx) <= Cells /\ (h.state = "ECHO_1" => Len(rx) + Len(tx) + Len(wr) <= 1)
      BY <2>1 DEF Room
    <3>2. Len(tx') <= Cells
      BY <2>4, <2>6, <3>1
    <3>3. wr' = <<>> /\ Len(wr') = 0 /\ h'.state = h.state
      BY <2>2, <2>3, <2>4
    <3>4. h.state = "ECHO_1" => Len(tx') = 0
      BY <2>4, <2>6, <3>1
    <3> QED
      BY <2>5, <3>2, <3>3, <3>4 DEF Room
  <2> QED
    BY <2>1, <2>2, <2>7, <2>8, <2>9
<1> QED
  BY <1>2, <1>3 DEF SInv

\* The NES stops by itself, or changes what it holds, only while it runs.
LEMMA RunningLink ==
  ASSUME Link, h.state = "DISABLED", h'.state \in {"DISABLED", "DECODE"},
         UNCHANGED <<rx, tx, wr, up, down, todo, waiting, running>>
  PROVE  Link'
<1>1. PICK t \in Seq(Byte), d \in BOOLEAN :
        /\ Follow(t, d) /\ (h.state = "DISABLED" => d)
        /\ \/ \E r \in Seq(Byte) : Silent(r, t) \/ Coming(r, t)
           \/ t = <<>> /\ (Telling \/ Told)
  BY DEF Link
<1>2. Said' = Said /\ Stream' = Stream /\ (Asked' <=> Asked) /\ Between'
  BY DEF Said, Stream, Asked, Between
<1>3. Follow(t, d)' /\ (h'.state = "DISABLED" => d)
  BY <1>1, FollowKept
<1>4. \A r : Busy(r) => Busy(r)'
  BY <1>2 DEF Busy, Between, Gathering, Doing
<1>5. \A r : Silent(r, t) => Silent(r, t)'
  BY <1>2, <1>4 DEF Silent
<1>6. \A r : Coming(r, t) => Coming(r, t)'
  BY <1>2, <1>4 DEF Coming
<1>7. ~Telling
  BY DEF Telling, Gathering, Answering
<1>8. Told => Told'
  BY <1>2 DEF Told
<1> QED
  BY <1>1, <1>3, <1>5, <1>6, <1>7, <1>8 DEF Link

LEMMA BreakKeeps ==
  ASSUME SInv, Break \/ CpuRuns, UNCHANGED host
  PROVE  SInv'
<1>1. UNCHANGED <<mode, todo, waiting, running, upset>>
  BY DEF host
<1>2. Sending'
  BY <1>1 DEF SInv, Sending
<1>3. ASSUME upset' = 0 PROVE ~hidden' /\ Board' /\ Room' /\ Link'
  <2>1. ~hidden /\ Board /\ Room /\ Link
    BY <1>1, <1>3 DEF SInv
  <2>2. h.state = "DISABLED" /\ UNCHANGED <<rx, tx, wr, up, down, hidden, ppu_mem>>
    BY DEF Break, CpuRuns, Stored, line
  <2>3. h' = h \/ h' = Ended
    BY DEF Break, CpuRuns
  <2>4. IsRegs(h') /\ h'.state \in {"DISABLED", "DECODE"}
    <3>1. IsRegs(h)
      BY <2>1 DEF Board, IsRegs
    <3> QED
      BY <2>2, <2>3, <3>1, EndedFacts
  <2>5. Link'
    BY <1>1, <2>1, <2>2, <2>4, RunningLink
  <2>6. cpu_mem' \in [CpuSpace -> Byte] /\ regs' \in [RegSels -> Byte]
    <3>1. 0 \in Byte /\ 1 \in Byte
      BY HciAssumption DEF Byte
    <3>2. cpu_mem \in [CpuSpace -> Byte] /\ regs \in [RegSels -> Byte]
      BY <2>1 DEF Board
    <3>3. \/ UNCHANGED <<cpu_mem, regs>>
          \/ cpu_mem' = [cpu_mem EXCEPT ![PpuMask] = 1] /\ regs' = [regs EXCEPT ![0] = 0]
      BY DEF Break, CpuRuns, Stored
    <3> QED
      BY <3>1, <3>2, <3>3
  <2>7. Board'
    BY <2>1, <2>2, <2>4, <2>6 DEF Board, IsRegs
  <2>8. Room'
    BY <2>1, <2>2, <2>4 DEF Room
  <2> QED
    BY <2>1, <2>2, <2>5, <2>7, <2>8
<1> QED
  BY <1>2, <1>3 DEF SInv

\* A NES that has been reset waits for the first packet.
LEMMA ResetIs ==
  /\ IsRegs(HciReset) /\ HciReset.state = "DECODE"
  /\ [a \in CpuSpace |-> 0] \in [CpuSpace -> Byte] /\ [a \in PpuSpace |-> 0] \in [PpuSpace -> Byte]
  /\ [r \in RegSels |-> 0] \in [RegSels -> Byte]
  /\ <<>> \o <<>> = <<>> /\ <<>> \in Seq(Byte) /\ Len(<<>>) = 0 /\ Cells \in Nat
<1>1. 0 \in Byte
  BY HciAssumption DEF Byte
<1>2. <<>> \o <<>> = <<>> /\ <<>> \in Seq(Byte) /\ Len(<<>>) = 0
  BY EmptySeq, JoinedNone
<1> QED
  BY <1>1, <1>2, HciAssumption DEF IsRegs, HciReset, Fields

LEMMA PowerKeeps ==
  ASSUME SInv, PowerCycle
  PROVE  SInv'
<1>1. /\ mode = "off" /\ h' = HciReset /\ wr' = <<>> /\ rx' = <<>> /\ tx' = <<>>
      /\ hidden' = FALSE /\ down' = <<>> /\ up' = <<>> /\ upset' = 0 /\ running' = FALSE
      /\ cpu_mem' = [a \in CpuSpace |-> 0] /\ ppu_mem' = [a \in PpuSpace |-> 0]
      /\ regs' = [r \in RegSels |-> 0] /\ UNCHANGED <<mode, todo, waiting>>
  BY DEF PowerCycle
<1>2. Sending' /\ waiting' = FALSE
  BY <1>1 DEF SInv, Sending
<1>3. Board'
  BY <1>1, ResetIs DEF Board, IsRegs
<1>4. Room'
  BY <1>1, ResetIs DEF Room
<1>5. Follow(<<>>, FALSE)'
  <2> DEFINE x == [bytes |-> <<>>, off |-> FALSE]
  <2>1. x.bytes \in Seq(Byte) /\ x.bytes = <<>> /\ x.off = FALSE
    BY ResetIs
  <2> HIDE DEF x
  <2>2. PICK y : y = x
    OBVIOUS
  <2>3. Way({y})'
    BY <2>1, <2>2 DEF Way
  <2> QED
    BY <2>1, <2>2, <2>3 DEF Follow
<1>6. Silent(<<>>, <<>>)'
  BY <1>1, <1>2, ResetIs DEF Silent, Asked, Said, Stream, Busy, Between
<1>7. Link'
  <2>1. (h.state = "DISABLED" => FALSE)'
    BY <1>1, ResetIs
  <2> QED
    BY <1>5, <1>6, <2>1, ResetIs DEF Link
<1> QED
  BY <1>1, <1>2, <1>3, <1>4, <1>7 DEF SInv

LEMMA InitHolds ==
  ASSUME Init
  PROVE  SInv
<1>1. /\ h = HciReset /\ wr = <<>> /\ rx = <<>> /\ tx = <<>> /\ hidden = FALSE
      /\ down = <<>> /\ up = <<>> /\ upset = 0 /\ running = FALSE /\ mode = "off" /\ todo = <<>>
      /\ cpu_mem = [a \in CpuSpace |-> 0] /\ ppu_mem = [a \in PpuSpace |-> 0]
      /\ regs = [r \in RegSels |-> 0] /\ waiting = FALSE
  BY DEF Init, HciInit
<1>2. Sending
  BY <1>1, EmptySeq DEF Sending
<1>3. Board /\ Room
  BY <1>1, ResetIs DEF Board, Room, IsRegs
<1>4. Follow(<<>>, FALSE)
  BY FollowNone
<1>5. Silent(<<>>, <<>>)
  BY <1>1, ResetIs DEF Silent, Asked, Said, Stream, Busy, Between
<1>6. Link
  BY <1>1, <1>4, <1>5, ResetIs DEF Link
<1> QED
  BY <1>1, <1>2, <1>3, <1>6 DEF SInv

-----------------------------------------------------------------------------
(* Every step keeps the invariant, and what follows from it. *)

LEMMA StillKeeps ==
  ASSUME SInv, UNCHANGED vars
  PROVE  SInv'
<1>1. UNCHANGED <<h, wr, rx, tx, hidden, Stored, down, up, mode, todo, waiting, running, upset>>
      /\ UNCHANGED <<cpu_mem, ppu_mem, regs>>
  BY DEF vars, nes, line, host, Stored
<1>2. Sending'
  BY <1>1 DEF SInv, Sending
<1>3. ASSUME upset' = 0 PROVE ~hidden' /\ Board' /\ Room' /\ Link'
  <2>1. ~hidden /\ Board /\ Room /\ Link
    BY <1>1, <1>3 DEF SInv
  <2>2. Said' = Said /\ Stream' = Stream /\ wr' \in {<<>>, wr}
    BY <1>1 DEF Said, Stream
  <2>3. UNCHANGED <<h, Stored, todo, waiting, running>>
    BY <1>1
  <2>4. Link'
    BY <2>1, <2>2, <2>3, SameWords
  <2>5. Board' /\ Room'
    <3>1. UNCHANGED <<nes, down>> /\ up' \in Seq(Byte)
      BY <1>1, <2>1 DEF nes, Board
    <3> QED
      BY <2>1, <3>1, SameBoard
  <2> QED
    BY <1>1, <2>1, <2>4, <2>5
<1> QED
  BY <1>2, <1>3 DEF SInv

LEMMA NextKeeps ==
  ASSUME SInv, [Next]_vars
  PROVE  SInv'
<1>1. CASE Start
  BY <1>1, StartKeeps
<1>2. CASE \/ Exit
           \/ Dialogs
           \/ TestScriptDlgRun
           \/ ScriptEnds
  BY <1>2, DialogsKeep
<1>3. CASE LoadRom
  BY <1>3, LoadRomKeeps
<1>4. CASE RawDbgSend
  BY <1>4, RawKeeps
<1>5. CASE \/ LuaEcho \/ LuaCpuMemRd \/ LuaCpuMemWr \/ LuaPpuMemRd \/ LuaPpuMemWr \/ LuaCpuRegRd
           \/ LuaCpuRegWr \/ LuaDbgHlt \/ LuaDbgRun \/ LuaWaitForHlt \/ LuaLoadAsm
  BY <1>5, ScriptKeeps
<1>6. CASE SendData
  BY <1>6, SendKeeps
<1>7. CASE ReceiveData
  BY <1>7, ReceiveKeeps
<1>8. CASE NesClock
  BY <1>8, NesClockKeeps
<1>9. CASE NesElse
  BY <1>9, TickKeeps, BreakKeeps DEF NesElse
<1>10. CASE PowerCycle
  BY <1>10, PowerKeeps
<1>11. CASE UNCHANGED vars
  BY <1>11, StillKeeps
<1> QED
  BY <1>1, <1>2, <1>3, <1>4, <1>5, <1>6, <1>7, <1>8, <1>9, <1>10, <1>11 DEF Next, Program

\* The beginning of a beginning.
LEMMA PartOf ==
  ASSUME NEW a \in Seq(Byte), NEW k \in 0 .. Len(a), NEW j \in 0 .. k
  PROVE  SubSeq(SubSeq(a, 1, k), 1, j) = SubSeq(a, 1, j)
<1> DEFINE s == SubSeq(a, 1, k)
<1>1. Len(a) \in Nat /\ k \in Int /\ j \in Int /\ j \in 0 .. Len(a) /\ k - 1 + 1 = k /\ j - 1 + 1 = j
  BY LenProperties
<1>2. \A i \in 1 .. Len(a) : a[i] \in Byte
  BY ElementOfSeq
<1>3. s \in Seq(Byte) /\ Len(s) = k
  BY SomeOf
<1>4. \A i \in 1 .. k : s[i] = a[i]
  <2>1. \A i \in 1 .. k : a[i] \in Byte
    BY <1>1, <1>2
  <2>2. \A i \in 1 .. k - 1 + 1 : s[i] = a[1 + i - 1]
    BY <1>1, <2>1, SubSeqProperties
  <2>3. \A i \in 1 .. k : 1 + i - 1 = i
    BY <1>1
  <2> QED
    BY <1>1, <2>2, <2>3
<1> HIDE DEF s
<1>5. /\ SubSeq(s, 1, j) \in Seq(Byte) /\ Len(SubSeq(s, 1, j)) = j
      /\ SubSeq(a, 1, j) \in Seq(Byte) /\ Len(SubSeq(a, 1, j)) = j
  BY <1>1, <1>3, SomeOf
<1>6. \A i \in 1 .. j : SubSeq(a, 1, j)[i] = a[i]
  <2>1. \A i \in 1 .. j : a[i] \in Byte
    BY <1>1, <1>2
  <2>2. \A i \in 1 .. j - 1 + 1 : SubSeq(a, 1, j)[i] = a[1 + i - 1]
    BY <1>1, <2>1, SubSeqProperties
  <2>3. \A i \in 1 .. j : 1 + i - 1 = i
    BY <1>1
  <2> QED
    BY <1>1, <2>2, <2>3
<1>7. \A i \in 1 .. j : SubSeq(s, 1, j)[i] = s[i]
  <2>1. \A i \in 1 .. j : s[i] \in Byte
    BY <1>1, <1>2, <1>4
  <2>2. \A i \in 1 .. j - 1 + 1 : SubSeq(s, 1, j)[i] = s[1 + i - 1]
    BY <1>1, <2>1, SubSeqProperties
  <2>3. \A i \in 1 .. j : 1 + i - 1 = i
    BY <1>1
  <2> QED
    BY <1>1, <2>2, <2>3
<1>8. \A i \in 1 .. j : SubSeq(s, 1, j)[i] = SubSeq(a, 1, j)[i]
  BY <1>1, <1>4, <1>6, <1>7
<1>9. SubSeq(s, 1, j) = SubSeq(a, 1, j)
  BY <1>5, <1>8, SeqEqual
<1> QED
  BY <1>9 DEF s

\* What has arrived is the beginning of the answer that is waited for.
LEMMA ArrivedIs ==
  ASSUME SInv, upset = 0, up # <<>>
  PROVE  waiting /\ Len(up) <= ReturnBytesExpected(Head(todo)) /\ Arrived(Head(todo))
<1>1. Sending /\ Board /\ Link
  BY DEF SInv
<1>2. Said # <<>> /\ Said \in Seq(Byte) /\ Len(up) \in Nat /\ Len(up) <= Len(Said)
      /\ SubSeq(Said, 1, Len(up)) = up
  BY <1>1, NoneSaid, SaidFacts
<1>3. Telling \/ Told
  BY <1>1, <1>2 DEF Link, Silent, Coming
<1>4. waiting /\ Head(todo) \in Packets /\ Asks(Head(todo))
  <2>1. Asked /\ todo \in Seq(Packets) /\ todo # <<>>
    BY <1>1, <1>3 DEF Telling, Told, Asked, Sending
  <2> QED
    BY <2>1, HeadTailProperties DEF Asked
<1>5. PICK p \in Packets : p = Head(todo)
  BY <1>4
<1> DEFINE a == Answer(p)
           n == ReturnBytesExpected(p)
<1>6. a \in Seq(Byte) /\ Len(a) = n /\ n \in Nat /\ n > 0
  BY <1>1, <1>4, <1>5, AnswerFacts, AsksFacts DEF Board, Stores, Asks
<1> HIDE DEF a, n
<1>7. ASSUME NEW k \in 0 .. Len(a), Said = SubSeq(a, 1, k), p = QueryHltPacket => Active
      PROVE  Len(up) <= n /\ Arrived(p)
  <2>1. Len(Said) = k
    BY <1>6, <1>7, SomeOf
  <2>2. Len(up) \in 0 .. k
    BY <1>2, <2>1
  <2>3. SubSeq(SubSeq(a, 1, k), 1, Len(up)) = SubSeq(a, 1, Len(up))
    BY <1>6, <2>2, PartOf
  <2>4. up = SubSeq(a, 1, Len(up))
    BY <1>2, <1>7, <2>3
  <2>5. Len(up) <= n
    BY <1>6, <2>2
  <2> QED
    BY <1>7, <2>4, <2>5 DEF Arrived, a
<1>8. CASE Telling
  <2>1. \/ Said = <<>> /\ Gathering(p, Stream)
        \/ Answering(p, Stream)
    BY <1>5, <1>8 DEF Telling
  <2>2. Len(Said) < n /\ Said = SubSeq(a, 1, Len(Said)) /\ p # QueryHltPacket
    BY <1>1, <1>4, <1>5, <2>1, TellingFacts DEF a, n
  <2>3. Len(Said) \in 0 .. Len(a)
    BY <1>2, <1>6, <2>2, LenProperties
  <2> QED
    BY <1>4, <1>5, <1>7, <2>2, <2>3 DEF n
<1>9. CASE h.state = "DECODE" /\ Said = a
  <2>1. SubSeq(a, 1, Len(a)) = a /\ Len(a) \in 0 .. Len(a)
    BY <1>6, SubSeqFull
  <2> QED
    BY <1>4, <1>5, <1>7, <1>9, <2>1 DEF n, Active
<1>10. CASE p = QueryHltPacket /\ Said = <<0>>
  <2>1. n = 1
    BY <1>10, Singles, AsksFacts DEF n
  <2>2. Len(<<0>>) = 1
    OBVIOUS
  <2>3. up \in Seq(Byte) /\ Len(up) # 0
    BY <1>1, EmptySeq DEF Board
  <2>4. Len(up) = 1
    BY <1>2, <1>10, <2>2, <2>3
  <2>5. up = <<0>>
    <3>1. SubSeq(Said, 1, Len(Said)) = Said
      BY <1>2, SubSeqFull
    <3> QED
      BY <1>2, <1>10, <2>2, <2>4, <3>1
  <2> QED
    BY <1>4, <1>5, <1>10, <2>1, <2>4, <2>5 DEF Arrived, n
<1> QED
  BY <1>3, <1>5, <1>8, <1>9, <1>10 DEF Told, a

\* When nothing more comes, the answer is there.
LEMMA AllArrived ==
  ASSUME SInv, upset = 0, waiting, Quiet
  PROVE  Len(up) = ReturnBytesExpected(Head(todo))
<1>1. Sending /\ ~hidden /\ Board /\ Link
  BY DEF SInv
<1>2. AtRest /\ down = <<>> /\ tx = <<>> /\ rx = <<>> /\ wr = <<>>
  BY <1>1, RestEmpty DEF Quiet
<1>3. Stream = <<>> /\ Said = up
  <2>1. <<>> \o <<>> = <<>> /\ up \o <<>> = up
    BY <1>1, EmptySeq, JoinedNone DEF Board
  <2> QED
    BY <1>2, <2>1 DEF Stream, Said
<1>4. Head(todo) \in Packets
  BY <1>1, HeadTailProperties DEF Sending
<1>5. PICK p \in Packets : p = Head(todo)
  BY <1>4
<1>6. p \in Seq(Byte) /\ p # <<>> /\ Len(p) \in Nat /\ ReturnBytesExpected(p) \in Nat
  BY PacketFacts, AsksFacts
<1>7. CASE ~Asked
  <2>1. Said = <<>> /\ ReturnBytesExpected(p) = 0
    BY <1>1, <1>5, <1>6, <1>7 DEF Link, Silent, Coming, Telling, Told, Asked, Asks
  <2> QED
    BY <1>3, <1>5, <2>1, EmptySeq
<1>8. CASE Asked
  <2>1. ASSUME NEW r \in Seq(Byte), NEW t \in Seq(Byte), Coming(r, t) PROVE FALSE
    <3>1. r \o (t \o p) = <<>>
      BY <1>3, <1>5, <2>1 DEF Coming
    <3>2. t \o p \in Seq(Byte) /\ (t \o p = <<>> => p = <<>>)
      BY <1>6, ConcatProperties
    <3>3. r \o (t \o p) = <<>> => t \o p = <<>>
      BY <3>2, ConcatProperties
    <3> QED
      BY <1>6, <3>1, <3>2, <3>3
  <2>2. ASSUME NEW i \in Nat, i >= 1, i <= Len(p) PROVE From(p, i) # <<>>
    <3>1. i <= Len(p) + 1
      BY <1>6, <2>2
    <3> QED
      BY <1>6, <2>2, <3>1, FromFacts
  <2>3. ~Answering(p, <<>>)
    <3> SUFFICES ASSUME Answering(p, <<>>) PROVE FALSE
      OBVIOUS
    <3>1. CASE h.state = "ECHO_1"
      <4>1. PICK k \in 1 .. Len(p) - 3 : <<>> = From(p, Len(p) - k + 1)
        BY <3>1 DEF Answering
      <4>2. Len(p) - k + 1 \in Nat /\ Len(p) - k + 1 >= 1 /\ Len(p) - k + 1 <= Len(p)
        BY <1>6
      <4> QED
        BY <2>2, <4>1, <4>2
    <3>2. CASE h.state = "MEM_RD_1"
      <4>1. Len(tx) = 0 /\ 0 # Cells
        BY <1>2, EmptySeq, HciAssumption
      <4> QED
        BY <1>2, <3>2, <4>1 DEF AtRest, Works, TxFull
    <3>3. CASE h.state = "REG_RD"
      <4>1. <<>> = From(p, 2) /\ Len(p) = 2
        BY <3>3, PacketFacts DEF Answering
      <4>2. 2 \in Nat /\ 2 >= 1 /\ 2 <= Len(p)
        BY <4>1
      <4> QED
        BY <2>2, <4>1, <4>2
    <3> QED
      BY <3>1, <3>2, <3>3 DEF Answering
  <2>4. ~Telling
    BY <1>3, <1>5, <2>3, GatherSome DEF Telling
  <2>5. Told
    BY <1>1, <1>8, <2>1, <2>4 DEF Link, Silent
  <2>6. CASE Said = Answer(p)
    <3>1. Len(Answer(p)) = ReturnBytesExpected(p)
      BY <1>1, <1>5, <1>8, AnswerFacts DEF Board, Stores, Asked
    <3> QED
      BY <1>3, <1>5, <2>6, <3>1
  <2>7. CASE p = QueryHltPacket /\ Said = <<0>>
    <3>1. ReturnBytesExpected(p) = 1
      BY <2>7, Singles, AsksFacts
    <3>2. Len(<<0>>) = 1
      OBVIOUS
    <3> QED
      BY <1>3, <1>5, <2>7, <3>1, <3>2
  <2> QED
    BY <1>5, <2>5, <2>6, <2>7 DEF Told
<1> QED
  BY <1>7, <1>8

\* A query that is done with was answered by a NES that is halted.
LEMMA SeenIs ==
  ASSUME SInv, Next, upset' = 0, Head(todo \o <<<<>>>>) = QueryHltPacket, todo' = <<>>
  PROVE  Active
<1>1. Sending
  BY DEF SInv
<1>2. todo # <<>> /\ Head(todo) = QueryHltPacket
  <2>1. <<>> \o <<<<>>>> = <<<<>>>> /\ Head(<<<<>>>>) = <<>> /\ <<>> # QueryHltPacket
    BY DEF QueryHltPacket
  <2>2. todo # <<>>
    BY <2>1
  <2>3. todo \in Seq(Packets) /\ <<<<>>>> \in Seq(Packets \union {<<>>})
    BY <1>1 DEF Sending
  <2>4. todo \in Seq(Packets \union {<<>>})
    BY <2>3
  <2>5. Head(todo \o <<<<>>>>) = Head(todo)
    BY <2>2, <2>3, <2>4, HeadOn
  <2> QED
    BY <2>2, <2>5
<1>3. Head(todo) \in Packets
  BY <1>1, <1>2, HeadTailProperties DEF Sending
<1>4. PICK p \in Packets : p = Head(todo) /\ p = QueryHltPacket
  BY <1>2, <1>3
<1>5. p[1] = OpQueryHlt /\ p[1] \in Reads /\ ReturnBytesExpected(p) = 1 /\ Asks(p)
  <2>1. p[1] = OpQueryHlt
    BY <1>4, Singles
  <2>2. p[1] \in {OpCpuRegRd, OpQueryHlt}
    BY <2>1
  <2> QED
    BY <2>1, <2>2, AsksFacts DEF Reads
<1>6. upset \in Nat /\ Worse # 0
  BY <1>1 DEF Sending, Worse
<1>7. SendData \/ ReceiveData
  <2>1. todo' # todo /\ ~Idle
    BY <1>2 DEF Idle
  <2>2. ~\E ps : Issue(ps)
    BY <2>1 DEF Issue
  <2>3. ~(NesClock \/ NesElse \/ PowerCycle)
    BY <2>1 DEF NesClock, NesElse, PowerCycle, host
  <2>4. ~(Start \/ LoadRom \/ RawDbgSend)
    BY <2>2 DEF Start, LoadRom, RawDbgSend
  <2>5. ~(Exit \/ Dialogs \/ TestScriptDlgRun \/ ScriptEnds)
    BY <2>1 DEF Exit, Dialogs, Open, TestScriptDlgRun, ScriptEnds
  <2>6. \A q : ~Call(q)
    BY <2>2 DEF Call
  <2>7. ~(\/ LuaEcho \/ LuaCpuMemRd \/ LuaCpuMemWr \/ LuaPpuMemRd \/ LuaPpuMemWr \/ LuaCpuRegRd
          \/ LuaCpuRegWr \/ LuaDbgHlt \/ LuaDbgRun \/ LuaWaitForHlt \/ LuaLoadAsm)
    BY <2>6 DEF LuaEcho, LuaCpuMemRd, LuaCpuMemWr, LuaPpuMemRd, LuaPpuMemWr, LuaCpuRegRd,
                LuaCpuRegWr, LuaDbgHlt, LuaDbgRun, LuaWaitForHlt, LuaLoadAsm
  <2> QED
    BY <2>3, <2>4, <2>5, <2>7 DEF Next, Program
<1>8. ~SendData
  <2> SUFFICES ASSUME SendData PROVE FALSE
    OBVIOUS
  <2>1. PICK n \in Taken(p) :
          /\ upset' = IF n < Len(p) \/ Strays(p) THEN Worse ELSE upset
          /\ \E build \in Builds :
               IF build = "debug" /\ n < Len(p) THEN Crash
               ELSE IF p[1] \in Reads \/ mode = "raw"
                    THEN waiting' = TRUE /\ UNCHANGED <<todo, polled>> ELSE Done
    BY <1>4 DEF SendData
  <2>2. ~(n < Len(p))
    BY <1>6, <2>1
  <2>3. UNCHANGED todo
    BY <1>5, <2>1, <2>2
  <2> QED
    BY <1>2, <2>3
<1>9. ReceiveData
  BY <1>7, <1>8
<1> DEFINE got  == IF Len(up) < 1 THEN Len(up) ELSE 1
           full == got = 1
<1>10. /\ waiting /\ upset' = IF full THEN upset ELSE Worse
       /\ \/ ~full
          \/ Handle(SubSeq(up, 1, got), full)
  BY <1>4, <1>5, <1>9 DEF ReceiveData
<1>11. full /\ upset = 0
  BY <1>6, <1>10
<1>12. Handle(SubSeq(up, 1, 1), TRUE)
  <2>1. got = 1 /\ full = TRUE
    BY <1>11
  <2> QED
    BY <1>10, <2>1
<1>13. Board /\ Link /\ Asked
  BY <1>4, <1>5, <1>10, <1>11 DEF SInv, Asked
<1>14. Len(up) >= 1 /\ up \in Seq(Byte)
  <2>1. up \in Seq(Byte) /\ Len(up) \in Nat
    BY <1>13, LenProperties DEF Board
  <2> QED
    BY <1>11, <2>1
<1>15. /\ Len(up) = 1
       /\ \/ h.state = "DECODE"
          \/ up = <<0>>
  BY <1>4, <1>5, <1>13, <1>14, Heard
<1>16. up # <<0>>
  <2>1. SubSeq(up, 1, 1) = up
    BY <1>14, <1>15, SubSeqFull
  <2>2. mode # "init"
    <3>1. mode = "init" => p[1] = OpEcho
      BY <1>1, <1>4, EchoFirst DEF Sending
    <3> QED
      BY <1>5, <3>1, OpsAre
  <2>3. \E byte \in {up[1]} :
          IF Again(byte) THEN waiting' = FALSE /\ polled' = TRUE /\ UNCHANGED <<todo, running>>
          ELSE Done /\ running' = FALSE
    BY <1>2, <1>12, <2>1, <2>2 DEF Handle
  <2>4. ~Again(up[1])
    BY <1>2, <2>3
  <2> QED
    BY <2>4 DEF Again
<1> QED
  BY <1>15, <1>16 DEF Active

\* Whatever is sent, whatever the NES holds, and however long the queues are, the
\* debugger and hci.v stay in step until something goes wrong.
THEOREM LinkCorrect == Spec => []SInv
<1>1. Init => SInv
  BY InitHolds
<1>2. SInv /\ [Next]_vars => SInv'
  BY NextKeeps
<1> QED
  BY <1>1, <1>2, PTL DEF Spec

\* ReceiveData gets the answer to the packet that was sent, nothing before, and all
\* of it when the line is quiet: hci.v overruns no queue of uart.v.
THEOREM InStepCorrect == Spec => []InStep
<1>1. SInv => InStep
  <2> SUFFICES ASSUME SInv, upset = 0
               PROVE  /\ up # <<>> => waiting /\ Len(up) <= ReturnBytesExpected(Head(todo)) /\ Arrived(Head(todo))
                      /\ waiting /\ Quiet => Len(up) = ReturnBytesExpected(Head(todo))
    BY DEF InStep
  <2>1. up # <<>> => waiting /\ Len(up) <= ReturnBytesExpected(Head(todo)) /\ Arrived(Head(todo))
    BY ArrivedIs
  <2>2. waiting /\ Quiet => Len(up) = ReturnBytesExpected(Head(todo))
    BY AllArrived
  <2> QED
    BY <2>1, <2>2
<1> QED
  BY <1>1, LinkCorrect, PTL

\* WaitForHlt returns to a script only when the NES is halted.
THEOREM HaltSeenCorrect == Spec => HaltSeen
<1>1. SInv /\ [Next]_vars =>
        [upset' = 0 /\ Head(todo \o <<<<>>>>) = QueryHltPacket /\ todo' = <<>> => Active]_vars
  BY SeenIs
<1> QED
  BY <1>1, LinkCorrect, PTL DEF Spec, HaltSeen
=============================================================================
