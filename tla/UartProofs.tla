----------------------------- MODULE UartProofs -----------------------------
(***************************************************************************)
(* Every byte the transmit queue takes is sent once and in its place, for  *)
(* a queue of any size of at least 3 and whatever the client does.         *)
(***************************************************************************)
EXTENDS Uart, FifoLemmas, SequenceTheorems

Any == Data \union {Unknown}

\* While it is being sent, and in the done tick after that, a byte keeps its
\* place at the front of the queue.
Held ==
  /\ shifter.state = "Sending" => ~shifter.done
  /\ shifter.state = "Sending" \/ shifter.done =>
       ~txFifo.empty /\ shifter.data = Front(txFifo)

Inv == TypeOK /\ Cautious(txFifo) /\ Held /\ SentOnce

\* The head of a sequence moves to the end of the one before it.
LEMMA MoveHead ==
  ASSUME NEW S, NEW s \in Seq(S), NEW t \in Seq(S), t # <<>>
  PROVE  Append(s, Head(t)) \o Tail(t) = s \o t
<1>1. Head(t) \in S /\ Tail(t) \in Seq(S)
  BY HeadTailProperties
<1>2. Append(s, Head(t)) = s \o <<Head(t)>>
  BY <1>1, AppendIsConcat
<1>3. <<Head(t)>> \in Seq(S)
  BY <1>1
<1>4. (s \o <<Head(t)>>) \o Tail(t) = s \o (<<Head(t)>> \o Tail(t))
  BY <1>1, <1>3, ConcatAssociative
<1>5. <<Head(t)>> \o Tail(t) = t
  BY <1>1
<1> QED
  BY <1>2, <1>4, <1>5

\* A byte at the end of the second sequence is at the end of both.
LEMMA AppendLast ==
  ASSUME NEW s \in Seq(Any), NEW t \in Seq(Any), NEW e \in Any
  PROVE  Append(s \o t, e) = s \o Append(t, e)
<1>1. <<e>> \in Seq(Any) /\ s \o t \in Seq(Any)
  BY ConcatProperties
<1>2. Append(s \o t, e) = (s \o t) \o <<e>> /\ Append(t, e) = t \o <<e>>
  BY <1>1, AppendIsConcat
<1> QED
  BY <1>1, <1>2, ConcatAssociative

\* The transmitter starts with nothing written and nothing sent.
LEMMA InitInv == Init => Inv
<1> SUFFICES ASSUME Init PROVE Inv
  OBVIOUS
<1>1. txFifo \in FifoType /\ Cautious(txFifo) /\ Contents(txFifo) = <<>>
  BY ResetFacts DEF Init
<1>2. /\ TypeOK
  BY <1>1, MaxBytesAssumption DEF Init, TypeOK, ShifterType
<1>3. Held
  BY DEF Init, Held
<1>4. SentOnce
  BY <1>1 DEF Init, SentOnce, Pending
<1> QED
  BY <1>1, <1>2, <1>3, <1>4 DEF Inv

\* In the done tick what is pending is the tail of the queue.
LEMMA PendingIsTail ==
  ASSUME shifter.done, NEW c \in Seq(Any), c = Contents(txFifo), c # <<>>
  PROVE  Pending = Tail(c)
  BY TailIsSubSeq DEF Pending

\* The queue after a clock: the byte written is at its end, and the front is
\* gone if the shifter was done with it.
LEMMA ClockContents ==
  ASSUME Inv, NEW stops \in BOOLEAN, NEW wr_en \in BOOLEAN, NEW d \in Data,
         Clock(stops, wr_en, d)
  PROVE  /\ txFifo' \in FifoType /\ Cautious(txFifo')
         /\ Pending \in Seq(Any)
         /\ Contents(txFifo') = IF WrProt(txFifo, wr_en) THEN Append(Pending, d) ELSE Pending
<1>1. txFifo \in FifoType /\ Cautious(txFifo) /\ shifter.done \in BOOLEAN
  BY DEF Inv, TypeOK, ShifterType
<1>2. txFifo' = FifoStep(txFifo, shifter.done, wr_en, d)
  BY DEF Clock, Enqueue, Pops
<1>3. Contents(txFifo) \in Seq(Any)
  BY <1>1, ContentsType DEF Any
<1>4. shifter.done => ~txFifo.empty /\ Contents(txFifo) # <<>>
  BY <1>1, FrontIsHead DEF Inv, Held
<1>5. RdProt(txFifo, shifter.done) = shifter.done
  BY <1>1, <1>4, FieldTypes DEF RdProt
<1>6. Pending = Rest(txFifo, shifter.done)
  BY <1>3, <1>4, <1>5, PendingIsTail DEF Pending, Rest
<1>7. Pending \in Seq(Any)
  BY <1>3, <1>4, PendingIsTail, HeadTailProperties DEF Pending
<1>8. txFifo' \in FifoType /\ Cautious(txFifo')
  BY <1>1, <1>2, StepType, StepCount
<1>9. Contents(txFifo') = IF WrProt(txFifo, wr_en) THEN Append(Pending, d) ELSE Pending
  BY <1>1, <1>2, <1>6, StepContents
<1> QED
  BY <1>7, <1>8, <1>9

\* A clock keeps the types.
LEMMA ClockType ==
  ASSUME Inv, NEW stops \in BOOLEAN, NEW wr_en \in BOOLEAN, NEW d \in Data,
         Clock(stops, wr_en, d)
  PROVE  TypeOK'
<1>1. txFifo' \in FifoType
  BY ClockContents
<1>2. Front(txFifo) \in Any
  BY FieldTypes DEF Front, Inv, TypeOK, Any
<1>3. shifter' \in ShifterType
  BY <1>2 DEF Inv, TypeOK, ShifterType, Clock, Shift, Any
<1>4. offered' \in 0 .. MaxBytes
  BY MaxBytesAssumption DEF Inv, TypeOK, Clock, Enqueue
<1>5. written' \in Seq(Data)
  BY DEF Inv, TypeOK, Clock, Enqueue
<1>6. line' \in Seq(Any)
  BY DEF Inv, TypeOK, ShifterType, Clock, Shift, Any
<1> QED
  BY <1>1, <1>3, <1>4, <1>5, <1>6 DEF TypeOK, Any

\* A clock in which nothing is popped keeps the front of a queue that is not
\* empty, and the flag that says so.
LEMMA FrontKept ==
  ASSUME NEW f \in FifoType, Cautious(f), ~f.empty, NEW wr_en \in BOOLEAN, NEW d \in Data
  PROVE  LET g == FifoStep(f, FALSE, wr_en, d)
         IN ~g.empty /\ Front(g) = Front(f)
<1> DEFINE g == FifoStep(f, FALSE, wr_en, d)
<1>1. g \in FifoType /\ Cautious(g) /\ ~g.empty
  <2>1. g \in FifoType /\ Cautious(g)
    BY StepType, StepCount
  <2>2. ~RdProt(f, FALSE)
    BY DEF RdProt
  <2>3. ~EmptyNext(f, RdProt(f, FALSE), WrProt(f, wr_en))
    BY <2>2 DEF EmptyNext
  <2>4. g.empty = EmptyNext(f, RdProt(f, FALSE), WrProt(f, wr_en))
    BY DEF FifoStep
  <2> QED
    BY <2>1, <2>3, <2>4
<1>2. Contents(g) = IF WrProt(f, wr_en) THEN Append(Contents(f), d) ELSE Contents(f)
  BY StepContents DEF RdProt, Rest
<1>3. Contents(f) \in Seq(Any) /\ Contents(f) # <<>> /\ Head(Contents(f)) = Front(f)
  BY ContentsType, FrontIsHead DEF Any
<1>4. Head(Append(Contents(f), d)) = Head(Contents(f))
  BY <1>3, HeadTailAppend
<1>5. Head(Contents(g)) = Front(g)
  BY <1>1, FrontIsHead
<1> QED
  BY <1>1, <1>2, <1>3, <1>4, <1>5

\* A clock keeps the byte being sent at the front.
LEMMA ClockHeld ==
  ASSUME Inv, NEW stops \in BOOLEAN, NEW wr_en \in BOOLEAN, NEW d \in Data,
         Clock(stops, wr_en, d)
  PROVE  Held'
<1>1. txFifo \in FifoType /\ Cautious(txFifo) /\ shifter \in ShifterType
  BY DEF Inv, TypeOK
<1>2. txFifo' = FifoStep(txFifo, shifter.done, wr_en, d)
  BY DEF Clock, Enqueue, Pops
<1>3. ASSUME ~txFifo.empty, ~shifter.done
      PROVE  ~txFifo'.empty /\ Front(txFifo') = Front(txFifo)
  <2>1. shifter.done = FALSE
    BY <1>1, <1>3 DEF ShifterType
  <2> QED
    BY <1>1, <1>2, <1>3, <2>1, FrontKept
<1>4. CASE Starts
  BY <1>1, <1>3, <1>4 DEF Starts, Clock, Shift, Held, ShifterType
<1>5. CASE ~Starts /\ stops
  BY <1>1, <1>3, <1>5 DEF Starts, Clock, Shift, Held, ShifterType, Inv
<1>6. CASE ~Starts /\ ~stops
  BY <1>1, <1>3, <1>6 DEF Starts, Clock, Shift, Held, ShifterType, Inv
<1> QED
  BY <1>4, <1>5, <1>6

\* A clock neither drops, repeats nor reorders a byte.
LEMMA ClockSentOnce ==
  ASSUME Inv, NEW stops \in BOOLEAN, NEW wr_en \in BOOLEAN, NEW d \in Data,
         Clock(stops, wr_en, d)
  PROVE  SentOnce'
<1> DEFINE wr == WrProt(txFifo, wr_en)
           after == Contents(txFifo')
<1>1. Pending \in Seq(Any) /\ after = IF wr THEN Append(Pending, d) ELSE Pending
  BY ClockContents
<1>2. line \in Seq(Any) /\ written = line \o Pending /\ d \in Any
  BY DEF Inv, TypeOK, SentOnce, Any
<1>3. written' = IF wr THEN Append(written, d) ELSE written
  BY DEF Clock, Enqueue
<1>4. written' = line \o after
  <2>1. Append(line \o Pending, d) = line \o Append(Pending, d)
    BY <1>1, <1>2, AppendLast
  <2> HIDE DEF wr, after
  <2> QED
    BY <1>1, <1>2, <1>3, <2>1
<1>5. CASE stops
  <2>1. /\ shifter.state = "Sending" /\ ~shifter.done /\ ~Starts
        /\ ~txFifo.empty /\ shifter.data = Front(txFifo)
    BY <1>5 DEF Clock, Shift, Inv, Held, Starts
  <2>2. /\ shifter'.done = TRUE
        /\ line' = Append(line, shifter.data)
    BY <1>5, <2>1 DEF Clock, Shift, Inv, TypeOK, ShifterType
  <2>3. Pending = Contents(txFifo) /\ Pending # <<>> /\ Head(Pending) = Front(txFifo)
    BY <2>1, FrontIsHead DEF Pending, Inv, TypeOK
  <2>4. after # <<>> /\ Head(after) = Head(Pending) /\ after \in Seq(Any)
    BY <1>1, <1>2, <2>3, HeadTailAppend, AppendProperties
  <2>5. Append(line, Head(after)) \o Tail(after) = line \o after
    BY <1>2, <2>4, MoveHead
  <2>6. Pending' = Tail(after)
    BY <2>2, <2>4, TailIsSubSeq DEF Pending
  <2> QED
    BY <1>4, <2>1, <2>2, <2>3, <2>4, <2>5, <2>6 DEF SentOnce
<1>6. CASE ~stops
  <2>1. shifter'.done = FALSE /\ line' = line
    BY <1>6 DEF Clock, Shift, Inv, TypeOK, ShifterType
  <2>2. Pending' = after
    BY <2>1 DEF Pending
  <2> QED
    BY <1>4, <2>1, <2>2 DEF SentOnce
<1> QED
  BY <1>5, <1>6

\* Every clock keeps the invariant.
LEMMA NextInv == Inv /\ [Next]_vars => Inv'
<1> SUFFICES ASSUME Inv, [Next]_vars PROVE Inv'
  OBVIOUS
<1>1. ASSUME NEW stops \in BOOLEAN, NEW wr_en \in BOOLEAN, NEW d \in Data,
             Clock(stops, wr_en, d)
      PROVE  Inv'
  <2>1. Cautious(txFifo')
    BY <1>1, ClockContents
  <2> QED
    BY <1>1, <2>1, ClockType, ClockHeld, ClockSentOnce DEF Inv
<1>2. CASE UNCHANGED vars
  BY <1>2 DEF vars, Inv, TypeOK, Held, SentOnce, Pending
<1> QED
  BY <1>1, <1>2 DEF Next, Tick

\* What hci.v writes to the serial port is sent once and in order: the done
\* tick that pops the queue never makes the shifter skip or repeat a byte.
THEOREM SentOnceCorrect == Spec => []SentOnce
<1>1. Inv => SentOnce
  BY DEF Inv
<1> QED
  BY InitInv, NextInv, <1>1, PTL DEF Spec
=============================================================================
