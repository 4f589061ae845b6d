-------------------------- MODULE FifoQueueProofs ---------------------------
(***************************************************************************)
(* A fifo of any size of at least 3 is a queue.                            *)
(***************************************************************************)
EXTENDS FifoQueue, FifoLemmas

\* The registers have their types and the flags are cautious.
Inv == TypeOK /\ FlagsCautious

\* The fifo starts so.
LEMMA InitInv == Init => Inv
  BY ResetFacts DEF Init, Inv, TypeOK, FlagsCautious

\* Every clock keeps it so.
LEMMA NextInv == Inv /\ [Next]_<<fifo, taken>> => Inv'
<1> SUFFICES ASSUME Inv, [Next]_<<fifo, taken>> PROVE Inv'
  OBVIOUS
<1> USE DEF Inv, TypeOK, FlagsCautious
<1>1. ASSUME NEW rd_en \in BOOLEAN, NEW wr_en \in BOOLEAN, NEW d \in Data,
             Clock(rd_en, wr_en, d)
      PROVE  Inv'
  <2>1. fifo' \in FifoType /\ Cautious(fifo')
    BY <1>1, StepType, StepCount DEF Clock
  <2>2. Front(fifo) \in Data \union {Unknown}
    BY FieldTypes DEF Front
  <2> QED
    BY <1>1, <2>1, <2>2 DEF Clock
<1>2. CASE UNCHANGED <<fifo, taken>>
  BY <1>2
<1> QED
  BY <1>1, <1>2 DEF Next

\* Every step of a well-formed fifo is a step of the queue, or none.
LEMMA NextQueue ==
  Inv /\ [Next]_<<fifo, taken>> => [Abstract!Next]_<<Contents(fifo), taken>>
<1> SUFFICES ASSUME Inv, [Next]_<<fifo, taken>>
             PROVE  [Abstract!Next]_<<Contents(fifo), taken>>
  OBVIOUS
<1>1. fifo \in FifoType /\ Cautious(fifo)
  BY DEF Inv, TypeOK, FlagsCautious
<1>2. ASSUME NEW rd_en \in BOOLEAN, NEW wr_en \in BOOLEAN, NEW d \in Data,
             Clock(rd_en, wr_en, d)
      PROVE  [Abstract!Next]_<<Contents(fifo), taken>>
  <2> DEFINE rd == RdProt(fifo, rd_en)
             wr == WrProt(fifo, wr_en)
             rest == IF rd THEN Tail(Contents(fifo)) ELSE Contents(fifo)
  <2>1. Contents(fifo') = IF wr THEN Append(rest, d) ELSE rest
    BY <1>1, <1>2, StepContents DEF Clock, Rest
  <2>2. rd => /\ Contents(fifo) # <<>>
              /\ taken' = Head(Contents(fifo))
    BY <1>1, <1>2, FrontIsHead DEF Clock, RdProt
  <2>3. ~rd => taken' = taken
    BY <1>2 DEF Clock
  <2>4. wr => Len(Contents(fifo)) < Size
    BY <1>1, RoomToWrite DEF WrProt
  <2> HIDE DEF rd, wr
  <2>5. CASE rd /\ wr
    BY <2>1, <2>2, <2>5 DEF Abstract!Next, Abstract!Pass
  <2>6. CASE rd /\ ~wr
    BY <2>1, <2>2, <2>6 DEF Abstract!Next, Abstract!Get
  <2>7. CASE ~rd /\ wr
    BY <2>1, <2>3, <2>4, <2>7 DEF Abstract!Next, Abstract!Put
  <2>8. CASE ~rd /\ ~wr
    BY <2>1, <2>3, <2>8
  <2> QED
    BY <2>5, <2>6, <2>7, <2>8
<1>3. CASE UNCHANGED <<fifo, taken>>
  BY <1>3
<1> QED
  BY <1>2, <1>3 DEF Next

\* The registers of fifo.v keep their types.
THEOREM FifoTypeCorrect == Spec => []TypeOK
<1>1. Inv => TypeOK
  BY DEF Inv
<1> QED
  BY InitInv, NextInv, <1>1, PTL DEF Spec

\* The flags of fifo.v are off by one byte at most, and only on the cautious
\* side.
THEOREM FlagsCautiousCorrect == Spec => []FlagsCautious
<1>1. Inv => FlagsCautious
  BY DEF Inv
<1> QED
  BY InitInv, NextInv, <1>1, PTL DEF Spec

\* fifo.v is a queue under every sequence of enables, whatever its size.
THEOREM FifoIsQueue == Spec => IsQueue
<1>1. Init => Abstract!Init
  BY ResetFacts DEF Init, Abstract!Init
<1> QED
  BY InitInv, NextInv, NextQueue, <1>1, PTL DEF Spec, IsQueue, Abstract!Spec
=============================================================================
