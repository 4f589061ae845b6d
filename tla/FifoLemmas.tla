----------------------------- MODULE FifoLemmas -----------------------------
(***************************************************************************)
(* What one clock does to a fifo of any size, in terms of the bytes in it. *)
(***************************************************************************)
EXTENDS Fifo, TLAPS

\* The types of the registers, one by one.
LEMMA FieldTypes ==
  ASSUME NEW f \in FifoType
  PROVE  /\ f.rd_ptr \in Pointers /\ f.wr_ptr \in Pointers
         /\ f.empty \in BOOLEAN /\ f.full \in BOOLEAN
         /\ f.data_array \in [Pointers -> Data \union {Unknown}]
  BY DEF FifoType

\* A clock keeps the types of the registers.
LEMMA StepType ==
  ASSUME NEW f \in FifoType, NEW rd_en \in BOOLEAN, NEW wr_en \in BOOLEAN, NEW d \in Data
  PROVE  FifoStep(f, rd_en, wr_en, d) \in FifoType
<1> DEFINE rd == RdProt(f, rd_en)
           wr == WrProt(f, wr_en)
<1>1. /\ f.rd_ptr \in Pointers /\ f.wr_ptr \in Pointers
      /\ f.data_array \in [Pointers -> Data \union {Unknown}]
  BY FieldTypes
<1>2. \A p \in Pointers : Advance(p) \in Pointers
  BY SizeAssumption DEF Advance, Pointers
<1>3. [f.data_array EXCEPT ![f.wr_ptr] = d] \in [Pointers -> Data \union {Unknown}]
  BY <1>1
<1>4. EmptyNext(f, rd, wr) \in BOOLEAN /\ FullNext(f, rd, wr) \in BOOLEAN
  BY DEF EmptyNext, FullNext
<1> HIDE DEF rd, wr
<1> QED
  BY <1>1, <1>2, <1>3, <1>4 DEF FifoStep, FifoType, rd, wr

\* A byte read is one less, a byte written one more, and the flags stay
\* cautious.
LEMMA StepCount ==
  ASSUME NEW f \in FifoType, Cautious(f),
         NEW rd_en \in BOOLEAN, NEW wr_en \in BOOLEAN, NEW d \in Data
  PROVE  /\ Cautious(FifoStep(f, rd_en, wr_en, d))
         /\ Count(FifoStep(f, rd_en, wr_en, d))
              = Count(f) - (IF RdProt(f, rd_en) THEN 1 ELSE 0)
                         + (IF WrProt(f, wr_en) THEN 1 ELSE 0)
<1> DEFINE g == FifoStep(f, rd_en, wr_en, d)
           rd == RdProt(f, rd_en)
           wr == WrProt(f, wr_en)
<1>1. /\ f.rd_ptr \in Pointers /\ f.wr_ptr \in Pointers
      /\ f.empty \in BOOLEAN /\ f.full \in BOOLEAN
  BY FieldTypes
<1>2. /\ g.rd_ptr = IF rd THEN Advance(f.rd_ptr) ELSE f.rd_ptr
      /\ g.wr_ptr = IF wr THEN Advance(f.wr_ptr) ELSE f.wr_ptr
      /\ g.empty = EmptyNext(f, rd, wr)
      /\ g.full = FullNext(f, rd, wr)
  BY DEF FifoStep
<1>3. rd \in BOOLEAN /\ wr \in BOOLEAN /\ (rd => ~f.empty) /\ (wr => ~f.full)
  BY <1>1 DEF RdProt, WrProt
<1> DEFINE Goal == /\ Cautious(g)
                   /\ Count(g) = Count(f) - (IF rd THEN 1 ELSE 0) + (IF wr THEN 1 ELSE 0)
<1> HIDE DEF g, rd, wr
<1>4. ASSUME rd, wr PROVE Goal
  BY <1>1, <1>2, <1>3, <1>4, SizeAssumption
     DEF Cautious, Count, Gap, Advance, EmptyNext, FullNext, Pointers
<1>5. ASSUME rd, ~wr PROVE Goal
  BY <1>1, <1>2, <1>3, <1>5, SizeAssumption
     DEF Cautious, Count, Gap, Advance, EmptyNext, FullNext, Pointers
<1>6. ASSUME ~rd, wr PROVE Goal
  BY <1>1, <1>2, <1>3, <1>6, SizeAssumption
     DEF Cautious, Count, Gap, Advance, EmptyNext, FullNext, Pointers
<1>7. ASSUME ~rd, ~wr PROVE Goal
  BY <1>1, <1>2, <1>3, <1>7, SizeAssumption
     DEF Cautious, Count, Gap, Advance, EmptyNext, FullNext, Pointers
<1>8. Goal
  BY <1>3, <1>4, <1>5, <1>6, <1>7
<1> QED
  BY <1>8 DEF g, rd, wr

\* The bytes that wait are a sequence of Count(f) cells.
LEMMA ContentsType ==
  ASSUME NEW f \in FifoType
  PROVE  /\ Count(f) \in 0 .. Size
         /\ Contents(f) \in Seq(Data \union {Unknown})
         /\ Len(Contents(f)) = Count(f)
         /\ \A i \in 1 .. Count(f) : Contents(f)[i] = f.data_array[Cell(f.rd_ptr, i - 1)]
<1>1. /\ f.rd_ptr \in Pointers /\ f.wr_ptr \in Pointers /\ f.full \in BOOLEAN
      /\ f.data_array \in [Pointers -> Data \union {Unknown}]
  BY FieldTypes
<1>2. Count(f) \in 0 .. Size
  BY <1>1, SizeAssumption DEF Count, Gap, Pointers
<1>3. \A i \in 1 .. Count(f) : Cell(f.rd_ptr, i - 1) \in Pointers
  BY <1>1, <1>2, SizeAssumption DEF Cell, Pointers
<1>4. \A i \in 1 .. Count(f) :
        f.data_array[Cell(f.rd_ptr, i - 1)] \in Data \union {Unknown}
  BY <1>1, <1>3
<1>5. Contents(f) \in [1 .. Count(f) -> Data \union {Unknown}]
  BY <1>4 DEF Contents
<1>6. Contents(f) \in Seq(Data \union {Unknown}) /\ Len(Contents(f)) = Count(f)
  BY <1>2, <1>5
<1> QED
  BY <1>2, <1>6 DEF Contents

\* The read pointer moves to the next cell of the queue; the write pointer
\* stands behind the last cell, and on no cell that is in use.
LEMMA CellFacts ==
  ASSUME NEW f \in FifoType, Cautious(f)
  PROVE  /\ \A i \in 0 .. Size - 2 : Cell(Advance(f.rd_ptr), i) = Cell(f.rd_ptr, i + 1)
         /\ ~f.full => Cell(f.rd_ptr, Count(f)) = f.wr_ptr
         /\ \A i \in 0 .. Count(f) - 1 : ~f.full => Cell(f.rd_ptr, i) # f.wr_ptr
<1>1. f.rd_ptr \in Pointers /\ f.wr_ptr \in Pointers /\ f.full \in BOOLEAN /\ f.empty \in BOOLEAN
  BY FieldTypes
<1>2. \A i \in 0 .. Size - 2 : Cell(Advance(f.rd_ptr), i) = Cell(f.rd_ptr, i + 1)
  BY <1>1, SizeAssumption DEF Cell, Advance, Pointers
<1>3. ~f.full => Cell(f.rd_ptr, Count(f)) = f.wr_ptr
  BY <1>1, SizeAssumption DEF Cell, Count, Gap, Pointers
<1>4. \A i \in 0 .. Count(f) - 1 : ~f.full => Cell(f.rd_ptr, i) # f.wr_ptr
  BY <1>1, SizeAssumption DEF Cell, Count, Gap, Pointers
<1> QED
  BY <1>2, <1>3, <1>4

\* What a clock leaves of the bytes that were there before.
Rest(f, rd_en) == IF RdProt(f, rd_en) THEN Tail(Contents(f)) ELSE Contents(f)

\* A clock removes the front if it reads and appends the byte if it writes.
LEMMA StepContents ==
  ASSUME NEW f \in FifoType, Cautious(f),
         NEW rd_en \in BOOLEAN, NEW wr_en \in BOOLEAN, NEW d \in Data
  PROVE  Contents(FifoStep(f, rd_en, wr_en, d))
           = IF WrProt(f, wr_en) THEN Append(Rest(f, rd_en), d) ELSE Rest(f, rd_en)
<1> DEFINE g == FifoStep(f, rd_en, wr_en, d)
           rd == RdProt(f, rd_en)
           wr == WrProt(f, wr_en)
           rest == IF rd THEN Tail(Contents(f)) ELSE Contents(f)
<1>1. /\ f.rd_ptr \in Pointers /\ f.wr_ptr \in Pointers
      /\ f.data_array \in [Pointers -> Data \union {Unknown}]
      /\ rd \in BOOLEAN /\ wr \in BOOLEAN /\ (rd => ~f.empty) /\ (wr => ~f.full)
  BY FieldTypes DEF RdProt, WrProt
<1>2. /\ g.rd_ptr = IF rd THEN Advance(f.rd_ptr) ELSE f.rd_ptr
      /\ g.data_array = IF wr THEN [f.data_array EXCEPT ![f.wr_ptr] = d] ELSE f.data_array
  BY DEF FifoStep
<1>3. g \in FifoType
  BY StepType
<1>4. Count(g) = Count(f) - (IF rd THEN 1 ELSE 0) + (IF wr THEN 1 ELSE 0)
  BY StepCount
<1> DEFINE n == IF rd THEN Count(f) - 1 ELSE Count(f)
<1>5. /\ Count(f) \in 0 .. Size /\ n \in 0 .. Size /\ (rd => Count(f) >= 1)
      /\ Count(g) = IF wr THEN n + 1 ELSE n
  <2>1. Count(f) \in 0 .. Size /\ f.empty \in BOOLEAN
    BY ContentsType, FieldTypes
  <2>2. ~f.empty => Count(f) >= 1
    BY <2>1 DEF Cautious
  <2> HIDE DEF g, rd, wr
  <2> QED
    BY <1>1, <1>4, <2>1, <2>2, SizeAssumption
<1>6. /\ rest \in Seq(Data \union {Unknown}) /\ Len(rest) = n
      /\ \A i \in 1 .. n : rest[i] = f.data_array[Cell(g.rd_ptr, i - 1)]
  <2> DEFINE C == Contents(f)
  <2>1. /\ C \in Seq(Data \union {Unknown}) /\ Len(C) = Count(f)
        /\ \A i \in 1 .. Count(f) : C[i] = f.data_array[Cell(f.rd_ptr, i - 1)]
    BY ContentsType
  <2> HIDE DEF C, rd
  <2>2. CASE ~rd
    BY <1>2, <2>1, <2>2 DEF C
  <2>3. CASE rd
    <3>1. C # <<>>
      BY <1>5, <2>1, <2>3
    <3>2. /\ Tail(C) \in Seq(Data \union {Unknown}) /\ Len(Tail(C)) = Count(f) - 1
          /\ \A i \in 1 .. Count(f) - 1 : Tail(C)[i] = C[i + 1]
      BY <1>5, <2>1, <3>1
    <3>3. \A i \in 1 .. Count(f) - 1 : Cell(Advance(f.rd_ptr), i - 1) = Cell(f.rd_ptr, i)
      BY <1>5, CellFacts, SizeAssumption
    <3>4. \A i \in 1 .. Count(f) - 1 : C[i + 1] = f.data_array[Cell(f.rd_ptr, i)]
      BY <1>5, <2>1
    <3> QED
      BY <1>2, <2>3, <3>2, <3>3, <3>4 DEF C
  <2> QED
    BY <2>2, <2>3
<1>7. wr => Cell(g.rd_ptr, n) = f.wr_ptr
  <2>1. wr => Cell(f.rd_ptr, Count(f)) = f.wr_ptr /\ Count(f) <= Size - 1
    BY <1>1, CellFacts DEF Cautious
  <2>2. rd /\ wr => Cell(Advance(f.rd_ptr), Count(f) - 1) = Cell(f.rd_ptr, Count(f))
    BY <1>5, <2>1, CellFacts, SizeAssumption
  <2> QED
    BY <1>2, <2>1, <2>2
<1>8. wr => \A i \in 1 .. n : Cell(g.rd_ptr, i - 1) # f.wr_ptr
  <2>1. wr => \A i \in 0 .. Count(f) - 1 : Cell(f.rd_ptr, i) # f.wr_ptr
    BY <1>1, CellFacts
  <2>2. rd => \A i \in 1 .. n : Cell(g.rd_ptr, i - 1) = Cell(f.rd_ptr, i)
    BY <1>2, <1>5, CellFacts, SizeAssumption
  <2>3. rd => \A i \in 1 .. n : i \in 0 .. Count(f) - 1
    BY <1>5
  <2>4. ~rd => \A i \in 1 .. n : i - 1 \in 0 .. Count(f) - 1
    BY <1>5
  <2> QED
    BY <1>2, <2>1, <2>2, <2>3, <2>4
<1>9. \A i \in 1 .. Count(g) : Cell(g.rd_ptr, i - 1) \in Pointers
  <2>1. g.rd_ptr \in Pointers /\ Count(g) \in 0 .. Size
    BY <1>3, FieldTypes, ContentsType
  <2> QED
    BY <2>1, SizeAssumption DEF Cell, Pointers
<1>10. /\ Contents(g) \in Seq(Data \union {Unknown}) /\ Len(Contents(g)) = Count(g)
       /\ \A i \in 1 .. Count(g) : Contents(g)[i] = g.data_array[Cell(g.rd_ptr, i - 1)]
  BY <1>3, ContentsType
<1>11. CASE ~wr
  <2>1. Len(Contents(g)) = Len(rest) /\ \A i \in 1 .. n : Contents(g)[i] = rest[i]
    BY <1>2, <1>5, <1>6, <1>10, <1>11
  <2> HIDE DEF g, rest, n
  <2>2. Contents(g) = rest
    BY <1>6, <1>10, <2>1
  <2> QED
    BY <1>11, <2>2 DEF g, rest, Rest
<1>12. CASE wr
  <2>1. \A i \in 1 .. n : Contents(g)[i] = rest[i]
    <3> SUFFICES ASSUME NEW i \in 1 .. n PROVE Contents(g)[i] = rest[i]
      OBVIOUS
    <3>1. i \in 1 .. Count(g)
      BY <1>5, <1>12
    <3>2. Contents(g)[i] = g.data_array[Cell(g.rd_ptr, i - 1)]
      BY <1>10, <3>1
    <3>3. Cell(g.rd_ptr, i - 1) \in Pointers /\ Cell(g.rd_ptr, i - 1) # f.wr_ptr
      BY <1>8, <1>9, <1>12, <3>1
    <3>4. g.data_array[Cell(g.rd_ptr, i - 1)] = f.data_array[Cell(g.rd_ptr, i - 1)]
      <4> DEFINE p == Cell(g.rd_ptr, i - 1)
      <4>1. g.data_array = [f.data_array EXCEPT ![f.wr_ptr] = d]
        BY <1>2, <1>12
      <4>2. p \in Pointers /\ p # f.wr_ptr
        BY <3>3
      <4> HIDE DEF p, g
      <4> QED
        BY <1>1, <4>1, <4>2 DEF p
    <3> QED
      BY <1>6, <3>2, <3>4
  <2>2. Contents(g)[n + 1] = d
    <3> HIDE DEF g, n, wr
    <3>1. n + 1 \in 1 .. Count(g) /\ (n + 1) - 1 = n
      BY <1>5, <1>12
    <3>2. Contents(g)[n + 1] = g.data_array[f.wr_ptr]
      BY <1>7, <1>10, <1>12, <3>1
    <3> QED
      BY <1>1, <1>2, <1>12, <3>2
  <2>3. Len(Contents(g)) = n + 1
    BY <1>5, <1>10, <1>12
  <2> HIDE DEF g, rest, n
  <2>4. Contents(g) = Append(rest, d)
    BY <1>5, <1>6, <1>10, <2>1, <2>2, <2>3
  <2> QED
    BY <1>12, <2>4 DEF g, rest, Rest
<1> QED
  BY <1>11, <1>12

\* rd_data shows the oldest byte that waits.
LEMMA FrontIsHead ==
  ASSUME NEW f \in FifoType, Cautious(f), ~f.empty
  PROVE  Contents(f) # <<>> /\ Head(Contents(f)) = Front(f)
<1>1. f.rd_ptr \in Pointers
  BY FieldTypes
<1>2. Cell(f.rd_ptr, 0) = f.rd_ptr
  BY <1>1, SizeAssumption DEF Cell, Pointers
<1>3. Count(f) \in 0 .. Size /\ Count(f) >= 1
  BY ContentsType DEF Cautious
<1>4. /\ Contents(f) \in Seq(Data \union {Unknown}) /\ Len(Contents(f)) = Count(f)
      /\ Contents(f)[1] = f.data_array[Cell(f.rd_ptr, 0)]
  BY <1>3, ContentsType
<1> QED
  BY <1>2, <1>3, <1>4 DEF Front

\* There is room for a byte that is written.
LEMMA RoomToWrite ==
  ASSUME NEW f \in FifoType, Cautious(f), ~f.full
  PROVE  Len(Contents(f)) < Size
  BY ContentsType, SizeAssumption DEF Cautious

\* The reset state is empty and well formed.
LEMMA ResetFacts ==
  FifoReset \in FifoType /\ Cautious(FifoReset) /\ Contents(FifoReset) = <<>>
<1>1. FifoReset \in FifoType
  BY SizeAssumption DEF FifoReset, FifoType, Pointers
<1>2. Count(FifoReset) = 0
  BY DEF FifoReset, Count
<1>3. Cautious(FifoReset)
  BY <1>2, SizeAssumption DEF FifoReset, Cautious
<1>4. Contents(FifoReset) = <<>>
  BY <1>2 DEF Contents
<1> QED
  BY <1>1, <1>3, <1>4
=============================================================================
