-------------------------------- MODULE Fifo --------------------------------
(***************************************************************************)
(* fifo.v: the byte queue of the NES serial link, as the function from one *)
(* clock to the next.  A queue is the record of its registers; rd_en and   *)
(* wr_en may be raised in the same clock.                                  *)
(***************************************************************************)
EXTENDS Integers, Sequences

CONSTANTS
  Data,    \* the bytes that travel
  Unknown, \* what a cell holds before it is first written
  Size     \* number of cells, 2**ADDR_BITS

ASSUME SizeAssumption == Size \in Nat /\ Size >= 3
ASSUME UnknownAssumption == Unknown \notin Data

Pointers == 0 .. Size - 1

FifoType == [rd_ptr : Pointers, wr_ptr : Pointers, empty : BOOLEAN, full : BOOLEAN,
             data_array : [Pointers -> Data \union {Unknown}]]

FifoReset == [rd_ptr |-> 0, wr_ptr |-> 0, empty |-> TRUE, full |-> FALSE,
              data_array |-> [p \in Pointers |-> Unknown]]

\* Pointers have ADDR_BITS bits: they count and subtract modulo Size.
\* AdvanceWide, a mutant: a pointer one bit too wide.
AdvanceWide(p) == IF p = Size THEN 0 ELSE p + 1
Advance(p) == IF p = Size - 1 THEN 0 ELSE p + 1
Gap(p, q)  == IF q >= p THEN q - p ELSE q - p + Size

\* Mutant: a write that does not look at the full flag.
WrProtBold(f, wr_en) == wr_en

RdProt(f, rd_en) == rd_en /\ ~f.empty
WrProt(f, wr_en) == wr_en /\ ~f.full
Front(f) == f.data_array[f.rd_ptr]

\* Mutant: the difference is compared after the read instead of before it.
EmptyNextLate(f, rd, wr) == (f.empty /\ ~wr) \/ (Gap(f.rd_ptr, f.wr_ptr) = 0 /\ rd)

EmptyNext(f, rd, wr) == \/ f.empty /\ ~wr
                        \/ Gap(f.rd_ptr, f.wr_ptr) = 1 /\ rd
FullNext(f, rd, wr)  == \/ f.full /\ ~rd
                        \/ Gap(f.wr_ptr, f.rd_ptr) = 1 /\ wr

FifoStep(f, rd_en, wr_en, wr_data) ==
  LET rd == RdProt(f, rd_en)
      wr == WrProt(f, wr_en)
  IN [rd_ptr |-> IF rd THEN Advance(f.rd_ptr) ELSE f.rd_ptr,
      wr_ptr |-> IF wr THEN Advance(f.wr_ptr) ELSE f.wr_ptr,
      empty  |-> EmptyNext(f, rd, wr),
      full   |-> FullNext(f, rd, wr),
      data_array |-> IF wr THEN [f.data_array EXCEPT ![f.wr_ptr] = wr_data]
                     ELSE f.data_array]

\* What is in the queue, oldest first, by its pointers: when they are equal
\* the full flag tells a full queue from an empty one.
Count(f) == IF f.rd_ptr = f.wr_ptr THEN (IF f.full THEN Size ELSE 0)
            ELSE Gap(f.rd_ptr, f.wr_ptr)
Cell(p, i) == IF p + i < Size THEN p + i ELSE p + i - Size
Contents(f) == [i \in 1 .. Count(f) |-> f.data_array[Cell(f.rd_ptr, i - 1)]]

\* The flags may say less than there is, by one byte at most, and never more.
Cautious(f) ==
  /\ IF f.empty THEN Count(f) <= 1 ELSE Count(f) >= 1
  /\ IF f.full THEN Count(f) >= Size - 1 ELSE Count(f) <= Size - 1
=============================================================================
