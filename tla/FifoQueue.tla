----------------------------- MODULE FifoQueue ------------------------------
(***************************************************************************)
(* A fifo under every sequence of read and write enables: does it keep     *)
(* what Queue promises?                                                    *)
(***************************************************************************)
EXTENDS Fifo

VARIABLES fifo,  \* the registers
          taken  \* history: the byte on rd_data at the last effective read

Init == fifo = FifoReset /\ taken = Unknown

Clock(rd_en, wr_en, wr_data) ==
  /\ fifo' = FifoStep(fifo, rd_en, wr_en, wr_data)
  /\ taken' = IF RdProt(fifo, rd_en) THEN Front(fifo) ELSE taken

Next == \E rd_en, wr_en \in BOOLEAN, wr_data \in Data : Clock(rd_en, wr_en, wr_data)

Spec == Init /\ [][Next]_<<fifo, taken>>

-----------------------------------------------------------------------------
TypeOK == fifo \in FifoType /\ taken \in Data \union {Unknown}

\* A queue that does not say empty holds a byte, one that does holds at most
\* one; a queue that does not say full has room, one that does lacks at most
\* one byte.  The protected enables of fifo.v rest on it: a read never
\* delivers a stale cell and a write never lands on a byte that waits.
FlagsCautious == Cautious(fifo)

\* The fifo is a queue: no interleaving of reads and writes, protected or
\* refused, loses, repeats or reorders a byte.
Abstract == INSTANCE Queue WITH items <- Contents(fifo), None <- Unknown, Capacity <- Size
IsQueue == Abstract!Spec
=============================================================================
