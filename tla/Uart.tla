-------------------------------- MODULE Uart --------------------------------
(***************************************************************************)
(* uart.v, the transmit half: the queue that hci.v writes to and the       *)
(* shifter of uart_tx.v that empties it onto the line.  A step is a clock. *)
(* The shifter's start bit, data bits, parity and stop bit are one state,  *)
(* Sending, that lasts as long as the baud clock makes it.                 *)
(***************************************************************************)
EXTENDS Fifo

CONSTANT MaxBytes  \* bound: bytes offered to the queue

ASSUME MaxBytesAssumption == MaxBytes \in Nat

VARIABLES
  txFifo,   \* uart_tx_fifo
  shifter,  \* uart_tx: its state, the byte latched, and q_tx_done_tick
  offered,  \* number of bytes offered, up to the bound
  written,  \* history: the bytes the queue took
  line      \* history: the bytes sent down to their stop bit

vars == <<txFifo, shifter, offered, written, line>>

ShifterType == [state : {"Idle", "Sending"}, data : Data \union {Unknown}, done : BOOLEAN]

Init ==
  /\ txFifo = FifoReset
  /\ shifter = [state |-> "Idle", data |-> Unknown, done |-> FALSE]
  /\ offered = 0
  /\ written = <<>>
  /\ line = <<>>

\* Mutant: the shifter latches in the done tick too.
StartsHasty == shifter.state = "Idle" /\ ~txFifo.empty

\* tx_start && ~q_tx_done_tick: the queue still shows the byte just sent
\* while the done tick pops it.
Starts == shifter.state = "Idle" /\ ~txFifo.empty /\ ~shifter.done

\* Mutant: the done tick is not cleared.
ShiftSticky(stops) ==
  /\ stops => shifter.state = "Sending"
  /\ shifter' = CASE Starts -> [shifter EXCEPT !.state = "Sending", !.data = Front(txFifo)]
                  [] stops  -> [shifter EXCEPT !.state = "Idle", !.done = TRUE]
                  [] OTHER  -> shifter
  /\ line' = IF stops THEN Append(line, shifter.data) ELSE line

\* stops: the stop bit ends in this clock.
Shift(stops) ==
  /\ stops => shifter.state = "Sending"
  /\ shifter' = CASE Starts -> [state |-> "Sending", data |-> Front(txFifo), done |-> FALSE]
                  [] stops  -> [shifter EXCEPT !.state = "Idle", !.done = TRUE]
                  [] OTHER  -> [shifter EXCEPT !.done = FALSE]
  /\ line' = IF stops THEN Append(line, shifter.data) ELSE line

Pops == shifter.done

\* The transmit queue in a clock in which hci.v offers wr_data, or nothing.
Enqueue(wr_en, wr_data) ==
  /\ wr_en => offered < MaxBytes
  /\ txFifo' = FifoStep(txFifo, Pops, wr_en, wr_data)
  /\ offered' = IF wr_en THEN offered + 1 ELSE offered
  /\ written' = IF WrProt(txFifo, wr_en) THEN Append(written, wr_data) ELSE written

Clock(stops, wr_en, wr_data) == Shift(stops) /\ Enqueue(wr_en, wr_data)

Tick(stops) == \E wr_en \in BOOLEAN, wr_data \in Data : Clock(stops, wr_en, wr_data)

Next == \E stops \in BOOLEAN : Tick(stops)

Spec == Init /\ [][Next]_vars

\* The clock runs, and the baud clock brings every byte to its end.
FairSpec == Spec /\ WF_vars(Next) /\ WF_vars(Tick(TRUE))

-----------------------------------------------------------------------------
TypeOK ==
  /\ txFifo \in FifoType /\ shifter \in ShifterType
  /\ offered \in 0 .. MaxBytes
  /\ written \in Seq(Data) /\ line \in Seq(Data \union {Unknown})

\* The bytes not yet sent: in the done tick the front of the queue has been.
Pending ==
  LET waiting == Contents(txFifo)
  IN IF shifter.done THEN SubSeq(waiting, 2, Len(waiting)) ELSE waiting

\* Every byte the queue took is either on the line, once and in its place, or
\* still waiting behind those that are (uart.v wires tx_done_tick to rd_en:
\* the byte leaves the queue only after it was sent).
SentOnce == written = line \o Pending

\* All but the last byte get sent without the help of another write.
AllButOneSent ==
  \A n \in 1 .. MaxBytes : Len(written) > n ~> Len(line) >= n
=============================================================================
