-------------------------------- MODULE Hci --------------------------------
(***************************************************************************)
(* hci.v: the packet decoder on the NES side of the debugger's serial      *)
(* link, with the two queues of uart.v (see Fifo and Uart for those) and   *)
(* the line.  The decoder runs some 28000 clocks in the time of a byte, so *)
(* it has come to rest whenever a byte ends on the line (Tick).            *)
(***************************************************************************)
EXTENDS Naturals, Sequences

CONSTANTS
  ByteMod,            \* 256
  Cells,              \* bytes a queue of uart.v holds
  CpuSpace, PpuSpace, \* the addresses that memory or a register answers to
  PpuCtrl, PpuMask,   \* $2000 and $2001, in CpuSpace
  RegSels,            \* the selectors of CpuReg
  LinkFaults          \* a subset of {"stick"}

ASSUME HciAssumption ==
  /\ ByteMod \in Nat /\ ByteMod > 12 /\ Cells \in Nat \ {0}
  /\ {PpuCtrl, PpuMask} \subseteq CpuSpace

Byte    == 0 .. ByteMod - 1
WordMod == ByteMod * ByteMod

\* The opcodes
OpEcho         == 0
OpCpuMemRd     == 1
OpCpuMemWr     == 2
OpDbgHlt       == 3
OpDbgRun       == 4
OpCpuRegRd     == 5
OpCpuRegWr     == 6
OpQueryHlt     == 7
OpQueryErrCode == 8
OpPpuMemRd     == 9
OpPpuMemWr     == 10
OpPpuDisable   == 11
OpCartSetCfg   == 12

VARIABLES
  h,               \* the decoder's registers, without the one to the transmitter:
  wr,              \* q_tx_data if q_wr_en
  rx, tx,          \* uart_rx_fifo, uart_tx_fifo
  hidden,          \* tx_fifo_empty though one byte is there (fifo.v, see FlagsCautious)
  down, up,        \* bytes on their way to the NES, and arrived at the PC
  cpu_mem, ppu_mem, regs

nes  == <<h, wr, rx, tx, hidden, cpu_mem, ppu_mem, regs>>
line == <<down, up>>

HciReset == [state |-> "DECODE", unit |-> "cpu", decode_cnt |-> 0, execute_cnt |-> 0, addr |-> 0,
             err |-> FALSE, cfg |-> <<0, 0, 0, 0, 0>>]
HciInit ==
  /\ h = HciReset /\ wr = <<>> /\ rx = <<>> /\ tx = <<>> /\ hidden = FALSE
  /\ down = <<>> /\ up = <<>>
  /\ cpu_mem = [a \in CpuSpace |-> 0] /\ ppu_mem = [a \in PpuSpace |-> 0]
  /\ regs = [r \in RegSels |-> 0]

At(mem, a) == IF a \in DOMAIN mem THEN mem[a] ELSE 0
Active     == h.state # "DISABLED"
Data       == Head(rx)
Pop        == rx # <<>> /\ rx' = Tail(rx)
TxFull     == Len(tx) = Cells
To(s)      == [h EXCEPT !.state = s]
\* Back to DECODE; what the next packet loads before it is read is taken as 0.
Ended      == [HciReset EXCEPT !.err = h.err, !.cfg = h.cfg]
Say(b)     == wr' = <<b>>
Mute       == wr' = <<>>
Stored     == <<cpu_mem, ppu_mem, regs>>
-----------------------------------------------------------------------------
\* S_DISABLED: the processor runs, and but for two opcodes bytes are dropped.
Disabled ==
  /\ h.state = "DISABLED" /\ Pop /\ UNCHANGED Stored
  /\ h' = IF Data = OpDbgHlt THEN To("DECODE") ELSE h
  /\ IF Data = OpQueryHlt THEN Say(0) ELSE Mute

Stage(op) ==
  CASE op = OpEcho -> "ECHO_0"               [] op \in {OpCpuMemRd, OpPpuMemRd} -> "MEM_RD_0"
    [] op \in {OpCpuMemWr, OpPpuMemWr} -> "MEM_WR_0"
    [] op = OpCpuRegRd -> "REG_RD"           [] op = OpCpuRegWr -> "REG_WR_0"
    [] op = OpQueryErrCode -> "QUERY_ERR"    [] op = OpPpuDisable -> "PPU_DISABLE"
    [] op = OpCartSetCfg -> "CART_0"         [] op = OpDbgRun -> "DISABLED"
    [] OTHER -> "DECODE"
Decode ==
  /\ h.state = "DECODE" /\ Pop /\ UNCHANGED Stored
  /\ h' = [h EXCEPT !.state = Stage(Data), !.decode_cnt = 0, !.err = @ \/ Data > OpCartSetCfg,
                    !.unit = IF Data \in {OpPpuMemRd, OpPpuMemWr} THEN "ppu" ELSE "cpu"]
  /\ IF Data = OpQueryHlt THEN Say(1) ELSE Mute

\* ADDR_LO, ADDR_HI (not for ECHO), CNT_LO, CNT_HI; a read takes two clocks a byte
Begun == CASE h.state = "ECHO_0" -> "ECHO_1" [] h.state = "MEM_RD_0" -> "MEM_RD_1"
           [] OTHER -> "MEM_WR_1"
Gather ==
  /\ h.state \in {"ECHO_0", "MEM_RD_0", "MEM_WR_0"} /\ Pop /\ Mute /\ UNCHANGED Stored
  /\ LET k == h.decode_cnt + (IF h.state = "ECHO_0" THEN 2 ELSE 0)
         n == (h.execute_cnt % ByteMod) + Data * ByteMod
         g == [h EXCEPT !.decode_cnt = @ + 1]
     IN h' = CASE k = 0 -> [g EXCEPT !.addr = Data]
               [] k = 1 -> [g EXCEPT !.addr = (@ % ByteMod) + Data * ByteMod]
               [] k = 2 -> [g EXCEPT !.execute_cnt = Data]
               [] k = 3 /\ n = 0 -> Ended
               [] OTHER -> [g EXCEPT !.execute_cnt = IF h.state = "MEM_RD_0" THEN 2 * n ELSE n,
                                     !.state = Begun]

\* After the last byte of a packet, back to DECODE.
Counted(g) == LET left == (g.execute_cnt + 2 * WordMod - 1) % (2 * WordMod)
              IN IF left = 0 THEN Ended ELSE [g EXCEPT !.execute_cnt = left]
\* Mutant: every byte of a packet is at the same address.
FurtherNot(g) == g
Further(g) == [g EXCEPT !.addr = (@ + 1) % WordMod]
Echo ==
  /\ h.state = "ECHO_1" /\ Pop /\ Say(Data) /\ h' = Counted(h) /\ UNCHANGED Stored
\* Mutant: without the dummy cycle, tx_full does not count the byte before.
PacedNot == TRUE
Paced    == h.execute_cnt % 2 = 1
MemRead ==
  /\ h.state = "MEM_RD_1" /\ UNCHANGED <<rx, Stored>>
  /\ IF ~Paced THEN Mute /\ h' = Counted(h)
     ELSE IF TxFull THEN Mute /\ UNCHANGED h
     ELSE /\ Say(At(IF h.unit = "cpu" THEN cpu_mem ELSE ppu_mem, h.addr))
          /\ h' = Counted(Further(IF h.execute_cnt % 2 = 1 THEN h ELSE Counted(h)))
Put(mem, a, b) == IF a \in DOMAIN mem THEN [mem EXCEPT ![a] = b] ELSE mem
MemWrite ==
  /\ h.state = "MEM_WR_1" /\ Pop /\ Mute /\ h' = Counted(Further(h)) /\ UNCHANGED regs
  /\ IF h.unit = "cpu" THEN cpu_mem' = Put(cpu_mem, h.addr, Data) /\ UNCHANGED ppu_mem
                       ELSE ppu_mem' = Put(ppu_mem, h.addr, Data) /\ UNCHANGED cpu_mem

Sel(b) == b % 16       \* rd_data[3:0]
RegRead ==
  /\ h.state = "REG_RD" /\ ~TxFull /\ Pop /\ Say(At(regs, Sel(Data))) /\ h' = Ended
  /\ UNCHANGED Stored
RegWrite ==
  /\ \/ h.state = "REG_WR_0" /\ h' = [To("REG_WR_1") EXCEPT !.addr = Data] /\ UNCHANGED regs
     \/ h.state = "REG_WR_1" /\ h' = Ended /\ regs' = Put(regs, Sel(h.addr), Data)
  /\ Pop /\ Mute /\ UNCHANGED <<cpu_mem, ppu_mem>>
QueryErr ==
  /\ h.state = "QUERY_ERR" /\ ~TxFull /\ Say(IF h.err THEN 2 ELSE 0) /\ h' = Ended
  /\ UNCHANGED <<rx, Stored>>

\* Writes 0 to the two registers that turn the display on, then reads $2002.
PpuDisable ==
  /\ h.state = "PPU_DISABLE" /\ Mute /\ UNCHANGED <<rx, ppu_mem, regs>>
  /\ LET k == h.decode_cnt
     IN /\ h' = IF k = 5 THEN Ended
                ELSE [h EXCEPT !.decode_cnt = k + 1,
                               !.addr = CASE k = 0 -> PpuCtrl [] k = 2 -> PpuMask
                                          [] k = 4 -> PpuMask + 1 [] OTHER -> 0]
        /\ cpu_mem' = IF k \in {1, 3} THEN Put(cpu_mem, h.addr, 0) ELSE cpu_mem
CartSetCfg ==
  /\ \/ h.state = "CART_0" /\ h' = [To("CART_1") EXCEPT !.execute_cnt = 4] /\ UNCHANGED rx
     \/ /\ h.state = "CART_1" /\ Pop
        /\ LET cfg == Append(Tail(h.cfg), Data)
           IN h' = IF h.execute_cnt = 0 THEN [Ended EXCEPT !.cfg = cfg]
                   ELSE [h EXCEPT !.cfg = cfg, !.execute_cnt = @ - 1]
  /\ Mute /\ UNCHANGED Stored
-----------------------------------------------------------------------------
\* Clocks in which nothing happens are left out.
Works ==
  CASE h.state = "MEM_RD_1" -> ~Paced \/ ~TxFull
    [] h.state = "QUERY_ERR" -> ~TxFull
    [] h.state = "REG_RD" -> rx # <<>> /\ ~TxFull
    [] h.state \in {"PPU_DISABLE", "CART_0"} -> TRUE
    [] OTHER -> rx # <<>>
AtRest == wr = <<>> /\ ~Works

\* The transmitter's queue takes q_tx_data.  If its only byte leaves in the same
\* clock, it says that it is empty until the next byte comes.
Latch ==
  \/ /\ tx' = IF TxFull THEN tx ELSE tx \o wr
     /\ hidden' = (hidden /\ wr = <<>>)
     /\ UNCHANGED line
  \/ /\ "stick" \in LinkFaults /\ wr # <<>> /\ Len(tx) = 1 /\ ~hidden
     /\ tx' = wr /\ up' = up \o tx /\ hidden' = TRUE /\ UNCHANGED down
Clock ==
  /\ ~AtRest /\ Latch
  /\ \/ Works /\ \/ Disabled \/ Decode \/ Gather \/ Echo \/ MemRead \/ MemWrite
                 \/ RegRead \/ RegWrite \/ QueryErr \/ PpuDisable \/ CartSetCfg
     \/ ~Works /\ Mute /\ UNCHANGED <<h, rx, Stored>>

\* The program on the NES halts (brk), or turns the display on and moves the PC.
Break ==
  /\ h.state = "DISABLED" /\ AtRest
  /\ h' = Ended /\ UNCHANGED <<wr, rx, tx, hidden, Stored, line>>
CpuRuns ==
  /\ h.state = "DISABLED" /\ AtRest
  /\ cpu_mem' = [cpu_mem EXCEPT ![PpuMask] = 1] /\ regs' = [regs EXCEPT ![0] = 0]
  /\ UNCHANGED <<h, wr, rx, tx, hidden, ppu_mem, line>>

\* A byte ends on the line, one each way.
Tick ==
  /\ AtRest
  /\ LET sends == tx # <<>> /\ ~hidden
     IN /\ sends \/ down # <<>>
        /\ up' = IF sends THEN Append(up, Head(tx)) ELSE up
        /\ tx' = IF sends THEN Tail(tx) ELSE tx
  /\ IF down = <<>> THEN UNCHANGED <<down, rx>>
     ELSE /\ down' = Tail(down)
          /\ rx' = IF Len(rx) < Cells THEN Append(rx, Head(down)) ELSE rx
  /\ UNCHANGED <<h, wr, hidden, Stored>>
Quiet == AtRest /\ down = <<>> /\ (tx = <<>> \/ hidden)

HciTypeOK ==
  /\ h.state \in {"DISABLED", "DECODE", "ECHO_0", "ECHO_1", "MEM_RD_0", "MEM_RD_1", "MEM_WR_0",
                  "MEM_WR_1", "REG_RD", "REG_WR_0", "REG_WR_1", "QUERY_ERR", "PPU_DISABLE",
                  "CART_0", "CART_1"}
  /\ h.unit \in {"cpu", "ppu"} /\ h.decode_cnt \in 0 .. 7 /\ h.err \in BOOLEAN
  /\ h.execute_cnt \in 0 .. 2 * WordMod - 1 /\ h.addr \in 0 .. WordMod - 1
  /\ h.cfg \in [1 .. 5 -> Byte]
  /\ wr \in {<<>>} \union [1 .. 1 -> Byte] /\ Len(rx) <= Cells /\ Len(tx) <= Cells
  /\ hidden => Len(tx) = 1
  /\ cpu_mem \in [CpuSpace -> Byte] /\ ppu_mem \in [PpuSpace -> Byte] /\ regs \in [RegSels -> Byte]
=============================================================================
