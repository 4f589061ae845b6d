------------------------------- MODULE NesInv -------------------------------
(***************************************************************************)
(* What the debugger needs to stay in step with hci.v, as long as nothing  *)
(* has gone wrong (upset = 0): where on the line the packets begin, how    *)
(* far the decoder has got in the one under way, and what it has said.     *)
(***************************************************************************)
EXTENDS NesDbg

\* What hci.v takes for a packet: as many bytes as its opcode and count ask for.
Span(p) ==
  CASE p[1] = OpEcho -> 3 + Number(p, 2)
    [] p[1] \in {OpCpuMemRd, OpPpuMemRd} -> 5
    [] p[1] \in {OpCpuMemWr, OpPpuMemWr} -> 5 + Number(p, 4)
    [] p[1] = OpCpuRegRd -> 2
    [] p[1] = OpCpuRegWr -> 3
    [] p[1] = OpCartSetCfg -> 6
    [] OTHER -> 1
Packets ==
  {p \in Seq(Byte) :
     /\ p # <<>> /\ p[1] \in (0 .. OpCartSetCfg) \ {OpQueryErrCode}
     /\ p[1] = OpEcho => Len(p) > 2
     /\ p[1] \in {OpCpuMemWr, OpPpuMemWr} => Len(p) > 4
     /\ Len(p) = Span(p)}

\* What is sent has a length of two bytes, a program has the two of its
\* address, and a file a header and the data that this announces.  A text has the
\* bytes that it says, since the factory reads past its buffer otherwise.
Chunks == {d \in Seq(Byte) : Len(d) < WordMod}
ASSUME HostAssumption ==
  /\ InitString \in Chunks /\ Strings \subseteq Chunks
  /\ Addrs \subseteq Nat /\ Counts \subseteq Nat /\ Sels \subseteq Byte
  /\ \A f \in Programs : f \in Seq(Byte) /\ Len(f) \in 2 .. WordMod + 1
  /\ \A t \in Texts : CreateObjFromString(t) \in Packets \union {<<>>}
  /\ Block \in 1 .. WordMod - 1 /\ RomBase \in Nat /\ PrgBank \in Nat /\ ChrBank \in Nat
  /\ \A f \in Roms : /\ f \in Seq(Byte) /\ Len(f) >= 16
                     /\ Accepts(f) => Len(f) >= 16 + PrgSize(f) + ChrSize(f)

\* A packet that has an answer.
Asks(p) == ReturnBytesExpected(p) > 0
Asked   == waiting /\ Asks(Head(todo))

\* The program: it sends packets, and does not when it is off.
Sending ==
  /\ todo \in Seq(Packets) /\ waiting \in BOOLEAN /\ running \in BOOLEAN /\ upset \in Nat
  /\ waiting => todo # <<>>
  /\ mode = "off" => todo = <<>>
  /\ mode = "init" => todo = <<EchoPacket(InitString)>>

\* The bytes on their way to the decoder, and those it has answered.
Stream == rx \o down
Said   == up \o (tx \o wr)
From(p, i) == SubSeq(p, i, Len(p))

\* The decoder in a packet p of which r is still to come: it gathers address
\* and count,
Gathering(p, r) ==
  LET c == h.decode_cnt IN
  \/ /\ h.state = "ECHO_0" /\ p[1] = OpEcho /\ c \in 0 .. 1
     /\ c = 1 => h.execute_cnt = p[2]
     /\ r = From(p, 2 + c)
  \/ /\ \/ h.state = "MEM_RD_0" /\ p[1] \in {OpCpuMemRd, OpPpuMemRd}
           /\ h.unit = IF p[1] = OpPpuMemRd THEN "ppu" ELSE "cpu"
        \/ h.state = "MEM_WR_0" /\ p[1] \in {OpCpuMemWr, OpPpuMemWr}
     /\ c \in 0 .. 3
     /\ c = 1 => h.addr = p[2]
     /\ c > 1 => h.addr = Number(p, 2)
     /\ c = 3 => h.execute_cnt = p[4]
     /\ r = From(p, 2 + c)
\* or does what it has no answer to,
Doing(p, r) ==
  LET n == h.execute_cnt IN
  \/ /\ h.state = "MEM_WR_1" /\ p[1] \in {OpCpuMemWr, OpPpuMemWr}
     /\ n \in 1 .. Len(p) - 5 /\ r = From(p, Len(p) - n + 1)
  \/ h.state = "REG_WR_0" /\ p[1] = OpCpuRegWr /\ r = From(p, 2)
  \/ h.state = "REG_WR_1" /\ p[1] = OpCpuRegWr /\ r = From(p, 3)
  \/ h.state = "PPU_DISABLE" /\ p[1] = OpPpuDisable /\ r = <<>> /\ h.decode_cnt \in 0 .. 5
  \/ h.state = "CART_0" /\ p[1] = OpCartSetCfg /\ r = From(p, 2)
  \/ h.state = "CART_1" /\ p[1] = OpCartSetCfg /\ n \in 0 .. 4 /\ r = From(p, 6 - n)
\* or answers: m bytes are still to be said.
Answering(p, r) ==
  \/ /\ h.state = "ECHO_1" /\ p[1] = OpEcho
     /\ h.execute_cnt \in 1 .. Len(p) - 3 /\ r = From(p, Len(p) - h.execute_cnt + 1)
     /\ Said = SubSeq(Answer(p), 1, Len(p) - 3 - h.execute_cnt)
  \/ /\ h.state = "MEM_RD_1" /\ p[1] \in {OpCpuMemRd, OpPpuMemRd} /\ r = <<>>
     /\ h.unit = IF p[1] = OpPpuMemRd THEN "ppu" ELSE "cpu"
     /\ \E m \in 1 .. Number(p, 4) :
          /\ h.execute_cnt = 2 * m \/ (h.execute_cnt = 2 * m - 1 /\ wr = <<>>)
          /\ h.addr = (Number(p, 2) + Number(p, 4) - m) % WordMod
          /\ Said = SubSeq(Answer(p), 1, Number(p, 4) - m)
  \/ h.state = "REG_RD" /\ p[1] = OpCpuRegRd /\ r = From(p, 2) /\ Said = <<>>

Between == h.state \in {"DECODE", "DISABLED"}
Busy(r) == \/ Between /\ r = <<>>
           \/ \E p \in Packets : ~Asks(p) /\ (Gathering(p, r) \/ Doing(p, r))

\* Packets without an answer follow one another on the line.  While the
\* processor runs (off) there is none but the one that halts it.
Way(G) ==
  \A x \in G :
    /\ x.bytes \in Seq(Byte) /\ x.off \in BOOLEAN
    /\ \/ x.bytes = <<>> /\ (x.off => running)
       \/ \E p \in Packets : \E y \in G :
            /\ ~Asks(p) /\ x.bytes = p \o y.bytes
            /\ x.off => p = DbgHltPacket
            /\ p = DbgRunPacket => y.off
Follow(t, d) == \E G : Way(G) /\ \E x \in G : x.bytes = t /\ x.off = d

\* Where the two stand: nothing is asked,
Silent(r, t) == ~Asked /\ Said = <<>> /\ Stream = r \o t /\ Busy(r)
\* the question is still to come,
Coming(r, t) == /\ Asked /\ Said = <<>> /\ Stream = r \o (t \o Head(todo)) /\ Busy(r)
                /\ running => Head(todo) = QueryHltPacket
\* it is being answered,
Telling == /\ Asked
           /\ \/ Said = <<>> /\ Gathering(Head(todo), Stream)
              \/ Answering(Head(todo), Stream)
\* or has been.
Told == /\ Asked /\ Stream = <<>>
        /\ \/ h.state = "DECODE" /\ Said = Answer(Head(todo))
           \/ Between /\ Head(todo) = QueryHltPacket /\ Said = <<0>>
Link ==
  \E t \in Seq(Byte), d \in BOOLEAN :
    /\ Follow(t, d) /\ (h.state = "DISABLED" => d)
    /\ \/ \E r \in Seq(Byte) : Silent(r, t) \/ Coming(r, t)
       \/ t = <<>> /\ (Telling \/ Told)

\* The queues never overflow.
Room ==
  /\ Len(rx) <= 1 /\ Len(tx) <= Cells /\ (wr # <<>> => Len(tx) < Cells)
  /\ h.state = "ECHO_1" => Len(rx) + Len(tx) + Len(wr) <= 1

Fields == {"state", "unit", "decode_cnt", "execute_cnt", "addr", "err", "cfg"}
Board ==
  /\ h = [f \in Fields |-> h[f]]
  /\ rx \in Seq(Byte) /\ down \in Seq(Byte)
  /\ tx \in Seq(Byte) /\ up \in Seq(Byte) /\ wr \in Seq(Byte) /\ Len(wr) <= 1
  /\ cpu_mem \in [CpuSpace -> Byte] /\ ppu_mem \in [PpuSpace -> Byte] /\ regs \in [RegSels -> Byte]

SInv == Sending /\ (upset = 0 => ~hidden /\ Board /\ Room /\ Link)
=============================================================================
