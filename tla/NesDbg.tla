------------------------------- MODULE NesDbg -------------------------------
(***************************************************************************)
(* The debugger of the NES: one thread that sends packets over the serial  *)
(* line, waits for the bytes each one gives back, up to a time limit, and  *)
(* goes on with what it got.  nesdbg.cpp, serialcomm.cpp, dbgpacket.cpp,   *)
(* scriptmgr.cpp, scriptmgrdlg.cpp and main.cpp, composed with Hci.        *)
(***************************************************************************)
EXTENDS Hci

CONSTANTS
  InitString,            \* "NES" and its final 0
  Strings, Addrs, Counts, Sels, \* what the test scripts send, and ask for
  Programs,              \* the .prg files, each of two bytes or more
  Roms,                  \* the files that may be given to LoadRom
  Texts,                 \* what may be typed in the raw dialog: digits, Space and Other
  PrgBank, ChrBank,      \* 0x4000, 0x2000
  Block, RomBase,        \* transferBlockSize, 0x8000
  MaxDown,               \* bytes the port still holds when WriteFile takes more, at most
  MaxScripts,            \* bound: scripts selected in the dialog
  Builds,                \* a subset of {"debug", "release"}
  HostFaults,            \* a subset of {"late", "cut"}; bound: one of them until power is cycled
  MaxUpset               \* bound: operations begun when something had gone wrong, plus 1

VARIABLES
  mode,     \* "off", "init", "menu", "raw", "tests" or "script"
  todo,     \* the packets of the operation that are not done with
  waiting,  \* in ReceiveData, for the answer to the first of them
  polled,   \* WaitForHlt has received a 0
  left,     \* scripts that have not ended
  rom,      \* the file of a LoadRom that has not sent it yet
  running,  \* history: OP_DBG_RUN was sent, and no halt since sent or seen,
  upset,    \* and 0 until a packet was cut or sent to a running NES or an answer fell short
  runs      \* history: for each OP_DBG_RUN on its way, the ROM it is to start, or <<>>

host == <<mode, todo, waiting, polled, left, rom, running, upset, runs>>
vars == <<nes, line, host>>
-----------------------------------------------------------------------------
\* The packets; numbers are little-endian USHORTs.
Word(n)                == <<n % ByteMod, (n \div ByteMod) % ByteMod>>
Number(p, i)           == p[i] + p[i + 1] * ByteMod
EchoPacket(d)          == <<OpEcho>> \o Word(Len(d)) \o d
CpuMemRdPacket(a, n)   == <<OpCpuMemRd>> \o Word(a) \o Word(n)
CpuMemWrPacket(a, d)   == <<OpCpuMemWr>> \o Word(a) \o Word(Len(d)) \o d
PpuMemRdPacket(a, n)   == <<OpPpuMemRd>> \o Word(a) \o Word(n)
PpuMemWrPacket(a, d)   == <<OpPpuMemWr>> \o Word(a) \o Word(Len(d)) \o d
DbgHltPacket           == <<OpDbgHlt>>
DbgRunPacket           == <<OpDbgRun>>
CpuRegRdPacket(r)      == <<OpCpuRegRd, r>>
CpuRegWrPacket(r, b)   == <<OpCpuRegWr, r, b>>
QueryHltPacket         == <<OpQueryHlt>>
PpuDisablePacket       == <<OpPpuDisable>>
\* bytes 4 to 8 of the header of a ROM file
CartSetCfgPacket(f)    == <<OpCartSetCfg>> \o SubSeq(f, 5, 9)

Reads == {OpEcho, OpCpuMemRd, OpPpuMemRd, OpCpuRegRd, OpQueryHlt}
ReturnBytesExpected(p) ==
  CASE p[1] = OpEcho -> Number(p, 2)
    [] p[1] \in {OpCpuMemRd, OpPpuMemRd} -> Number(p, 4)
    [] p[1] \in {OpCpuRegRd, OpQueryHlt} -> 1
    [] OTHER -> 0

\* CreateObjFromString; <<>> is NULL.
Space == 16
Other == 17
CreateObjFromString(text) ==
  LET nibbles == SelectSeq(text, LAMBDA c : c # Space)
      b == [i \in 1 .. Len(nibbles) \div 2 |-> nibbles[2 * i - 1] * 16 + nibbles[2 * i]]
  IN CASE Other \in {text[i] : i \in DOMAIN text} \/ Len(nibbles) % 2 = 1 -> <<>>
       [] b[1] = OpEcho -> EchoPacket(SubSeq(b, 4, 3 + Number(b, 2)))
       [] b[1] = OpCpuMemRd -> CpuMemRdPacket(Number(b, 2), Number(b, 4))
       [] b[1] = OpCpuMemWr -> CpuMemWrPacket(Number(b, 2), SubSeq(b, 6, 5 + Number(b, 4)))
       [] OTHER -> <<>>

\* LoadRom: what it accepts, and the packets it sends for a file f, which are
\* the reset vector's two bytes and DbgRun after all the data.
Accepts(f) ==
  /\ SubSeq(f, 1, 4) = <<78, 69, 83, 26>> /\ f[5] <= 2 /\ f[6] <= 1
  /\ (f[7] \div 8) % 2 = 0 /\ f[7] \div 16 = 0 /\ f[8] \div 16 = 0
PrgSize(f) == f[5] * PrgBank
ChrSize(f) == f[6] * ChrBank
Piece(f, offset, i) == SubSeq(f, 17 + offset + Block * i, 16 + offset + Block * (i + 1))
PrgPackets(f) ==
  [i \in 1 .. PrgSize(f) \div Block |->
     CpuMemWrPacket(RomBase + Block * (i - 1), Piece(f, 0, i - 1))]
\* Mutant: the pieces of CHR ROM are taken from the start of the file's data.
ChrPacketsLow(f) ==
  [i \in 1 .. ChrSize(f) \div Block |-> PpuMemWrPacket(Block * (i - 1), Piece(f, 0, i - 1))]
ChrPackets(f) ==
  [i \in 1 .. ChrSize(f) \div Block |->
     PpuMemWrPacket(Block * (i - 1), Piece(f, PrgSize(f), i - 1))]
RomPackets(f) ==
  <<DbgHltPacket, PpuDisablePacket, CartSetCfgPacket(f)>> \o PrgPackets(f) \o ChrPackets(f)
  \o <<CpuRegWrPacket(0, f[13 + PrgSize(f)]), CpuRegWrPacket(1, f[14 + PrgSize(f)]), DbgRunPacket>>
-----------------------------------------------------------------------------
\* An operation begins: its packets are to be sent.
Worse == IF upset = 0 THEN 1 ELSE upset
Idle  == todo = <<>>
Issue(packets) ==
  /\ Idle /\ upset < MaxUpset
  /\ todo' = packets /\ upset' = IF upset = 0 THEN 0 ELSE upset + 1
  /\ UNCHANGED <<waiting, polled, running, runs>>

\* WinMain, NesDbg::Init and SerialComm::Init up to the echo; the port is empty.
Start ==
  /\ mode = "off" /\ mode' = "init" /\ Issue(<<EchoPacket(InitString)>>)
  /\ up' = <<>> /\ UNCHANGED <<down, nes, left, rom>>
Open(from, to) ==
  /\ Idle /\ mode = from /\ mode' = to
  /\ UNCHANGED <<nes, line, todo, waiting, polled, left, rom, running, upset, runs>>
Exit         == Open("menu", "off")
Dialogs      == \/ Open("menu", "raw") \/ Open("raw", "menu")
                \/ Open("menu", "tests") \/ Open("tests", "menu")
LoadRom ==
  /\ mode = "menu" /\ \E f \in Roms : Accepts(f) /\ rom' = f /\ Issue(RomPackets(f))
  /\ UNCHANGED <<nes, line, mode, left>>
RawDbgSend ==
  /\ mode = "raw"
  /\ \E t \in Texts : CreateObjFromString(t) # <<>> /\ Issue(<<CreateObjFromString(t)>>)
  /\ UNCHANGED <<nes, line, mode, left, rom>>
TestScriptDlgRun ==
  /\ Idle /\ mode = "tests" /\ mode' = "script" /\ left' \in 1 .. MaxScripts
  /\ UNCHANGED <<nes, line, todo, waiting, polled, rom, running, upset, runs>>
ScriptEnds ==
  /\ Idle /\ mode = "script"
  /\ left' = left - 1 /\ mode' = IF left = 1 THEN "tests" ELSE "script"
  /\ UNCHANGED <<nes, line, todo, waiting, polled, rom, running, upset, runs>>

\* The calls of a script
Call(p) == mode = "script" /\ Issue(<<p>>) /\ UNCHANGED <<nes, line, mode, left, rom>>
LuaEcho       == \E d \in Strings : Call(EchoPacket(d))
LuaCpuMemRd   == \E a \in Addrs, n \in Counts : Call(CpuMemRdPacket(a, n))
LuaCpuMemWr   == \E a \in Addrs, d \in Strings : Call(CpuMemWrPacket(a, d))
LuaPpuMemRd   == \E a \in Addrs, n \in Counts : Call(PpuMemRdPacket(a, n))
LuaPpuMemWr   == \E a \in Addrs, d \in Strings : Call(PpuMemWrPacket(a, d))
LuaCpuRegRd   == \E r \in Sels : Call(CpuRegRdPacket(r))
LuaCpuRegWr   == \E r \in Sels, d \in Strings : d # <<>> /\ Call(CpuRegWrPacket(r, Head(d)))
LuaDbgHlt     == Call(DbgHltPacket)
LuaDbgRun     == Call(DbgRunPacket)
LuaWaitForHlt == Call(QueryHltPacket)
LuaLoadAsm    == \E f \in Programs : Call(CpuMemWrPacket(Number(f, 1), SubSeq(f, 3, Len(f))))
-----------------------------------------------------------------------------
\* A failed assert ends the debug build.
Crash == mode' = "off" /\ todo' = <<>> /\ waiting' = FALSE /\ polled' = FALSE /\ left' = 0

\* WriteFile takes less than it is given.  Bound: all of a packet to a halted NES,
\* or some of the last of an operation; else a count made of other bytes follows.
Taken(p) ==
  {Len(p)} \union (IF upset # 0 \/ "cut" \notin HostFaults THEN {}
                   ELSE IF Len(todo) = 1 THEN 0 .. Len(p) ELSE IF running THEN {} ELSE {0})

\* Packets that a running NES does not understand
Strays(p) == running /\ p \notin {DbgHltPacket, QueryHltPacket}
Done == todo' = Tail(todo) /\ waiting' = FALSE /\ polled' = FALSE
SendData ==
  /\ todo # <<>> /\ ~waiting /\ Len(down) <= MaxDown
  /\ LET p == Head(todo)
     IN \E n \in Taken(p) :
          /\ down' = down \o SubSeq(p, 1, n)
          /\ upset' = IF n < Len(p) \/ Strays(p) THEN Worse ELSE upset
          /\ running' = IF p = DbgRunPacket THEN TRUE ELSE running /\ p # DbgHltPacket
          /\ runs' = IF upset' # 0 THEN <<>>
                     ELSE IF p # DbgRunPacket THEN runs
                     ELSE Append(runs, IF mode = "menu" THEN rom ELSE <<>>)
          /\ rom' = IF p = DbgRunPacket THEN <<>> ELSE rom
          /\ \E build \in Builds :
               IF build = "debug" /\ n < Len(p) THEN Crash
               ELSE /\ IF p[1] \in Reads \/ mode = "raw"
                       THEN waiting' = TRUE /\ UNCHANGED <<todo, polled>> ELSE Done
                    /\ UNCHANGED <<mode, left>>
  /\ UNCHANGED <<nes, up>>

\* What the program does with the answer, data, of which the rest is whatever
\* the buffer held: what the last poll received, or garbage.
\* Mutant: the loop ends whatever the answer.
AgainNever(byte) == FALSE
Again(byte) == byte = 0
Handle(data, full) ==
  CASE mode = "init" ->
         /\ mode' \in IF full THEN {IF data = InitString THEN "menu" ELSE "off"} ELSE {"menu", "off"}
         /\ Done /\ UNCHANGED running
    [] Head(todo) = QueryHltPacket ->
         /\ \E byte \in IF full THEN {data[1]} ELSE IF polled THEN {0} ELSE {0, 1} :
              IF Again(byte) THEN waiting' = FALSE /\ polled' = TRUE /\ UNCHANGED <<todo, running>>
              ELSE Done /\ running' = FALSE
         /\ UNCHANGED mode
    [] OTHER -> Done /\ UNCHANGED <<mode, running>>

\* Mutant: the serial port has no time limit.
ExpiredNever == FALSE
\* The time limit is long: it runs out when nothing more comes, or if the answer
\* is late.
Expired == Quiet \/ (upset = 0 /\ "late" \in HostFaults)
ReceiveData ==
  /\ waiting
  /\ LET n == ReturnBytesExpected(Head(todo))
         got == IF Len(up) < n THEN Len(up) ELSE n
         full == got = n
     IN /\ full \/ Expired
        /\ up' = SubSeq(up, got + 1, Len(up))
        /\ upset' = IF full THEN upset ELSE Worse
        /\ runs' = IF upset' # 0 THEN <<>> ELSE runs
        /\ \E build \in Builds :
             IF build = "debug" /\ ~full THEN Crash /\ UNCHANGED running
             ELSE Handle(SubSeq(up, 1, got), full) /\ UNCHANGED left
  /\ UNCHANGED <<down, nes, rom>>

\* The NES; a byte that sticks in its transmitter makes an answer fall short.
Runs == h.state = "DECODE" /\ h'.state = "DISABLED"
NesClock ==
  /\ Clock
  /\ upset' = IF hidden' THEN Worse ELSE upset
  /\ runs' = IF upset' # 0 THEN <<>> ELSE IF Runs THEN Tail(runs) ELSE runs
  /\ UNCHANGED <<mode, todo, waiting, polled, left, rom, running>>
NesElse == (Tick \/ Break \/ CpuRuns) /\ UNCHANGED host
\* The board is configured anew.
PowerCycle ==
  /\ mode = "off" /\ upset # 0 /\ h' = HciReset /\ wr' = <<>> /\ rx' = <<>> /\ tx' = <<>>
  /\ hidden' = FALSE /\ down' = <<>> /\ up' = <<>> /\ upset' = 0 /\ running' = FALSE
  /\ cpu_mem' = [a \in CpuSpace |-> 0] /\ ppu_mem' = [a \in PpuSpace |-> 0]
  /\ regs' = [r \in RegSels |-> 0] /\ rom' = <<>>
  /\ UNCHANGED <<mode, todo, waiting, polled, left, runs>>

Init ==
  /\ HciInit /\ mode = "off" /\ todo = <<>> /\ waiting = FALSE /\ polled = FALSE /\ left = 0
  /\ rom = <<>> /\ running = FALSE /\ upset = 0 /\ runs = <<>>
Program == \/ Start \/ Exit \/ Dialogs \/ LoadRom \/ RawDbgSend \/ TestScriptDlgRun \/ ScriptEnds
           \/ LuaEcho \/ LuaCpuMemRd \/ LuaCpuMemWr \/ LuaPpuMemRd \/ LuaPpuMemWr \/ LuaCpuRegRd
           \/ LuaCpuRegWr \/ LuaDbgHlt \/ LuaDbgRun \/ LuaWaitForHlt \/ LuaLoadAsm
           \/ SendData \/ ReceiveData
Next == Program \/ NesClock \/ NesElse \/ PowerCycle
\* The program does not stay in a call that can go on, the clocks run, and the
\* program on the NES comes to its end.
Spec == /\ Init /\ [][Next]_vars /\ WF_vars(SendData) /\ WF_vars(ReceiveData) /\ WF_vars(NesClock)
        /\ WF_vars(Tick /\ UNCHANGED host) /\ SF_vars(Break /\ UNCHANGED host)
-----------------------------------------------------------------------------
TypeOK ==
  /\ HciTypeOK /\ mode \in {"off", "init", "menu", "raw", "tests", "script"}
  /\ waiting \in BOOLEAN /\ polled \in BOOLEAN /\ waiting => todo # <<>>
  /\ left \in 0 .. MaxScripts /\ upset \in 0 .. MaxUpset /\ Len(runs) <= 2

\* What the NES holds that a packet asks for
Answer(p) ==
  LET mem == IF p[1] = OpPpuMemRd THEN ppu_mem ELSE cpu_mem
  IN CASE p[1] = OpEcho -> SubSeq(p, 4, Len(p))
       [] p[1] \in {OpCpuMemRd, OpPpuMemRd} -> [i \in 1 .. Number(p, 4) |-> At(mem, (Number(p, 2) + i - 1) % WordMod)]
       [] p[1] = OpCpuRegRd -> <<At(regs, Sel(p[2]))>>
       [] OTHER -> <<1>>

\* Nothing arrives at the PC but the answer it waits for, and that is what the
\* NES holds; the answer 1 to a query comes from a NES that is halted.  The answer
\* falls short only after one of the things that upset says: no queue overflows,
\* though nothing but the wait for answers keeps the program from sending.
Arrived(p) ==
  \/ up = SubSeq(Answer(p), 1, Len(up)) /\ (p = QueryHltPacket => Active)
  \/ p = QueryHltPacket /\ up = <<0>>
InStep ==
  upset = 0 =>
    /\ up # <<>> => waiting /\ Len(up) <= ReturnBytesExpected(Head(todo)) /\ Arrived(Head(todo))
    /\ waiting /\ Quiet => Len(up) = ReturnBytesExpected(Head(todo))

\* WaitForHlt returns to a script when the NES is halted.
HaltSeen ==
  [][upset' = 0 /\ Head(todo \o <<<<>>>>) = QueryHltPacket /\ todo' = <<>> => Active]_vars

\* The ROM that LoadRom starts is in place as a whole, with its reset vector, its
\* configuration and the display off, whatever ran before and came between.
InPlace(f) ==
  /\ \A i \in 0 .. PrgSize(f) - 1 : At(cpu_mem, RomBase + i) = f[17 + i]
  /\ \A i \in 0 .. ChrSize(f) - 1 : At(ppu_mem, i) = f[17 + PrgSize(f) + i]
  /\ regs[0] = f[13 + PrgSize(f)] /\ regs[1] = f[14 + PrgSize(f)] /\ h.cfg = SubSeq(f, 5, 9)
  /\ cpu_mem[PpuCtrl] = 0 /\ cpu_mem[PpuMask] = 0
RomRuns ==
  [][upset = 0 /\ Runs /\ Head(runs) # <<>> => InPlace(Head(runs))]_vars

\* Every operation comes to its end, answered or not.
CallsReturn == (todo # <<>>) ~> (todo = <<>>)
=============================================================================
