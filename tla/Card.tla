-------------------------------- MODULE Card --------------------------------
(***************************************************************************)
(* mmc.c, the driver of the SD card, with the two 100 Hz timers it races   *)
(* and the card behind it.  Bytes are modelled where a loop waits for one  *)
(* (the card gets ready, a token comes); a command packet with its answer  *)
(* and a block of data are a step each.                                    *)
(***************************************************************************)
EXTENDS Naturals, Sequences, FiniteSets

CONSTANTS
  Cards, NoCard,
  Kind,       \* of each card: "MMC", "SDv1", "SDv2" or "SDHC"
  NBlocks,    \* the blocks of a card are 0 .. NBlocks - 1
  BlockLen,   \* bytes in a block: 512
  AddrMod,    \* 2^32
  Calls,      \* what is called: [op], [op, sector, count] or [op, ctrl]
  WaitTime,   \* wait_ready: 50 ticks
  TokenTime,  \* rcvr_datablock: 10 ticks
  InitTime,   \* disk_initialize: 100 ticks
  Faults      \* a subset of {"swap", "bad"}

\* The controls that disk_ioctl knows.
Controls == {"POWER_OFF", "CTRL_SYNC", "GET_SECTOR_SIZE", "MMC_GET_TYPE", "GET_SECTOR_COUNT",
             "MMC_GET_CSD", "MMC_GET_CID", "MMC_GET_OCR", "MMC_GET_SDSTAT", "GET_BLOCK_SIZE"}
ASSUME CallsAssumption ==
  \A c \in Calls :
    /\ c.op = "ioctl" => c.ctrl \in Controls
    /\ c.op \in {"read", "write"} => c.sector \in Nat /\ c.count \in Nat \ {0}
ASSUME BlocksAssumption == BlockLen \in Nat \ {0} /\ AddrMod \in Nat
\* A card has a block, and one addressed by bytes has no more of them than
\* its address tells apart.
ASSUME SizeAssumption ==
  /\ NoCard \notin Cards /\ NBlocks \in Nat \ {0}
  /\ (\E c \in Cards : Kind[c] # "SDHC") => NBlocks * BlockLen <= AddrMod

\* A card must have a tick to answer in, and the turn of the loop that is
\* under way then another.
ASSUME TimesAssumption ==
  /\ WaitTime \in Nat /\ TokenTime \in Nat /\ InitTime \in Nat
  /\ WaitTime >= 2 /\ TokenTime >= 2 /\ InitTime >= 3

VARIABLES
  slot,      \* the card in the slot,
  bad,       \* whether it may fail,
  cd,        \* its state
  noinit,    \* Stat & STA_NOINIT
  CardType,
  call,      \* the call under way, or the last one, and its answer
  answer,
  wk,        \* where it is, and its locals
  buffer,    \* buff: of which card, and which, each block is
  stored,    \* what the call has stored: in which card, in which block, which
  timer,     \* Timer1 and Timer2,
  fresh,     \* and those that have not ticked in this turn of the loop
  past       \* history: the card at the start of the call, whether it was
             \* there and worked throughout, and whether it was pulled in the
             \* middle of a block

card == <<slot, bad, cd>>
data == <<buffer, stored>>
vars == <<card, noinit, CardType, call, answer, wk, data, timer, fresh, past>>

-----------------------------------------------------------------------------
\* The card.  Put in, it is in its native mode and hears CMD0 alone.
Asleep == [mode |-> "native", op |-> "none", addr |-> 0, busy |-> FALSE, token |-> "none"]
Stirred(mode) == [Asleep EXCEPT !.mode = mode]
Good == slot # NoCard /\ ~bad
Block(addr) == IF Kind[slot] = "SDHC" THEN addr ELSE addr \div BlockLen
OnCard(addr) == /\ Kind[slot] = "SDHC" \/ addr % BlockLen = 0
                /\ Block(addr) < NBlocks
Starts(cmd) == CASE cmd = "CMD17" -> "read" [] cmd = "CMD18" -> "reads"
                 [] cmd = "CMD24" -> "write" [] cmd = "CMD25" -> "writes"
                 [] cmd \in {"CMD9", "CMD10", "CMD13"} -> "register"

\* What a card answers that works: its R1, and what becomes of it.
Torn == <<NoCard, 0>>
Hcs == 1  \* bit 30 of the argument: the host knows cards addressed by blocks
Yes(r, c) == [r |-> r, cd |-> c]
R1 == IF cd.mode = "idle" THEN "idle" ELSE "ready"
Ordinary(cmd, arg) ==
  LET still == [cd EXCEPT !.op = "none", !.token = "none"]
      hears == arg = Hcs \/ Kind[slot] # "SDHC"
  IN CASE cmd = "CMD8"  -> {Yes(IF Kind[slot] \in {"SDv2", "SDHC"} THEN R1 ELSE "error", still)}
       [] cmd = "CMD55" -> {Yes(IF Kind[slot] = "MMC" THEN "error" ELSE R1, still)}
       [] cmd \in {"CMD41", "CMD1"} ->
            (IF R1 = "ready" \/ hears
             THEN {Yes("ready", [still EXCEPT !.mode = "ready"])} ELSE {})
              \union (IF R1 = "idle" /\ (timer[1] = InitTime \/ ~hears)
                      THEN {Yes("idle", still)} ELSE {})
       [] cmd \in {"CMD17", "CMD18", "CMD24", "CMD25", "CMD9", "CMD10", "CMD13"} ->
            IF R1 = "ready" /\ OnCard(arg)
            THEN {Yes("ready", [still EXCEPT !.op = Starts(cmd), !.addr = arg])}
            ELSE {Yes("error", still)}
       [] cmd \in {"CMD16", "CMD23", "CMD58"} -> {Yes(R1, still)}
       [] OTHER -> {Yes("error", still)}
Proper(cmd, arg) ==
  CASE cmd = "CMD0"       -> {Yes("idle", Stirred("idle"))}
    [] cmd # "CMD0" /\ (cd.mode = "native" \/ cd.op = "writes" \/ (cd.op = "reads" /\ cmd # "CMD12"))
                          -> {Yes("error", cd)}
    [] cmd = "CMD12" /\ cd.op = "reads"
                          -> {Yes("ready", [cd EXCEPT !.op = "none", !.token = "none", !.busy = b]) :
                                b \in BOOLEAN}
    [] OTHER              -> Ordinary(cmd, arg)
Answers(cmd, arg) ==
  (IF slot # NoCard THEN Proper(cmd, arg) ELSE {})
    \union (IF Good THEN {} ELSE {Yes("error", cd)})

\* By itself the card gets ready, and finds the block to be read.
Sending == cd.op \in {"read", "reads", "register"}
Unbusy  == cd.busy /\ cd' = [cd EXCEPT !.busy = FALSE]
Prepare == /\ Sending /\ cd.token = "none" /\ slot # NoCard
           /\ \/ OnCard(cd.addr) /\ cd' = [cd EXCEPT !.token = "data"]
              \/ (~OnCard(cd.addr) \/ bad) /\ cd' = [cd EXCEPT !.token = "error"]
CardWorks ==
  /\ Unbusy \/ Prepare
  /\ UNCHANGED <<slot, bad, noinit, CardType, call, answer, wk, data, timer, fresh, past>>
Pulled == /\ slot' = NoCard /\ cd' = Asleep
          /\ past' = [past EXCEPT !.sound = FALSE]
Swap ==
  /\ "swap" \in Faults
  /\ \/ slot # NoCard /\ Pulled
     \/ slot = NoCard /\ slot' \in Cards /\ UNCHANGED <<cd, past>>
  /\ UNCHANGED <<bad, noinit, CardType, call, answer, wk, data, timer, fresh>>
Wobble ==
  /\ "bad" \in Faults /\ bad' = ~bad /\ past' = [past EXCEPT !.sound = FALSE]
  /\ UNCHANGED <<slot, cd, noinit, CardType, call, answer, wk, data, timer, fresh>>

-----------------------------------------------------------------------------
At(place) == wk.at = place
Step(s)   == At("REPLIED") /\ wk.step = s

\* A timer counts down while a loop watches it, at most once a turn, and a card
\* that works does not keep the driver waiting for longer than its first tick.
Watched(i) == \/ i = 2 /\ wk.at \in {"WAIT", "TEST"}
              \/ i = 1 /\ (wk.at \in {"TOKEN", "TOKENTEST"}
                           \/ (call.op = "init" /\ wk.step \notin {"GO_IDLE", "OFF"} /\ ~At("REST")))
Tick(i) ==
  /\ Watched(i) /\ timer[i] > 0 /\ i \in fresh
  /\ Good => /\ i = 2 => ~cd.busy
             /\ wk.at \in {"TOKEN", "TOKENTEST"} => cd.op = "none" \/ cd.token # "none"
  /\ timer' = [timer EXCEPT ![i] = @ - 1] /\ fresh' = fresh \ {i}
  /\ UNCHANGED <<card, noinit, CardType, call, answer, wk, data, past>>
Set(i, n) == timer' = [timer EXCEPT ![i] = n] /\ fresh' = fresh \union {i}

\* wait_ready, and what follows it
Wait(w) == wk' = [w EXCEPT !.at = "WAIT"] /\ Set(2, WaitTime)
ReadByte ==
  /\ At("WAIT")
  /\ \E ff \in IF cd.busy THEN {FALSE}
               ELSE IF Sending /\ timer[2] = WaitTime THEN BOOLEAN ELSE {TRUE} :
       wk' = [wk EXCEPT !.at = "TEST", !.ff = ff]
  /\ UNCHANGED <<card, noinit, CardType, call, answer, data, timer, fresh, past>>
\* Mutant: the timer decides.
ReadyByTimer == timer[2] > 0
Ready        == wk.ff
Test ==
  /\ At("TEST")
  /\ IF ~wk.ff /\ timer[2] > 0 THEN wk' = [wk EXCEPT !.at = "WAIT"] /\ fresh' = fresh \union {2}
     ELSE /\ wk' = [wk EXCEPT !.at = CASE wk.cmds # <<>> -> IF Ready THEN "SEND" ELSE "REPLIED"
                                       [] wk.cmds = <<>> -> wk.step,
                              !.r = IF wk.cmds = <<>> /\ Ready THEN "ready" ELSE "error"]
          /\ UNCHANGED fresh
  /\ UNCHANGED <<card, noinit, CardType, call, answer, data, timer, past>>

\* send_cmd
Packet(step, cmds, arg) ==
  [wk EXCEPT !.at = "WAIT", !.step = step, !.cmds = cmds, !.arg = arg]
Command(step, cmds, arg) == Wait(Packet(step, cmds, arg))
Exchange ==
  /\ At("SEND")
  /\ \E a \in Answers(Head(wk.cmds), wk.arg) :
       /\ cd' = a.cd
       /\ IF Len(wk.cmds) > 1 /\ a.r # "error"
          THEN Wait([wk EXCEPT !.cmds = Tail(@)])
          ELSE wk' = [wk EXCEPT !.at = "REPLIED", !.r = a.r] /\ UNCHANGED <<timer, fresh>>
  /\ UNCHANGED <<slot, bad, noinit, CardType, call, answer, data, past>>

-----------------------------------------------------------------------------
\* A call ends; what its locals held is gone, and no loop watches a timer it
\* has not set.
Resting == [at |-> "REST", step |-> "", cmds |-> <<>>, arg |-> 0, ff |-> FALSE, r |-> "",
            left |-> 0, ty |-> 0]
Return(a) == wk' = Resting /\ answer' = a /\ timer' = <<0, 0>> /\ fresh' = {1, 2}
Begin(c, a) ==
  /\ call' = c /\ answer' = a /\ buffer' = <<>> /\ stored' = {}
  /\ past' = [card |-> slot, sound |-> Good, torn |-> FALSE, closed |-> cd.op \notin {"reads", "writes"}]
  /\ UNCHANGED <<card, noinit, CardType>>

\* disk_poll
Poll ==
  /\ At("REST") /\ [op |-> "poll"] \in Calls
  /\ Begin([op |-> "poll"], "NONE") /\ Command("POLL", <<"CMD58">>, 0)
Polled ==
  /\ Step("POLL") /\ Return(IF wk.r = "ready" THEN "OK" ELSE "NOTRDY")
  /\ UNCHANGED <<card, noinit, CardType, call, data, past>>

\* disk_initialize
Initialize ==
  /\ At("REST") /\ [op |-> "init"] \in Calls
  /\ Begin([op |-> "init"], "NONE") /\ Command("GO_IDLE", <<"CMD0">>, 0)
Finish(ty) ==
  /\ CardType' = ty
  /\ IF ty # 0 THEN noinit' = FALSE /\ Return("OK")
     ELSE Wait([Resting EXCEPT !.step = "OFF"]) /\ UNCHANGED <<noinit, answer>>
Go(step, cmds, arg) == Command(step, cmds, arg) /\ UNCHANGED <<noinit, CardType, answer>>
\* A loop that is left as soon as Timer1 is 0
Retry(step, cmds, arg) ==
  /\ wk' = Packet(step, cmds, arg) /\ timer' = [timer EXCEPT ![2] = WaitTime] /\ fresh' = {1, 2}
  /\ UNCHANGED <<noinit, CardType, answer>>
GoIdle ==
  /\ Step("GO_IDLE")
  /\ IF wk.r = "idle"
     THEN /\ wk' = Packet("IF_COND", <<"CMD8">>, 0)
          /\ timer' = <<InitTime, WaitTime>> /\ fresh' = {1, 2}
          /\ UNCHANGED <<noinit, CardType, answer>>
     ELSE Finish(0)
  /\ UNCHANGED <<card, call, data, past>>
\* Mutant: the loop goes on without a look at Timer1.
TimeLeftEver == TRUE
TimeLeft     == timer[1] > 0
AppOpCond == <<"CMD55", "CMD41">>
IfCond ==
  /\ Step("IF_COND")
  /\ IF wk.r # "idle" THEN Go("SDC", AppOpCond, 0)
     ELSE \E echo \in IF Good THEN {TRUE} ELSE BOOLEAN :
       IF echo /\ TimeLeft THEN Retry("OP_COND", AppOpCond, Hcs) ELSE Finish(0)
  /\ UNCHANGED <<card, call, data, past>>
OpCond ==
  /\ Step("OP_COND")
  /\ IF ~TimeLeft THEN Finish(0)
     ELSE IF wk.r = "ready" THEN Go("OCR", <<"CMD58">>, 0)
     ELSE Retry("OP_COND", AppOpCond, Hcs)
  /\ UNCHANGED <<card, call, data, past>>
\* Mutant: every card that knows CMD8 is addressed by blocks.
CapacityHigh == 12
\* The bit CCS; an empty slot reads as ones.
Capacity == IF slot = NoCard \/ Kind[slot] = "SDHC" THEN 12 ELSE 4
Ocr ==
  /\ Step("OCR") /\ Finish(IF wk.r = "ready" THEN Capacity ELSE 0)
  /\ UNCHANGED <<card, call, data, past>>
LeaveIdle(ty) ==
  IF TimeLeft
  THEN /\ wk' = [Packet("LEAVE", IF ty = 2 THEN AppOpCond ELSE <<"CMD1">>, 0) EXCEPT !.ty = ty]
       /\ timer' = [timer EXCEPT ![2] = WaitTime] /\ fresh' = {1, 2}
       /\ UNCHANGED <<noinit, CardType, answer>>
  ELSE Finish(0)
Sdc ==
  /\ Step("SDC") /\ LeaveIdle(IF wk.r \in {"ready", "idle"} THEN 2 ELSE 1)
  /\ UNCHANGED <<card, call, data, past>>
Leave ==
  /\ Step("LEAVE")
  /\ IF ~TimeLeft THEN Finish(0)
     ELSE IF wk.r = "ready" THEN Go("BLOCKLEN", <<"CMD16">>, BlockLen)
     ELSE LeaveIdle(wk.ty)
  /\ UNCHANGED <<card, call, data, past>>
SetBlockLen ==
  /\ Step("BLOCKLEN") /\ Finish(IF wk.r = "ready" THEN wk.ty ELSE 0)
  /\ UNCHANGED <<card, call, data, past>>
PowerOff ==
  /\ At("OFF") /\ noinit' = TRUE /\ Return(IF call.op = "init" THEN "NOTRDY" ELSE "OK")
  /\ UNCHANGED <<card, CardType, call, data, past>>

-----------------------------------------------------------------------------
\* disk_read and disk_write
\* Mutant: all cards are addressed by bytes.
AddressBytes(sector) == (sector * BlockLen) % AddrMod
Address(sector) == IF CardType \in 8 .. 15 THEN sector ELSE (sector * BlockLen) % AddrMod
Single == call.op = "ioctl" \/ call.count = 1
Opening(c) ==
  IF c.op = "read" THEN <<"READ", IF c.count = 1 THEN "CMD17" ELSE "CMD18">>
  ELSE IF c.count > 1 /\ CardType # 1 THEN <<"ERASE", "CMD55", "CMD23">>
  ELSE <<"WRITE", IF c.count = 1 THEN "CMD24" ELSE "CMD25">>
Transfer ==
  /\ At("REST")
  /\ \E c \in Calls :
       /\ c.op \in {"read", "write"}
       /\ IF noinit THEN Begin(c, "NOTRDY") /\ UNCHANGED <<wk, timer, fresh>>
          ELSE /\ Begin(c, "NONE")
               /\ Wait([Packet(Head(Opening(c)), Tail(Opening(c)), Address(c.sector))
                          EXCEPT !.left = c.count])

\* rcvr_datablock
Receive(w) == wk' = [w EXCEPT !.at = "TOKEN"] /\ Set(1, TokenTime)
ReadOpened ==
  /\ Step("READ")
  /\ IF wk.r = "ready" THEN Receive(wk) /\ UNCHANGED answer
     ELSE Return("ERROR")
  /\ UNCHANGED <<card, noinit, CardType, call, data, past>>
Reading == slot # NoCard /\ Sending
ReadToken ==
  /\ At("TOKEN")
  /\ wk' = [wk EXCEPT !.at = "TOKENTEST", !.r = IF Reading THEN cd.token ELSE "none"]
  /\ UNCHANGED <<card, noinit, CardType, call, answer, data, timer, fresh, past>>
NoBlock == IF Single THEN Return("ERROR")
           ELSE Command("STOPPED", <<"CMD12">>, 0) /\ UNCHANGED answer
TokenTest ==
  /\ At("TOKENTEST")
  /\ CASE wk.r = "data" -> wk' = [wk EXCEPT !.at = "BLOCK"] /\ UNCHANGED <<answer, timer, fresh>>
       [] wk.r = "none" /\ timer[1] > 0 ->
            /\ wk' = [wk EXCEPT !.at = "TOKEN"] /\ fresh' = fresh \union {1}
            /\ UNCHANGED <<answer, timer>>
       [] OTHER -> NoBlock
  /\ UNCHANGED <<card, noinit, CardType, call, data, past>>
\* The block; of a card that is pulled meanwhile the rest is ones.
Further == IF Kind[slot] = "SDHC" THEN cd.addr + 1 ELSE cd.addr + BlockLen
Next1(op) == IF cd.op = op THEN [cd EXCEPT !.op = "none", !.token = "none"]
             ELSE [cd EXCEPT !.addr = Further, !.token = "none"]
TakeBlock ==
  /\ At("BLOCK") /\ call.op = "read"
  /\ \/ /\ Reading /\ cd.token = "data" /\ cd' = Next1("read")
        /\ buffer' = Append(buffer, <<slot, Block(cd.addr)>>) /\ UNCHANGED <<slot, past>>
     \/ /\ Reading /\ "swap" \in Faults /\ slot' = NoCard /\ cd' = Asleep
        /\ past' = [past EXCEPT !.sound = FALSE, !.torn = TRUE] /\ buffer' = Append(buffer, Torn)
     \/ /\ ~Reading /\ past' = [past EXCEPT !.torn = TRUE] /\ buffer' = Append(buffer, Torn)
        /\ UNCHANGED <<slot, cd>>
  /\ IF Single THEN Return("OK")
     ELSE /\ IF wk.left > 1 THEN Receive([wk EXCEPT !.left = @ - 1])
             ELSE Wait([Packet("STOPPED", <<"CMD12">>, 0) EXCEPT !.left = 0])
          /\ UNCHANGED answer
  /\ UNCHANGED <<bad, noinit, CardType, call, stored>>
Stopped ==
  /\ Step("STOPPED") /\ Return(IF wk.left = 0 THEN "OK" ELSE "ERROR")
  /\ UNCHANGED <<card, noinit, CardType, call, data, past>>

\* xmit_datablock
Erased ==
  /\ Step("ERASE") /\ Command("WRITE", <<"CMD25">>, Address(call.sector))
  /\ UNCHANGED <<card, noinit, CardType, call, answer, data, past>>
\* Mutant: without a look whether the card is ready.
TransmitHasty(step, left) ==
  /\ wk' = [wk EXCEPT !.at = step, !.step = step, !.cmds = <<>>, !.left = left, !.r = "ready"]
  /\ UNCHANGED <<timer, fresh>>
Transmit(step, left) == Wait([wk EXCEPT !.step = step, !.cmds = <<>>, !.left = left])
WriteOpened ==
  /\ Step("WRITE")
  /\ IF wk.r = "ready" THEN Transmit("DATA", wk.left) /\ UNCHANGED answer
     ELSE Return("ERROR")
  /\ UNCHANGED <<card, noinit, CardType, call, data, past>>
Writing  == slot # NoCard /\ cd.op \in {"write", "writes"} /\ wk.r = "ready"
Sent     == call.count - wk.left
Programmed ==
  /\ Writing /\ OnCard(cd.addr)
  /\ stored' = stored \union {<<slot, Block(cd.addr), Sent>>}
  /\ cd' = [Next1("write") EXCEPT !.busy = TRUE] /\ UNCHANGED slot
Rejected ==
  \/ /\ UNCHANGED <<slot, stored>> /\ (bad \/ ~(Writing /\ OnCard(cd.addr)))
     /\ cd' = IF Writing /\ cd.op = "write" THEN [cd EXCEPT !.op = "none"] ELSE cd
  \/ Programmed /\ bad
  \/ /\ Writing /\ "swap" \in Faults /\ slot' = NoCard /\ cd' = Asleep
     /\ UNCHANGED stored
SendBlock ==
  /\ At("DATA")
  /\ \/ /\ Programmed
        /\ IF Single THEN Return("OK")
           ELSE /\ Transmit(IF wk.left > 1 THEN "DATA" ELSE "STOP", wk.left - 1)
                /\ UNCHANGED answer
     \/ /\ Rejected
        /\ IF Single THEN Return("ERROR")
           ELSE Transmit("STOP", wk.left) /\ UNCHANGED answer
  /\ past' = [past EXCEPT !.sound = @ /\ slot' # NoCard]
  /\ UNCHANGED <<bad, noinit, CardType, call, buffer>>
\* Mutant: the verdict on the stop token replaces that on the blocks.
WrittenLast == IF wk.r = "ready" THEN "OK" ELSE "ERROR"
Written     == IF wk.left = 0 /\ wk.r = "ready" THEN "OK" ELSE "ERROR"
SendStop ==
  /\ At("STOP") /\ Return(Written)
  /\ cd' = IF Writing THEN [cd EXCEPT !.op = "none", !.busy = TRUE] ELSE cd
  /\ UNCHANGED <<slot, bad, noinit, CardType, call, data, past>>

-----------------------------------------------------------------------------
\* disk_ioctl, which the firmware is built without (_USE_IOCTL 0).  To switch
\* the power on, or to ask for it, does nothing on this board.
Question(ctrl) ==
  CASE ctrl \in {"GET_SECTOR_COUNT", "MMC_GET_CSD"} -> <<"CMD9">>
    [] ctrl = "MMC_GET_CID"    -> <<"CMD10">>
    [] ctrl = "MMC_GET_OCR"    -> <<"CMD58">>
    [] ctrl = "MMC_GET_SDSTAT" -> <<"CMD55", "CMD13">>
    [] ctrl = "GET_BLOCK_SIZE" -> IF CardType \in {4, 12} THEN <<"CMD55", "CMD13">> ELSE <<"CMD9">>
Ioctl ==
  /\ At("REST")
  /\ \E c \in Calls :
       /\ c.op = "ioctl"
       /\ CASE c.ctrl = "POWER_OFF" -> Begin(c, "NONE") /\ Wait([Resting EXCEPT !.step = "OFF"])
            [] c.ctrl # "POWER_OFF" /\ noinit -> Begin(c, "NOTRDY") /\ UNCHANGED <<wk, timer, fresh>>
            [] c.ctrl = "CTRL_SYNC" /\ ~noinit ->
                 Begin(c, "NONE") /\ Wait([Resting EXCEPT !.step = "SYNC"])
            [] c.ctrl \in {"GET_SECTOR_SIZE", "MMC_GET_TYPE"} /\ ~noinit ->
                 Begin(c, "OK") /\ UNCHANGED <<wk, timer, fresh>>
            [] OTHER -> Begin(c, "NONE") /\ Command("REGISTER", Question(c.ctrl), 0)
Synced ==
  /\ At("SYNC") /\ Return(IF wk.r = "ready" THEN "OK" ELSE "ERROR")
  /\ UNCHANGED <<card, noinit, CardType, call, data, past>>
Registered ==
  /\ Step("REGISTER")
  /\ IF wk.r # "ready" THEN Return("ERROR")
     ELSE IF call.ctrl = "MMC_GET_OCR" THEN Return("OK")
     ELSE Receive(wk) /\ UNCHANGED answer
  /\ UNCHANGED <<card, noinit, CardType, call, data, past>>
\* A register is shorter than a block, and the pump moves whole blocks: nothing
\* of it is stored, and the card is left with the rest to send.
TakeRegister ==
  /\ At("BLOCK") /\ call.op = "ioctl" /\ Return("OK")
  /\ UNCHANGED <<card, noinit, CardType, call, data, past>>

-----------------------------------------------------------------------------
Init ==
  /\ slot \in Cards /\ bad = FALSE /\ cd = Asleep
  /\ noinit = TRUE /\ CardType = 0
  /\ call = [op |-> "none"] /\ answer = "NONE" /\ wk = Resting /\ buffer = <<>> /\ stored = {}
  /\ timer = <<0, 0>> /\ fresh = {1, 2}
  /\ past = [card |-> NoCard, sound |-> FALSE, torn |-> FALSE, closed |-> TRUE]

Driver ==
  \/ ReadByte \/ Test \/ Exchange \/ Polled
  \/ GoIdle \/ IfCond \/ OpCond \/ Ocr \/ Sdc \/ Leave \/ SetBlockLen \/ PowerOff
  \/ ReadOpened \/ ReadToken \/ TokenTest \/ TakeBlock \/ Stopped
  \/ Erased \/ WriteOpened \/ SendBlock \/ SendStop
  \/ Synced \/ Registered \/ TakeRegister
Next == Driver \/ Poll \/ Initialize \/ Transfer \/ Ioctl \/ CardWorks \/ (\E i \in 1 .. 2 : Tick(i))
        \/ Swap \/ Wobble
\* The workhorse runs, time passes, and a card that works answers in time.
Spec == /\ Init /\ [][Next]_vars /\ WF_vars(Driver) /\ WF_vars(Good /\ CardWorks)
        /\ SF_vars(Tick(1)) /\ SF_vars(Tick(2))
-----------------------------------------------------------------------------
TypeOK ==
  /\ slot \in Cards \union {NoCard} /\ CardType \in {0, 1, 2, 4, 12} /\ noinit \in BOOLEAN
  /\ cd.op \in {"none", "read", "reads", "write", "writes", "register"}
  /\ slot = NoCard => cd = Asleep
  /\ Len(buffer) <= 2 /\ wk.left <= 2 /\ timer[1] <= InitTime + TokenTime /\ timer[2] <= WaitTime
  /\ answer \in {"NONE", "OK", "ERROR", "NOTRDY"}

\* A card that is used is addressed in its own unit, bytes or blocks, however it
\* was swapped or faltered while disk_initialize tried to find out.
TypeMatches ==
  ~noinit /\ slot # NoCard /\ cd.mode = "ready" /\ (At("REST") \/ call.op # "init")
    => (CardType = 12) = (Kind[slot] = "SDHC")

Fits     == \/ call.sector * BlockLen < AddrMod
            \/ past.card # NoCard /\ Kind[past.card] = "SDHC"
Asked    == call.sector .. call.sector + call.count - 1
Answered(op) == At("REST") /\ call.op = op /\ answer = "OK"
\* A read that succeeds brings the blocks asked for, from the card that was in
\* the slot when it was called, unless the card was pulled within a block (whose
\* checksum is not looked at).
Delivers ==
  Answered("read") /\ ~past.torn /\ Fits
    => buffer = [i \in 1 .. call.count |-> <<past.card, call.sector + i - 1>>]

\* A write stores blocks only where they belong, and all of them if it succeeds.
Due    == {<<past.card, call.sector + i, i>> : i \in 0 .. call.count - 1}
Stored == call.op = "write" /\ Fits => stored \subseteq Due /\ (Answered("write") => stored = Due)

\* A card that is in, works, and was left at rest by the call before, is found
\* by disk_initialize and disk_poll and serves the blocks it has, even if it
\* takes up to the last tick to answer.
Serves ==
  At("REST") /\ past.sound /\ past.closed =>
    /\ call.op = "init" => answer = "OK"
    /\ ~noinit /\ cd.mode = "ready" =>
         /\ call.op = "poll" => answer = "OK"
         /\ call.op \in {"read", "write"} /\ Asked \subseteq 0 .. NBlocks - 1 => answer = "OK"
         /\ call.op = "ioctl" /\ (Kind[slot] # "MMC" \/ call.ctrl # "MMC_GET_SDSTAT") => answer = "OK"

\* Nothing is sent to a card that is busy, nor a command in the middle of a
\* transfer except for the one that stops it; and no call leaves one running.
Heard ==
  /\ At("SEND") \/ (wk.at \in {"DATA", "STOP"} /\ wk.r = "ready") => ~cd.busy
  /\ At("SEND") /\ past.sound /\ past.closed
       => cd.op \in {"none", "read", "register"} \/ (cd.op = "reads" /\ wk.cmds = <<"CMD12">>)
  /\ At("REST") /\ past.sound /\ past.closed => cd.op \notin {"reads", "writes"}

\* Every call returns, whatever the card does.
CallsReturn == ~At("REST") ~> At("REST")
=============================================================================
