------------------------------- MODULE Slave -------------------------------
(***************************************************************************)
(* The workhorse, a 6502 that runs thrall() and slave() of slave.c: it     *)
(* opens a floppy image on the SD card and then serves the controller's    *)
(* requests for ever.  An action is the stretch of code from one access to *)
(* a port (or one byte moved between card and buffer) to the next.         *)
(* Reaches(n) gives the time such a stretch takes at least: a tick for     *)
(* straight-line code, PollTicks across a call that talks to the card.     *)
(*                                                                         *)
(* Left out: the console, the LEDs, the on-screen menu (of which only the  *)
(* choice of another disk matters here) and the FAT walk; an image is the  *)
(* sequence of its sectors.                                                *)
(***************************************************************************)
EXTENDS FloppyBus

CONSTANTS
  NSectors,      \* FDD_NSECTORS, sectors on one side of a track: 5
  ImageSectors,  \* sectors in the image file
  Faults         \* what may go wrong, a subset of FaultKinds

\* The card is pulled and put back; the card or its file system fails; the
\* user chooses another disk; the stack holds FR_RW_ERROR on entry to slave().
FaultKinds == {"eject", "error", "menu", "stack"}

ASSUME ImageAssumption ==
  NSectors \in Nat \ {0} /\ ImageSectors \in Nat \ {0} /\ Faults \subseteq FaultKinds

VARIABLES
  slave,   \* the workhorse: program counter and the locals of slave()
  disk,    \* the image on the card
  card     \* is there a card in the slot?

Results == {"OK", "RW_ERROR", "INVALID_DRIVE"}
Places  == {"BOOT", "START", "MOUNT", "INSERT", "ENTER", "LOOP", "RAISE", "SEEK",
            "COPY", "ANSWER", "ACKED", "NOP_BUSY", "NOP_DONE", "IDLE", "LEAVE",
            "FAIL", "HALT"}
Lbas    == 0 .. ImageSectors - 1

SlaveType ==
  [pc : Places, cmd : Request, t1 : BOOLEAN, result : Results,
   side : Bit, track : Byte, sector : Byte, pos : Addr]

SlaveReset ==
  [pc |-> "BOOT", cmd |-> Plain("NONE"), t1 |-> FALSE, result |-> "OK",
   side |-> 0, track |-> 0, sector |-> 0, pos |-> 0]

\* calc_offset, in sectors.  Side 1 comes first in a track; sector numbers
\* start at 1 and nothing stops a 0 from reaching back into the side before.
Lba(side, track, sector) == (2 * track + (1 - side)) * NSectors + sector - 1
\* fdd_seek's position
Here == Lba(slave.side, slave.track, slave.sector)

-----------------------------------------------------------------------------
At(place, n)  == slave.pc = place /\ Reaches(n) /\ slack' = 0
Goto(place)   == slave' = [slave EXCEPT !.pc = place]
Post(bits)    == status' = bits
Quietly       == UNCHANGED <<status, buf, disk>>
\* Back to the loop.  What the next request sets before it is read (cmd, the
\* position) is forgotten; t1 and result are not.
BackToLoop ==
  slave' = [SlaveReset EXCEPT !.pc = "LOOP", !.t1 = slave.t1,
                              !.result = slave.result]

\* main(): the status port reads 0 until thrall() gets going.
Boot   == At("BOOT", 1) /\ Post({}) /\ Goto("START") /\ UNCHANGED <<buf, disk>>
Start  == /\ At("START", PollTicks)
          /\ Post({"DRVNOTRDY"}) /\ Goto("MOUNT") /\ UNCHANGED <<buf, disk>>

MountOk ==
  /\ At("MOUNT", PollTicks) /\ card
  /\ Goto("ENTER") /\ Quietly
MountFails ==
  /\ At("MOUNT", PollTicks) /\ (~card \/ "error" \in Faults)
  /\ Goto("INSERT") /\ Quietly

\* menu_busy(2), menu_dispatch(0) and a delay of 100 ms.
Insert == At("INSERT", PollTicks) /\ Goto("START") /\ Quietly

\* slave() declares t1 and result and reads both before it assigns them.
Leftover == {"OK"} \union (IF "stack" \in Faults THEN {"RW_ERROR"} ELSE {})
Enter ==
  /\ At("ENTER", 1) /\ Post({})
  /\ \E t \in BOOLEAN, r \in Leftover :
       slave' = [slave EXCEPT !.pc = "LOOP", !.t1 = t, !.result = r]
  /\ UNCHANGED <<buf, disk>>

LoopEnds ==
  /\ At("LOOP", 1) /\ slave.result = "RW_ERROR"
  /\ Goto("LEAVE") /\ Quietly
NoCard ==
  /\ At("LOOP", PollTicks) /\ slave.result # "RW_ERROR" /\ ~card
  /\ slave' = [slave EXCEPT !.pc = "LEAVE", !.result = "OK"]
  /\ Quietly

\* Mutant: an idle request port is taken for a failure.
HandlerStrict(o) ==
  CASE o \in {"READ", "READADDR", "WRITE"} -> "RAISE"
    [] o = "ACK" -> "ACKED"  [] o = "NOP" -> "NOP_BUSY"  [] OTHER -> "FAIL"
Handler(o) ==
  CASE o \in {"READ", "READADDR", "WRITE"} -> "RAISE"
    [] o = "ACK" -> "ACKED"  [] o = "NOP" -> "NOP_BUSY"
    [] o = "FAIL" -> "FAIL"  [] OTHER -> "IDLE"
\* disk_poll found a card: read MASTER_COMMAND.
Sample ==
  /\ At("LOOP", PollTicks) /\ slave.result # "RW_ERROR" /\ card
  /\ slave' = [slave EXCEPT !.pc = Handler(wd.request.op), !.cmd = wd.request,
                            !.result = "OK"]
  /\ Quietly

-----------------------------------------------------------------------------
\* READ and READADDR look at the drive bit; WRITE tests whatever t1 was.
OtherDrive ==
  IF slave.cmd.op = "WRITE" THEN slave.t1 ELSE slave.cmd.drive # 0
Raise ==
  /\ At("RAISE", 1) /\ Post({"BUSY"})
  /\ slave' = [slave EXCEPT
                 !.t1 = OtherDrive,
                 !.result = IF OtherDrive THEN "INVALID_DRIVE" ELSE "OK",
                 !.pc = IF OtherDrive THEN "ANSWER" ELSE "SEEK"]
  /\ UNCHANGED <<buf, disk>>

\* fdd_seek with MASTER_TRACK and MASTER_SECTOR as they read now.
SeekImage ==
  /\ At("SEEK", 1)
  /\ slave' = [slave EXCEPT !.pc = "COPY", !.pos = 0, !.side = slave.cmd.side,
                            !.track = wd.diskTrack, !.sector = wd.sector]
  /\ Quietly

CopyDone == slave.pos = SectorSize - 1
Copied   == slave' = IF CopyDone THEN [slave EXCEPT !.pc = "ANSWER"]
                                 ELSE [slave EXCEPT !.pos = @ + 1]
Moves(o) == At("COPY", 1) /\ slave.cmd.op = o

ReadByte ==
  /\ Moves("READ") /\ card /\ Here \in Lbas
  /\ buf' = [buf EXCEPT ![slave.pos] = disk[Here][slave.pos]]
  /\ Copied /\ UNCHANGED <<status, disk>>
WriteByte ==
  /\ Moves("WRITE") /\ card /\ Here \in Lbas
  /\ disk' = [disk EXCEPT ![Here][slave.pos] = buf[slave.pos]]
  /\ Copied /\ UNCHANGED <<status, buf>>
\* Outside the image f_lseek stops at its end and the transfer is cut to
\* nothing, which still is FR_OK.
Outside ==
  /\ slave.cmd.op \in {"READ", "WRITE"} /\ At("COPY", 1) /\ Here \notin Lbas
  /\ Goto("ANSWER") /\ Quietly
CopyFails ==
  /\ slave.cmd.op \in {"READ", "WRITE"} /\ At("COPY", 1)
  /\ ~card \/ "error" \in Faults
  /\ slave' = [slave EXCEPT !.pc = "ANSWER", !.result = "RW_ERROR"]
  /\ Quietly

\* fdd_readadr: track, side, sector, the size code 3, and two zeroes.
\* Mutant: side and sector change places.
AddressFieldSwapped(k) ==
  CASE k = 0 -> slave.track  [] k = 1 -> slave.sector  [] k = 2 -> slave.side
    [] k = 3 -> 3 % ByteMod  [] OTHER -> 0
AddressField(k) ==
  CASE k = 0 -> slave.track  [] k = 1 -> slave.side  [] k = 2 -> slave.sector
    [] k = 3 -> 3 % ByteMod  [] OTHER -> 0
AddressMark ==
  /\ Moves("READADDR")
  /\ buf' = [k \in Addr |-> IF k < AddrSize THEN AddressField(k) ELSE buf[k]]
  /\ Goto("ANSWER") /\ UNCHANGED <<status, disk>>

\* Mutant: success even if the transfer failed.
VerdictCheerful ==
  {"COMPLETE"} \union (IF slave.result # "INVALID_DRIVE" THEN {"SUCCESS"} ELSE {})
Verdict ==
  {"COMPLETE"} \union (IF slave.result = "OK" THEN {"SUCCESS"} ELSE {})
               \union (IF slave.result = "RW_ERROR" THEN {"CRC"} ELSE {})
Answer == At("ANSWER", 1) /\ Post(Verdict) /\ BackToLoop /\ UNCHANGED <<buf, disk>>

-----------------------------------------------------------------------------
\* Mutant: the acknowledgement is taken, but the answer stays on the port.
AckedSilently == At("ACKED", 1) /\ BackToLoop /\ Quietly
Acked   == At("ACKED", 1) /\ Post({}) /\ BackToLoop /\ UNCHANGED <<buf, disk>>
NopBusy == At("NOP_BUSY", 1) /\ Post({"BUSY"}) /\ Goto("NOP_DONE")
                             /\ UNCHANGED <<buf, disk>>
NopDone == At("NOP_DONE", 1) /\ Post({"COMPLETE"}) /\ BackToLoop
                             /\ UNCHANGED <<buf, disk>>
\* No request: blink() runs the menu, where the user may choose a disk.
Blink  == /\ At("IDLE", 1) /\ Post({}) /\ UNCHANGED <<buf, disk>>
          /\ \/ BackToLoop
             \/ "menu" \in Faults /\ Goto("INSERT")
\* break, or the loop's own end: the status port is cleared on the way out.
Leave  == At("LEAVE", 1) /\ Post({}) /\ Goto("INSERT") /\ UNCHANGED <<buf, disk>>
Fail   == At("FAIL", 1) /\ Post({}) /\ Goto("HALT") /\ UNCHANGED <<buf, disk>>

Workhorse ==
  \/ Boot \/ Start \/ MountOk \/ MountFails \/ Insert \/ Enter
  \/ LoopEnds \/ NoCard \/ Sample
  \/ Raise \/ SeekImage \/ ReadByte \/ WriteByte \/ Outside \/ CopyFails
  \/ AddressMark \/ Answer
  \/ Acked \/ NopBusy \/ NopDone \/ Blink \/ Leave \/ Fail

\* The card slot.
Swap == "eject" \in Faults /\ card' = ~card
=============================================================================
