------------------------------ MODULE Wd1793 ------------------------------
(***************************************************************************)
(* The floppy disk controller, wd1793.v: one action per state of the       *)
(* machine in "always _wdmain", each standing for one enabled clock tick.  *)
(* A tick first applies the host's access to the registers and then the    *)
(* state's own assignments; both are non-blocking, so a field that both    *)
(* assign keeps the state's value.  That is [Bus(op) EXCEPT ...] below.    *)
(*                                                                         *)
(* Left out: the s_index, s_headloaded and s_readonly status bits, the     *)
(* boo diagnostics in the low bits of ACK, the multisector flag            *)
(* (WITH_MULTISECTOR is not defined).                                      *)
(***************************************************************************)
EXTENDS FloppyBus

States ==
  {"READY", "WAIT_CPUREAD", "WAIT_CPU", "ABORT", "READ_1", "READ_2", "READ_3",
   "READSECT", "WAIT_CPUWRITE", "WRITE_1", "WRITE_2", "WRITESECT",
   "ENDCOMMAND", "ENDCOMMAND2", "DEAD"}

\* The state's code, which a controller that dies leaves in the track register.
StateCode(s) ==
  CASE s = "READY" -> 0          [] s = "WAIT_CPUREAD" -> 1
    [] s = "WAIT_CPU" -> 2       [] s = "ABORT" -> 3
    [] s = "READ_2" -> 4         [] s = "READ_3" -> 5
    [] s = "WAIT_CPUWRITE" -> 6  [] s = "READ_1" -> 7
    [] s = "WRITE_1" -> 8        [] s = "WRITE_2" -> 9
    [] s = "WRITESECT" -> 10     [] s = "READSECT" -> 11
    [] s = "ENDCOMMAND2" -> 13   [] s = "ENDCOMMAND" -> 14
    [] OTHER -> 15

\* Commands by the high nibble of the command byte.  STEPU is a STEP with the
\* update flag; TRACK stands for READ TRACK and WRITE TRACK, which do nothing.
Commands ==
  {"RESTORE", "SEEK", "STEP", "STEPU", "READ", "WRITE", "READADDR", "TRACK"}
TypeOne == {"RESTORE", "SEEK", "STEP", "STEPU"}
CommandByte(c) ==
  CASE c = "RESTORE" -> 0   [] c = "SEEK" -> 16   [] c = "STEP" -> 32
    [] c = "STEPU" -> 48    [] c = "READ" -> 128  [] c = "WRITE" -> 160
    [] c = "READADDR" -> 192 [] OTHER -> 224

\* What the host's bus carries in one tick: a write to a register, a read of
\* the data register, $Dx to the command register ("FORCE"), or nothing.
Ports == {"none", "TRACK", "SECTOR", "DATA", "CTL2", "COMMAND", "FORCE", "RDDATA"}
HostOp == [port : Ports, data : Byte, cmd : Commands, drive : Bit, side : Bit]

NoOp == [port |-> "none", data |-> 0, cmd |-> "RESTORE", drive |-> 0, side |-> 0]
Access(p)     == [NoOp EXCEPT !.port = p]
Write(p, v)   == [NoOp EXCEPT !.port = p, !.data = v]
Issue(c)      == [NoOp EXCEPT !.port = "COMMAND", !.cmd = c]
Select(d, s)  == [NoOp EXCEPT !.port = "CTL2", !.drive = d, !.side = s]

WdType ==
  [state : States, busy : BOOLEAN, drq : BOOLEAN, pending : BOOLEAN,
   command : Commands, mode : BOOLEAN,
   track : Byte, sector : Byte, datareg : Byte, diskTrack : Byte,
   side : Bit, drive : Bit, len : 0 .. SectorSize, addr : Addr,
   bufRd : BOOLEAN, bufWr : BOOLEAN, request : Request,
   timer : 0 .. ReadTicks, dogSet : BOOLEAN, dog : 0 .. DogTicks,
   ready : BOOLEAN, seekErr : BOOLEAN, crcErr : BOOLEAN,
   lostData : BOOLEAN, wrFault : BOOLEAN]

\* The registers after reset_n; those it leaves alone power up as zero.
WdReset ==
  [state |-> "READY", busy |-> FALSE, drq |-> FALSE, pending |-> FALSE,
   command |-> "RESTORE", mode |-> FALSE,
   track |-> 0, sector |-> 0, datareg |-> 0, diskTrack |-> ByteMod - 1,
   side |-> 0, drive |-> 0, len |-> 0, addr |-> 0,
   bufRd |-> FALSE, bufWr |-> FALSE, request |-> Plain("ACK"),
   timer |-> 0, dogSet |-> FALSE, dog |-> 0,
   ready |-> FALSE, seekErr |-> FALSE, crcErr |-> FALSE,
   lostData |-> FALSE, wrFault |-> FALSE]

-----------------------------------------------------------------------------
(* The register section, common to every state.                            *)

\* Bit 0 and, in mode 1, bit 1 of the status register.
\* Mutant: a command that is not taken yet does not show.
StatusBusyLate == wd.busy
StatusBusy == wd.busy \/ wd.pending
StatusDrq  == wd.mode /\ wd.drq

\* A command written while another one is pending kills the controller.
Barges(op)    == op.port = "COMMAND" /\ wd.pending
\* $Dx while the machine is idle only clears the flags.
Clears(op)    == op.port = "FORCE" /\ wd.state = "READY"
Bark          == wd.dog = 0
DogNext       == IF wd.dogSet THEN DogTicks ELSE IF Bark THEN 0 ELSE wd.dog - 1
DrqBusyCode   == (IF wd.drq THEN 2 ELSE 0) + (IF wd.busy THEN 1 ELSE 0)

StateAfterBus(op) ==
  IF op.port = "FORCE" /\ wd.state # "READY" THEN "ABORT"
  ELSE IF Barges(op) THEN "DEAD" ELSE wd.state

TrackAfterBus(op) ==
  IF op.port = "TRACK" /\ ~wd.busy THEN op.data
  ELSE IF Barges(op) THEN (16 * DrqBusyCode + StateCode(wd.state)) % ByteMod
  ELSE wd.track

SectorAfterBus(op) ==
  IF op.port = "SECTOR" /\ ~wd.busy THEN op.data
  ELSE IF Barges(op) THEN CommandByte(op.cmd) % ByteMod
  ELSE wd.sector

Bus(op) ==
  [wd EXCEPT
     !.ready    = "DRVNOTRDY" \notin status,
     !.bufWr    = FALSE,
     !.dog      = DogNext,
     !.track    = TrackAfterBus(op),
     !.sector   = SectorAfterBus(op),
     !.side     = IF op.port = "CTL2" THEN op.side ELSE @,
     !.drive    = IF op.port = "CTL2" THEN op.drive ELSE @,
     !.datareg  = IF op.port = "DATA" THEN op.data ELSE @,
     !.mode     = @ /\ op.port # "FORCE",
     !.state    = StateAfterBus(op),
     !.command  = IF op.port = "COMMAND" /\ ~wd.pending THEN op.cmd ELSE @,
     !.pending  = @ \/ op.port = "COMMAND",
     !.wrFault  = @ /\ ~Clears(op),
     !.seekErr  = @ /\ ~Clears(op),
     !.crcErr   = @ /\ ~Clears(op),
     !.lostData = @ /\ ~Clears(op)]

-----------------------------------------------------------------------------
(* STATE_READY: idle, or taking the pending command.                       *)

Idle(op) ==
  /\ wd.state = "READY"
  /\ ~wd.pending
  /\ wd' = Bus(op)

Takes(c) == wd.state = "READY" /\ wd.pending /\ wd.command = c
Taken(op) ==
  [Bus(op) EXCEPT !.pending = FALSE, !.mode = wd.command \notin TypeOne]

\* Head movements: the workhorse only has to acknowledge a NOP.
Moving(op, t) ==
  [Taken(op) EXCEPT !.diskTrack = t, !.busy = TRUE, !.drq = FALSE,
                    !.request = Plain("NOP"), !.state = "WAIT_CPU"]
Restore(op) == Takes("RESTORE") /\ wd' = [Moving(op, 0) EXCEPT !.track = 0]
Seek(op)    == Takes("SEEK") /\ wd' = Moving(op, wd.datareg)
\* wStepDir looks at the host's bus as it is a tick after the command was
\* written, so that the direction is the bus's choice.
\* Mutant: a track that counts past the width of its register.
NeighbourWide == {wd.diskTrack + d : d \in {1, ByteMod - 1}}
Neighbour   == {(wd.diskTrack + d) % ByteMod : d \in {1, ByteMod - 1}}
Step(op)    == Takes("STEP") /\ \E t \in Neighbour : wd' = Moving(op, t)
StepU(op)   == /\ Takes("STEPU")
               /\ \E t \in Neighbour : wd' = [Moving(op, t) EXCEPT !.track = t]

\* Transfers start with the error flags cleared.
Started(op, n) ==
  [Taken(op) EXCEPT !.busy = TRUE, !.len = n, !.wrFault = FALSE,
                    !.seekErr = FALSE, !.crcErr = FALSE, !.lostData = FALSE]
Asking(op, o, n) ==
  [Started(op, n) EXCEPT
     !.drq = FALSE, !.state = "WAIT_CPUREAD",
     !.request = [op |-> o, drive |-> wd.drive, side |-> wd.side]]
Read(op)         == Takes("READ") /\ wd' = Asking(op, "READ", SectorSize)
ReadAddress(op)  == Takes("READADDR") /\ wd' = Asking(op, "READADDR", AddrSize)
\* A write collects the sector from the host first and asks afterwards.
\* Mutant: it goes on where the buffer was left.
WriteSectorOnwards(op) ==
  /\ Takes("WRITE")
  /\ wd' = [Started(op, SectorSize) EXCEPT !.drq = TRUE, !.state = "WRITESECT"]
WriteSector(op)  ==
  /\ Takes("WRITE")
  /\ wd' = [Started(op, SectorSize) EXCEPT !.drq = TRUE, !.addr = 0,
                                           !.state = "WRITESECT"]
TrackCommand(op) ==
  /\ Takes("TRACK")
  /\ wd' = [Taken(op) EXCEPT !.busy = FALSE, !.drq = FALSE]

-----------------------------------------------------------------------------
(* Buffer to host.                                                         *)

NextAddr == (wd.addr + 1) % SectorSize

Read1(op) ==
  /\ wd.state = "READ_1"
  /\ wd' = [Bus(op) EXCEPT !.addr = NextAddr, !.len = wd.len - 1,
                           !.state = "READ_2"]

Read2(op) ==
  /\ wd.state = "READ_2"
  /\ wd' = [Bus(op) EXCEPT !.dogSet = TRUE, !.timer = ReadTicks,
                           !.busy = TRUE, !.drq = FALSE, !.bufRd = TRUE,
                           !.state = "READ_3"]

Read3Wait(op) ==
  /\ wd.state = "READ_3"
  /\ wd.timer # 0
  /\ wd' = [Bus(op) EXCEPT !.timer = wd.timer - 1]

Read3Byte(op) ==
  /\ wd.state = "READ_3"
  /\ wd.timer = 0
  /\ wd' = [Bus(op) EXCEPT !.dogSet = FALSE, !.lostData = FALSE,
                           !.busy = TRUE, !.drq = TRUE,
                           !.datareg = buf[wd.addr], !.state = "READSECT"]

\* The byte leaves when the host reads it or when the watchdog barks.
ByteGone(op) == Bark \/ (op.port = "RDDATA" /\ wd.drq)

ReadSectWait(op) == wd.state = "READSECT" /\ ~ByteGone(op) /\ wd' = Bus(op)

\* Mutant: one byte too many.
ReadSectNextOver(op) ==
  /\ wd.state = "READSECT" /\ ByteGone(op)
  /\ wd' = [Bus(op) EXCEPT !.busy = TRUE, !.drq = FALSE, !.lostData = Bark,
                           !.state = "READ_1"]
ReadSectNext(op) ==
  /\ wd.state = "READSECT"
  /\ ByteGone(op)
  /\ wd.len # 1
  /\ wd' = [Bus(op) EXCEPT !.busy = TRUE, !.drq = FALSE, !.lostData = Bark,
                           !.state = "READ_1"]

\* Mutant: the clock enable is never given back.
ReadSectLastHeld(op) ==
  /\ wd.state = "READSECT" /\ ByteGone(op) /\ wd.len = 1
  /\ wd' = [Bus(op) EXCEPT !.busy = TRUE, !.drq = FALSE, !.lostData = Bark,
                           !.state = "ENDCOMMAND"]
ReadSectLast(op) ==
  /\ wd.state = "READSECT"
  /\ ByteGone(op)
  /\ wd.len = 1
  /\ wd' = [Bus(op) EXCEPT !.busy = TRUE, !.drq = FALSE, !.lostData = Bark,
                           !.bufRd = FALSE, !.state = "ENDCOMMAND"]

-----------------------------------------------------------------------------
(* Host to buffer.                                                         *)

WriteSectWait(op) ==
  wd.state = "WRITESECT" /\ op.port # "DATA" /\ wd' = Bus(op)

WriteSectByte(op) ==
  /\ wd.state = "WRITESECT"
  /\ op.port = "DATA"
  /\ wd' = [Bus(op) EXCEPT !.busy = TRUE, !.drq = FALSE, !.lostData = FALSE,
                           !.state = "WRITE_1"]

Write1(op) ==
  /\ wd.state = "WRITE_1"
  /\ wd' = [Bus(op) EXCEPT !.bufWr = TRUE, !.state = "WRITE_2"]

Stored(op) == [Bus(op) EXCEPT !.addr = NextAddr, !.len = wd.len - 1]

Write2Next(op) ==
  /\ wd.state = "WRITE_2"
  /\ wd.len # 1
  /\ wd' = [Stored(op) EXCEPT !.busy = TRUE, !.drq = TRUE, !.state = "WRITESECT"]

\* The sector is complete.  The request carries the side and not the drive.
\* Mutant: nor the side.
FlushRequestPlain == Plain("WRITE")
FlushRequest == [op |-> "WRITE", drive |-> 0, side |-> wd.side]
Write2Last(op) ==
  /\ wd.state = "WRITE_2"
  /\ wd.len = 1
  /\ wd' = [Stored(op) EXCEPT !.request = FlushRequest, !.state = "WAIT_CPUWRITE"]

\* bufpa takes the data register while buff_wr is up.
BufferWrite ==
  buf' = IF wd.bufWr THEN [buf EXCEPT ![wd.addr] = wd.datareg] ELSE buf

-----------------------------------------------------------------------------
(* Waiting for the workhorse, and ending a command.                        *)

Failed    == \/ "DRVNOTRDY" \in status
             \/ "COMPLETE" \in status /\ "SUCCESS" \notin status
Succeeded == ~Failed /\ "COMPLETE" \in status

WaitReadFails(op) ==
  /\ wd.state = "WAIT_CPUREAD" /\ Failed
  /\ wd' = [Bus(op) EXCEPT !.seekErr = TRUE, !.crcErr = "CRC" \in status,
                           !.state = "ENDCOMMAND"]
\* Mutant: the address of the last transfer stays.
WaitReadDoneOnwards(op) ==
  /\ wd.state = "WAIT_CPUREAD" /\ Succeeded
  /\ wd' = [Bus(op) EXCEPT !.state = "READ_2"]
WaitReadDone(op) ==
  /\ wd.state = "WAIT_CPUREAD" /\ Succeeded
  /\ wd' = [Bus(op) EXCEPT !.addr = 0, !.state = "READ_2"]
WaitRead(op) ==
  wd.state = "WAIT_CPUREAD" /\ ~Failed /\ ~Succeeded /\ wd' = Bus(op)

\* Mutant: the fault flag takes the wrong bit of the answer.
WaitWriteFailsWrongBit(op) ==
  /\ wd.state = "WAIT_CPUWRITE" /\ Failed
  /\ wd' = [Bus(op) EXCEPT !.wrFault = "SUCCESS" \in status, !.state = "ENDCOMMAND"]
WaitWriteFails(op) ==
  /\ wd.state = "WAIT_CPUWRITE" /\ Failed
  /\ wd' = [Bus(op) EXCEPT !.wrFault = "CRC" \in status, !.state = "ENDCOMMAND"]
WaitWriteDone(op) ==
  /\ wd.state = "WAIT_CPUWRITE" /\ Succeeded
  /\ wd' = [Bus(op) EXCEPT !.state = "ENDCOMMAND"]
\* Until the workhorse answers, the host sees BUSY fall.
WaitWrite(op) ==
  /\ wd.state = "WAIT_CPUWRITE" /\ ~Failed /\ ~Succeeded
  /\ wd' = [Bus(op) EXCEPT !.busy = FALSE, !.drq = FALSE]

WaitNopDone(op) ==
  /\ wd.state = "WAIT_CPU" /\ "COMPLETE" \in status
  /\ wd' = [Bus(op) EXCEPT !.state = "ENDCOMMAND"]
WaitNop(op) ==
  wd.state = "WAIT_CPU" /\ "COMPLETE" \notin status /\ wd' = Bus(op)

Abort(op) ==
  /\ wd.state = "ABORT"
  /\ wd' = [Bus(op) EXCEPT !.len = 0, !.pending = FALSE, !.state = "ENDCOMMAND"]

EndCommand(op) ==
  /\ wd.state = "ENDCOMMAND"
  /\ wd' = [Bus(op) EXCEPT !.request = Plain("ACK"), !.state = "ENDCOMMAND2"]

\* Mutant: the acknowledgement is not waited for.
EndCommand2Hasty(op) ==
  /\ wd.state = "ENDCOMMAND2"
  /\ wd' = [Bus(op) EXCEPT !.request = Plain("NONE"), !.busy = FALSE,
                           !.drq = FALSE, !.state = "READY"]
EndCommand2(op) ==
  /\ wd.state = "ENDCOMMAND2" /\ status = {}
  /\ wd' = [Bus(op) EXCEPT !.request = Plain("NONE"), !.busy = FALSE,
                           !.drq = FALSE, !.state = "READY"]
EndCommand2Wait(op) ==
  wd.state = "ENDCOMMAND2" /\ status # {} /\ wd' = Bus(op)

\* A dead controller ignores the host; host_hold also stops the 8080.
Dead ==
  /\ wd.state = "DEAD"
  /\ wd' = [wd EXCEPT !.busy = TRUE, !.drq = TRUE, !.seekErr = TRUE,
                      !.crcErr = TRUE, !.wrFault = TRUE, !.dog = DogNext,
                      !.request = Plain("FAIL")]

-----------------------------------------------------------------------------
Accept(op) ==
  \/ Restore(op) \/ Seek(op) \/ Step(op) \/ StepU(op)
  \/ Read(op) \/ ReadAddress(op) \/ WriteSector(op) \/ TrackCommand(op)
Send(op) ==
  \/ Read1(op) \/ Read2(op) \/ Read3Wait(op) \/ Read3Byte(op)
  \/ ReadSectWait(op) \/ ReadSectNext(op) \/ ReadSectLast(op)
Receive(op) ==
  \/ WriteSectWait(op) \/ WriteSectByte(op) \/ Write1(op)
  \/ Write2Next(op) \/ Write2Last(op)
Finish(op) ==
  \/ WaitReadFails(op) \/ WaitReadDone(op) \/ WaitRead(op)
  \/ WaitWriteFails(op) \/ WaitWriteDone(op) \/ WaitWrite(op)
  \/ WaitNopDone(op) \/ WaitNop(op)
  \/ Abort(op) \/ EndCommand(op) \/ EndCommand2(op) \/ EndCommand2Wait(op)

\* One enabled tick of the controller.
Machine(op) == Idle(op) \/ Accept(op) \/ Send(op) \/ Receive(op) \/ Finish(op) \/ Dead
=============================================================================
