------------------------------ MODULE Floppy ------------------------------
(***************************************************************************)
(* floppy.v: the controller and the workhorse on one clock, with an 8080   *)
(* host on the register side.  A step is a tick of the controller, with    *)
(* at most one register access of the host in it, a step of the workhorse, *)
(* or a hand at the card slot.                                             *)
(*                                                                         *)
(* The host is a driver that leaves the registers alone while the          *)
(* controller is working; HostMay lists the liberties it takes beyond      *)
(* that.                                                                   *)
(***************************************************************************)
EXTENDS Wd1793, Slave

CONSTANTS
  HostCommands,  \* the commands the host issues
  HostData,      \* the bytes it writes to the data register
  HostRegs,      \* the accesses it makes to the track and sector registers
  HostDrives,    \* the drives and
  HostSides,     \* the sides it selects
  HostMay        \* its liberties, a subset of Liberties

\* abort: write $D0 at any time; early: start over as soon as BUSY falls;
\* barge: issue commands regardless of BUSY.
Liberties == {"abort", "early", "barge"}

ASSUME HostAssumption ==
  /\ HostCommands \subseteq Commands /\ HostData \subseteq Byte
  /\ HostRegs \subseteq HostOp /\ \A r \in HostRegs : r.port \in {"TRACK", "SECTOR"}
  /\ HostDrives \subseteq Bit /\ HostSides \subseteq Bit
  /\ HostMay \subseteq Liberties

VARIABLES
  asked,  \* history: the command last taken, and where it points
  given   \* history: the bytes the host last gave for each place of a sector

vars == <<wd, status, buf, slack, slave, disk, card, asked, given>>

Asked == [op : Commands, drive : Bit, side : Bit, track : Byte, sector : Byte]

-----------------------------------------------------------------------------
\* What the driver writes, and when.
Quiet == \/ wd.state = "READY" /\ ~wd.pending
         \/ "early" \in HostMay /\ ~StatusBusy

HostOps ==
  {NoOp, Access("RDDATA")}
    \union (IF "abort" \in HostMay THEN {Access("FORCE")} ELSE {})
    \union (IF Quiet \/ "barge" \in HostMay
            THEN {Issue(c) : c \in HostCommands} ELSE {})
    \union (IF Quiet \/ (StatusDrq /\ wd.command = "WRITE")
            THEN {Write("DATA", v) : v \in HostData} ELSE {})
    \union (IF Quiet
            THEN HostRegs \union {Select(d, s) : d \in HostDrives, s \in HostSides}
            ELSE {})

\* The controller and the workhorse's clock enable.
CountTick ==
  slack' = IF Frozen \/ slack = PollTicks THEN slack ELSE slack + 1

Remember ==
  asked' = IF wd.state = "READY" /\ wd.pending
           THEN [op |-> wd.command, drive |-> wd.drive, side |-> wd.side,
                 track |-> wd.diskTrack, sector |-> wd.sector]
           ELSE asked
Record(op) ==
  given' = IF wd.state = "WRITESECT" /\ op.port = "DATA"
           THEN [given EXCEPT ![SectorSize - wd.len] = op.data] ELSE given

Tick(op) ==
  /\ Machine(op) /\ BufferWrite /\ CountTick /\ Remember /\ Record(op)
  /\ UNCHANGED <<status, slave, disk, card>>

Clock == \E op \in HostOps : Tick(op)
Serve == Workhorse /\ UNCHANGED <<wd, card, asked, given>>
Slot  == Swap /\ UNCHANGED <<wd, status, buf, slack, slave, disk, asked, given>>

Init ==
  /\ wd = WdReset /\ slave = SlaveReset
  /\ status = {} /\ slack = 0
  /\ buf = [k \in Addr |-> 0] /\ given = [k \in Addr |-> 0]
  /\ disk = [s \in Lbas |-> [k \in Addr |-> (s + 1) % ByteMod]]
  /\ card = TRUE
  /\ asked = [op |-> "RESTORE", drive |-> 0, side |-> 0, track |-> 0, sector |-> 0]

Next == Clock \/ Serve \/ Slot
Spec == Init /\ [][Next]_vars

\* Both processors run on the crystal, whether or not the host uses the bus; a
\* host that writes a sector does feed it.  Nobody has to abort a command or to
\* put the card back.
Feed == \E op \in HostOps : op.port = "DATA" /\ StatusDrq /\ Tick(op)
Fairness == WF_vars(Tick(NoOp)) /\ WF_vars(Serve) /\ WF_vars(Feed)
FairSpec == Spec /\ Fairness

-----------------------------------------------------------------------------
TypeOK ==
  /\ wd \in WdType /\ slave \in SlaveType /\ asked \in Asked
  /\ status \in SUBSET StatusBits /\ slack \in 0 .. PollTicks
  /\ buf \in [Addr -> Byte] /\ given \in [Addr -> Byte] /\ disk \in [Lbas -> [Addr -> Byte]]
  /\ card \in BOOLEAN

\* One request at a time.  While the workhorse works on a request (a READ,
\* READADDR, WRITE or NOP it sampled from MASTER_COMMAND) the controller still
\* makes that request and still waits for its answer: no request is served
\* twice, and none outlives the command that made it.
Waits(o) == CASE o = "WRITE" -> "WAIT_CPUWRITE"
              [] o = "NOP" -> "WAIT_CPU" [] OTHER -> "WAIT_CPUREAD"
Working  == {"RAISE", "SEEK", "COPY", "ANSWER", "NOP_BUSY", "NOP_DONE"}
ServesCurrent ==
  slave.pc \in Working =>
    slave.cmd = wd.request /\ wd.state = Waits(wd.request.op)

\* The n-th byte a READ puts into the data register is the n-th byte of the
\* sector that the registers named when the command was taken (for the sectors
\* of the image), and drive 1, which is not there, delivers none.
AskedLba == Lba(asked.side, asked.track, asked.sector)
ReadDelivers ==
  wd.state = "READSECT" /\ asked.op = "READ" /\ AskedLba \in Lbas =>
    asked.drive = 0 /\ wd.datareg = disk[AskedLba][SectorSize - wd.len]

\* READ ADDRESS returns the track, the side and the sector that the registers
\* named when the command was taken, the size code and two zeroes, for drive 0.
AddressDelivered ==
  wd.state = "READSECT" /\ asked.op = "READADDR" =>
    /\ asked.drive = 0
    /\ wd.datareg = <<asked.track, asked.side, asked.sector, 3 % ByteMod, 0, 0>>
                      [AddrSize - wd.len + 1]

\* When the workhorse is about to report a WRITE as done, the sector that the
\* registers named when the command was taken holds what the host sent.
WriteStored ==
  /\ slave.pc = "ANSWER" /\ slave.cmd.op = "WRITE" /\ slave.result = "OK"
  /\ AskedLba \in Lbas
  => disk[AskedLba] = given

\* No step changes a sector other than the one the current WRITE named.
OnlyAskedSector ==
  [][\A s \in Lbas : disk'[s] # disk[s] => asked.op = "WRITE" /\ s = AskedLba]_vars

\* The workhorse does not wipe its verdict "card error" off the port before the
\* controller has turned it into an error bit for the host: after FR_RW_ERROR it
\* leaves slave() without waiting for the ACK.
FailureNoticed ==
  slave.pc = "LEAVE" /\ "CRC" \in status => wd.crcErr \/ wd.wrFault

\* A host that waits for BUSY to fall never kills the controller.
NotDead == wd.state # "DEAD"

\* The workhorse stops serving for good only when the controller is dead.
StopsOnlyWhenDead == slave.pc \in {"FAIL", "HALT"} => wd.state = "DEAD"

\* Every command ends: the controller comes back to READY again and again,
\* provided the card comes back to stay.
CommandEnds == <>[]card => []<>(wd.state = "READY")

\* $D0 brings the controller back to READY, if the host does not keep on
\* aborting and the card is in.
AbortEnds == <>[](card /\ wd.state # "ABORT") => []<>(wd.state = "READY")
=============================================================================
