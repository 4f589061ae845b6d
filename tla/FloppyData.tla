----------------------------- MODULE FloppyData -----------------------------
(***************************************************************************)
(* Why what is read and written is the sector that was asked for: the      *)
(* inductive invariant behind ReadDelivers, AddressDelivered,              *)
(* FailureNoticed and WriteStored, on top of the handshake.                *)
(***************************************************************************)
EXTENDS FloppyInv

\* A host that leaves every register alone until the command has ended.
Meek == HostMay = {}

\* The bytes that the command has the workhorse put into the buffer.
Size == IF asked.op = "READADDR" THEN AddrSize ELSE SectorSize
Mark == <<asked.track, asked.side, asked.sector, 3 % ByteMod, 0, 0>>
Fetched ==
  /\ asked.drive = 0
  /\ asked.op = "READ" /\ AskedLba \in Lbas => buf = disk[AskedLba]
  /\ asked.op = "READADDR" => \A k \in 0 .. AddrSize - 1 : buf[k] = Mark[k + 1]

\* While the host is kept waiting, the ports name what it asked for.
InvNamed ==
  wd.state \in {"WAIT_CPUREAD"} \union Reading =>
    /\ wd.busy /\ wd.command = asked.op
    /\ wd.request = [op |-> asked.op, drive |-> asked.drive, side |-> asked.side]
    /\ wd.diskTrack = asked.track /\ wd.sector = asked.sector

\* Address and length move together, over a buffer that was filled.
InvSent ==
  /\ wd.bufWr => wd.state = "WRITE_2"
  /\ wd.state = "WAIT_CPUREAD" => wd.len = Size
  /\ wd.state \in Reading => wd.addr + wd.len = Size /\ Fetched
  /\ wd.state = "READSECT" => wd.datareg = buf[wd.addr]
  /\ wd.state = "WAIT_CPUREAD" /\ "SUCCESS" \in status => Fetched

\* How far the workhorse got with filling it.
AtAsked == slave.side = asked.side /\ slave.track = asked.track /\ slave.sector = asked.sector
InvFetching ==
  /\ slave.pc \in {"RAISE", "SEEK", "COPY", "ANSWER"} =>
       slave.cmd.op \in {"READ", "READADDR", "WRITE"}
  /\ slave.pc \in {"SEEK", "COPY"} =>
       slave.result = "OK" /\ (slave.cmd.op # "WRITE" => slave.cmd.drive = 0)
  /\ slave.pc = "COPY" /\ slave.cmd.op # "WRITE" =>
       /\ AtAsked
       /\ slave.cmd.op = "READ" /\ AskedLba \in Lbas =>
            \A k \in Addr : k < slave.pos => buf[k] = disk[AskedLba][k]
  /\ slave.pc = "ANSWER" /\ slave.cmd.op # "WRITE" /\ slave.result = "OK" => Fetched

\* A verdict that was read off the port has left its mark.
InvNoticed ==
  /\ wd.state = "WAIT_CPU" => "CRC" \notin status
  /\ wd.state \in {"ENDCOMMAND", "ENDCOMMAND2"} /\ "CRC" \in status => wd.crcErr \/ wd.wrFault

DataInv == InvNamed /\ InvSent /\ InvFetching /\ InvNoticed

\* A sector that is collected, and then stored.
InvCollected ==
  /\ wd.state \in Writing \union {"WAIT_CPUWRITE"} =>
       /\ asked.op = "WRITE" /\ wd.side = asked.side
       /\ wd.diskTrack = asked.track /\ wd.sector = asked.sector
  /\ wd.state \in Writing =>
       /\ wd.addr + wd.len = SectorSize
       /\ \A k \in Addr : k < wd.addr => buf[k] = given[k]
  /\ wd.state \in {"WRITE_1", "WRITE_2"} => wd.datareg = given[wd.addr] /\ ~wd.drq
  /\ wd.state = "WRITE_2" => wd.bufWr
  /\ wd.state = "WAIT_CPUWRITE" => wd.request.side = asked.side /\ buf = given
InvStoring ==
  /\ slave.pc = "COPY" /\ slave.cmd.op = "WRITE" =>
       /\ AtAsked
       /\ AskedLba \in Lbas => \A k \in Addr : k < slave.pos => disk[AskedLba][k] = buf[k]
  /\ WriteStored
StoreInv == InvCollected /\ InvStoring
=============================================================================
