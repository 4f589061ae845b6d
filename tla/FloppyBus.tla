----------------------------- MODULE FloppyBus -----------------------------
(***************************************************************************)
(* What the two halves of the Vector-06C floppy emulator share: the WD1793 *)
(* look-alike (wd1793.v) the 8080 host talks to, and the 6502 "workhorse"  *)
(* that serves it from an SD card (slave.c).  floppy.v wires them with     *)
(* four ports and one kilobyte of dual-ported sector buffer.               *)
(*                                                                         *)
(*   wd.request, wd.diskTrack, wd.sector  the ports the workhorse reads    *)
(*   status                               the port it answers on           *)
(*   buf                                  the sector buffer                *)
(*                                                                         *)
(* Every byte-wide register holds a number of Byte; the code's modulus is  *)
(* 256.  The status port is the set of the bits that are 1.                *)
(***************************************************************************)
EXTENDS Naturals

CONSTANTS
  ByteMod,      \* the modulus of a byte-wide register: 256
  SectorSize,   \* bytes in a sector: 1024
  AddrSize,     \* bytes READ ADDRESS returns: 6
  ReadTicks,    \* ticks the controller holds back a byte: 15
  DogTicks,     \* ticks until the watchdog drops a byte: 2048
  PollTicks     \* ticks the workhorse spends, at least, in a call to the card

ASSUME ByteModAssumption    == ByteMod \in Nat /\ ByteMod >= 2
ASSUME SectorSizeAssumption == SectorSize \in Nat \ {0}
ASSUME AddrSizeAssumption   == AddrSize \in 1 .. SectorSize /\ AddrSize <= 6
ASSUME TicksAssumption      == ReadTicks \in Nat /\ DogTicks \in Nat
\* A call to the card (disk_poll sends CMD58 over the SPI) takes hundreds of
\* ticks; three are what the handshake needs.
ASSUME PollAssumption       == PollTicks \in Nat /\ PollTicks >= 3

VARIABLES
  wd,       \* the registers of the controller, a record (Wd1793)
  status,   \* wdport_cpu_status, written by the workhorse only
  buf,      \* bufpa, the sector buffer
  slack     \* ticks since the workhorse last touched a port, up to PollTicks

Byte == 0 .. ByteMod - 1
Addr == 0 .. SectorSize - 1
Bit  == {0, 1}

\* The answers of the workhorse (slave.h, CPU_STATUS_xxx).
StatusBits == {"COMPLETE", "SUCCESS", "CRC", "DRVNOTRDY", "BUSY"}

\* The requests of the controller (CPU_REQUEST_xxx): an operation and the
\* drive and side in the low bits of the port.  "NONE" is the value 0.
RequestOps == {"NONE", "READ", "WRITE", "READADDR", "NOP", "ACK", "FAIL"}
Request    == [op : RequestOps, drive : Bit, side : Bit]

Plain(o) == [op |-> o, drive |-> 0, side |-> 0]

\* The controller takes the buffer from the workhorse by holding its clock
\* enable down while it reads or writes a byte.
Frozen == wd.bufRd \/ wd.bufWr

\* The workhorse reaches its next port access after at least n of its ticks.
Reaches(n) == ~Frozen /\ slack >= n
=============================================================================
