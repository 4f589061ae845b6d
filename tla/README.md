# ReVerSE-U8: a verification project

ReVerSE-U8 is a board with an FPGA, and a collection of retro computers for
it.  This directory models the parts of the collection whose correctness is a
matter of protocol rather than of signal generation, checks the models with TLC
and proves the theorems that matter most with TLAPS.  Paths below are relative
to the repository.

## 1. The system

| Part | Where | State and operations | What is hard about it |
|---|---|---|---|
| WD1793 controller | `u8_vector/src/floppy/wd1793.v` | track, sector, data, command registers; a 15-state machine; a request port towards the workhorse. Operations: register accesses of the 8080, one transition per clock | two masters at once; non-blocking assignments that override one another; a busy flag that locks registers; a watchdog |
| Floppy bus | `u8_vector/src/floppy/floppy.v` | four ports, 1 KB sector buffer with two users, the 6502's clock enable | the controller stops the processor it is waiting for |
| Workhorse loop | `u8_vector/firmware/floppysrc/slave.c`, `main.c` | mounted image, request being served, status port. Operations: mount, poll, serve READ, WRITE, READADDR, NOP, ACK, FAIL, idle | requests are sampled, served and answered in separate steps; the card may go; failures in mid-transfer |
| Floppy image | `.../fddimage.c` | position, file. Operations: load, seek, read, write, read address | sector 0, positions outside the image, errors nobody reads |
| FAT files, reading half | `.../tff.c`, `philes.c` | mounted volume, one sector window, file and directory objects. Operations: mount, look up, list, open, seek, transfer | chains across sectors and clusters, a window that three users share, cards that change, the sticky error, the end of the file |
| FAT files, writing half | `.../tff.c` (`_FS_READONLY 0`) | FATs, directories, dirty window, free count. Operations: write, sync, close, create, delete, mkdir, rename, chmod, free space | the order of writes when the power goes; a full disk; not compiled into the firmware |
| SD card driver | `.../mmc.c`, `timer.c`, `timer100hz.v` | card type, initialised or not, two timers. Operations: poll, initialise, read, write, ioctl | timeouts that race the answer, tokens, retries, cards swapped in mid-call |
| SPI and DMA | `u8_vector/src/floppy/spi.v`, `dma_rw.v` | shift register, block and byte counters | the pump holds the processor; handshake with the shifter |
| On-screen menu | `.../menu.c`, `osd.c` | cursor, page, menu state, what is lit. Operations: dispatch (from two callers), page, pick | unsigned arithmetic on the cursor; a directory that changes under the list; held buttons |
| Rest of the Vector-06C | `u8_vector/src` | 8080 core, video, keyboard, sound, timers | third-party cores and signal generation |
| NES serial link | `u8_nes/hw/src/cmn/fifo`, `cmn/uart` | two byte queues, two shifters | read and write of a queue in the same cycle, a full queue |
| NES host interface | `u8_nes/hw/src/hci/hci.v` | packet decoder, counters, debug break. Operations: one per opcode and stage | flow control, losing step with the sender, packets to a NES that runs |
| NES debugger | `u8_nes/sw/src` | packets sent, answers awaited. Operations: connect, load a ROM, raw packets, scripts | timeouts, late answers, ignored failures |
| NES console | `u8_nes/hw/src` (cpu, ppu, apu) | the emulated machine | data paths |
| ZX Spectrum, TS-Conf, MSX | `u8_speccy`, `u8_tsconf`, `u8_msx` | ports of other projects | outside the scope chosen here |

The floppy emulator is the part with the most interaction:

    8080 program --registers--> wd1793.v --request port--> slave.c --f_read--> image on SD card
                 <--status,data--        <--status port---         <---------
                                  \----- sector buffer ----/
                                   clock enable of the 6502

* The 8080 writes a command.  The controller sets BUSY, puts a request on its
  port (READ, WRITE, READADDR or NOP) and waits.
* The workhorse polls the request port, posts BUSY, moves the sector between card
  and buffer, and posts COMPLETE with SUCCESS or CRC.
* The controller hands the buffer to the 8080 byte by byte (during which it holds
  the 6502's clock), then requests ACK and waits until the status port reads 0.
* A WRITE runs the other way round: bytes first, the request after them.
* A $D0 command aborts whatever is going on.  A command written on top of one that
  is still pending kills the controller, on purpose, "for debugging".

What makes it correct: a request is served once and only while it is being made;
a read delivers the sector asked for; a write stores what was sent, there and
nowhere else; failures reach the host; commands end; neither side dies or stalls
without cause.

Under the workhorse loop there is a stack of three layers, each modelled against what
the one above expects of it:

    slave.c, fddimage.c   sectors of a floppy        (Slave; Drive states what they expect)
    tff.c, philes.c       files, chains, directories (Tff, Image: shown to implement Drive)
    mmc.c, timers, card   sectors of a card          (Card: shown to give what Tff assumes)

What makes it correct: from whatever card is in, the blocks of the opened image and no
others are moved, an answer OK means they were, and after any failure the loop gets back
to serving.

The NES is debugged from a PC: `nesdbg.cpp` sends packets over a serial line, `hci.v`
executes them and sends the answers back.  Nothing but the wait for an answer keeps the PC
from sending too fast, and nothing but counting bytes keeps the two in step.  What makes it
correct: each answer is taken for the packet it belongs to, a ROM is started only when it is
in place, and operations end though answers are lost.

The hazards that matter most are listed with their lines in `PROJECT.json`, the others in
section 3.

## 2. The modules

| Module | What it is |
|---|---|
| `FloppyBus` | what both sides share: the ports, the buffer, the clock enable, the sizes and delays |
| `Wd1793` | the controller, one action per state (and outcome) of `_wdmain` |
| `Slave` | the workhorse: `main`, `thrall`, `slave`, `blink`, with what `fddimage.c`, `tff.c` and `mmc.c` mean to it |
| `Floppy` | both together with an 8080 host and the card slot; the specification and its properties |
| `FloppyInv` | the inductive invariant behind the handshake, as named parts |
| `FloppyData` | the inductive invariants behind what is read and written, on top of the handshake |
| `FloppyProofs` | the theorems: types, handshake and death; then what is read and written |
| `MCFloppy` | values for TLC; each `.cfg` of the floppy is one run of it |
| `Tff` | the reading half of `tff.c`: window, FATs, directories, names, seek, next sector, as sets of outcomes |
| `Image` | `thrall`, `slave`, `philes.c` and `fddimage.c` on top of `Tff`, one action per card access; the properties, and the refinement of `Drive` |
| `ImageInv` | what a sound card is, the inductive invariant behind the properties of `Image` on such cards, and what `Drive` needs on top of it |
| `ImageProofs` | the theorems about it: window, chain, listing, and where is written; on sound cards it implements `Drive` |
| `Drive` | the abstract specification: an array of blocks that comes and goes with the card |
| `MCImage` | three cards, built as raw sectors from a description of their files |
| `Card` | `mmc.c` with its timers, and the card it talks to |
| `MCCard` | one card of each kind |
| `CardProofs` | its theorems: no card is addressed in another's unit, and the right blocks are moved; one that works listens and is served |
| `Menu` | `menu.c` with its two callers and the directory it lists |
| `MCMenu` | a card with less than a page of images, one with more |
| `MenuProofs` | the theorems: a press counts once, picks what is lit, and the last page is the last |
| `FatDisk` | the functions of the writing half of `tff.c`, as operators on the state of a volume |
| `FatWrite` | its calls, and a client that makes them; the card may be cut off at each access |
| `MCFat` | three small volumes |
| `Hci` | `hci.v` and the two receive and transmit queues |
| `NesDbg` | the debugger on the PC, composed with `Hci`; the properties |
| `NesInv` | the inductive invariant: where the packets begin on the line, how far the decoder is in one, what it has said |
| `NesProofs` | the theorems: debugger and `hci.v` stay in step |
| `MCNes` | small banks, and ROMs, scripts and packets whose data contain opcodes |
| `Fifo` | the queue of `fifo.v`: its registers and the function from one clock to the next |
| `Queue` | the abstract specification: what a bounded queue promises |
| `FifoQueue` | a fifo under every sequence of enables; the refinement of `Queue` |
| `Uart` | the transmit half of `uart.v`: queue and shifter |
| `FifoLemmas`, `FifoQueueProofs`, `UartProofs` | the theorems about the link |

### From the code to the model

*Time.*  Controller and workhorse run on the same clock enable (`cpu_ce`).  A tick
of the controller is one action `Tick(op)`, where `op` is the host's register
access in that tick, or none.  Within a tick the register section comes first and
the machine second, and the later non-blocking assignment wins: `Bus(op)` is the
first, `[Bus(op) EXCEPT ...]` the second.  So an abort that coincides with a
transition is lost in the model as it is in the circuit.

*The workhorse* is code on a 6502; one action stands for the stretch from one port
access (or byte moved) to the next.  A stretch takes time: `slack` counts the ticks
the 6502 was enabled since its last port access, `Reaches(1)` says a stretch of
straight-line code takes at least one, `Reaches(PollTicks)` that one across a call
to the card takes at least `PollTicks`.  No upper bound is assumed.  The 6502 does
nothing while `Frozen` (`wd_ram_rd | wd_ram_wr`, `floppy.v:128`).  `PollTicks >= 3`
is the only timing assumption; `disk_poll` shifts dozens of bytes through the SPI,
hundreds of ticks.  It is needed: with 2 the workhorse can see the request it has
just answered a second time, and `ServesCurrent` fails.

*Data.*  The status port is the set of its bits, a request is a record.  The buffer
and the image hold `SectorSize` bytes per sector, moved one at a time, so that every
interleaving with the controller, and a failure after any byte, is there.  A read
or write outside the image transfers nothing and succeeds, as `f_lseek` and
`f_read` make it do.

*The environment.*  The host issues commands and register accesses from small sets.
By default it is patient: it touches nothing until its command is over.  `HostMay`
adds liberties: `early` (it starts over when BUSY falls), `abort` ($D0 at any tick),
`barge` (commands regardless of BUSY).  `Faults` adds `eject` (the card goes and
comes), `error` (a mount or a transfer fails at any point), `menu` (another disk is
chosen) and `stack` (the uninitialised `result` of `slave()` happens to hold
FR_RW_ERROR; the other uninitialised local, `t1`, is always arbitrary).

*The serial link.*  `FifoStep` is the whole of `fifo.v` for one clock; an action of
`FifoQueue` and of `Uart` is one clock, with every input free: read and write enables, the
byte, and (in `Uart`) whether the baud clock brings the byte being sent to its end.  The
shifter's four sending states are one state of arbitrary length.  Cells that were never
written hold `Unknown`; no property lets one reach the reader.  `Contents` reads off the
pointers what is in the queue, independently of the flags (the full flag only tells a full
queue from an empty one when the pointers are equal), so that the flags can be checked
against it.

*Files.*  A sector of a FAT is a function to bytes (so that FAT12 entries do lie across sector
ends), one of a directory a function to entries, one of a file a function to data; the boot
record is a record.  Names are sequences of characters, since `OpenListed` is about the way
from a directory entry to a name and back.  Card accesses are steps: between any two of them
the card may be pulled, swapped for another or begin to fail, and each access then succeeds
or fails.  Offsets wrap (`OffsetMod`), and so do mount IDs.  `Image` refines `Drive` with the
image read off the card through the chain of the file; a partial last block is no block of
the image.  A volume whose file has a broken chain counts as faulty.

*The card.*  A loop that waits is modelled byte by byte, with a timer that counts at most once
per turn (a turn takes less than 10 ms); a command packet with its answer, and a block, are one
step.  A card that works answers before the first tick is over or, where the code allows more,
just before the last; one that was pulled reads as ones.  `Delivers`, `Stored` and `Serves`
are exactly what `Tff.DiskRead` and `Tff.Initialised` assume.

*The menu.*  A call of `menu_dispatch` is two steps, up to the first look at the joystick and from
there; the joystick changes at any time, and so may the card.  A page is drawn by walking the
directory from its start, any step of which may fail.  `thrall()` and `slave()` take turns as
they do in the code: `slave()` returns when a name was picked, or for reasons of its own.  What is in
inverse is kept for the cells of the selector, which are those of the header too (`osd_cls`); the menu's own
items are not drawn, as the selector begins with a clear screen.

*The writing half.*  It is compiled out (`tff.h:27` `_FS_READONLY 1`, `tff.h:32` `_FS_MINIMIZE 1`,
`diskio.h:8` `_USE_IOCTL 0`) but part of the source, and the half in which the order of
accesses matters.  A call is an action whose outcomes include its being cut off at each
access; a write that is cut off may have reached the card or not.  Half of a sector does not
reach it.  Data are told apart by the file they were written for, per half sector.

*The debugger.*  A byte on the line is a step, in each direction; the queues in `uart.v` have
`Cells` places, and the decoder has come to rest whenever a byte ends (it runs some 28000 clocks in
that time).  `ReceiveData` returns when all bytes are there, or short: because nothing more comes,
or because the answer is late (fault `late`).  `WriteFile` may take less than a packet (`cut`), and
the last byte of an answer may stick in the transmit queue (`stick`, what `fifo.v:97` does).
`upset` is 0 until one of these has happened, or a packet was sent to a running NES; after that the
two sides are out of step for good, since nothing discards late bytes, until power is cycled.
Debug builds stop at a failed assertion (`util.h:35`), release builds go on.  The program on the
NES may halt at any time.

*Left out.*  Index pulse, head-loaded, track-0 and read-only bits, the diagnostic low
bits of ACK and NOP, the multisector code (not compiled), the console, the LEDs.
Step direction is a free choice: `wStepDir` looks at the data bus after the write
cycle is over.

## 3. What the runs check

**Floppy emulator.**  Sectors of 2 bytes, an image of 2 sectors with 1 per side and track, one tick
of read delay, one of watchdog and `PollTicks = 3`; byte registers count modulo 3 (modulo 2 in `Faults`).  Two bytes are
enough for a first, a last and a "next" byte; two sectors for a wrong one; sector 0 and track 0 for
addresses that reach below the image and side 1 for one that lies before side 0.  Every delay is at
its smallest value that still has both outcomes (waiting and not); the theorems do without any of
these bounds.

| Run | Environment | Checks |
|---|---|---|
| `Transfer` | patient host; RESTORE, READ, WRITE on both sides, sectors 0 and 1, two data values | `ServesCurrent`, `ReadDelivers`, `WriteStored`, `OnlyAskedSector` |
| `Faults` | host starts early; all faults; RESTORE, STEP, READ, WRITE, READADDR | `TypeOK`, `Handshake`, `FailureNoticed`, `NotDead`, `AddressDelivered` |
| `Rough` | abort, barge; READ, WRITE | `NoUnderrun`, `StopsOnlyWhenDead` |
| `Live` | early; eject, menu; with fairness | `CommandEnds` |

**Files.**  `Files` has three cards.  One is partitioned, FAT12 with one sector per cluster, sectors
of 2 bytes so that every second entry of the FAT lies in two of them, and its file in four
clusters out of order.  One is FAT16 without partitions, two sectors per cluster, with a file whose
size is no multiple of a sector and one whose chain breaks off.  One is no FAT volume.  Their
directories hold deleted entries, labels, a directory and a file of the same name, an empty file,
and names in use with blanks.  A request is for a whole sector, for the one with the end of the
file, or for sector 0 (below the image); cards are swapped, accesses fail and the user browses at
any step.  The mount ID counts modulo 2 and offsets modulo 64, so both wrap.

| Checks | In words |
|---|---|
| `IsDrive` | what `slave()` is given implements `Drive`: blocks of the opened image, an OK only if all of the request that lies in the image was moved |
| `WindowTrue` | the window holds the sector it says it holds |
| `FilCoherent` | cluster, sector and counter of the file object agree with the chain |
| `OnlyOwnSectors` | no sector outside the opened image is ever written |
| `ListsAll`, `OpenListed` | a listing that was not cut short shows the images and nothing else, and what it shows can be opened |
| `EventuallyServes` | once a card with an image stays and works, it is served from again and again |

**Card.**  `Card` has one card of each kind (MMC, SD 1, SD 2, SDHC), three blocks of two bytes, byte
addresses modulo 8 (so that sector 5 wraps), timers of 2 and 3 ticks (their first and last tick
matter), transfers of one and two blocks, a few of the questions of `disk_ioctl`.  `POWER_OFF` is
modelled but not called in this instance, which it would make too large; `PowerOff` itself is
reached from each failed `disk_initialize`.  The card is pulled, put back, swapped or fails at any byte.
Checked are `TypeMatches`, `Delivers`, `Stored`, `Serves`, `Heard` and, with fairness, `CallsReturn`.

**Menu.**  Pages of two lines (the code has six; the first and the last must differ),
directories of 2 and 5 images, bytes modulo 16, six positions of the joystick (UP comes with LEFT).  Checked are
`EndSeesAll`, `PicksLit`, `OncePerPress` and, with fairness, `SelectorLeft`.

**NES.**  `Nes` has queues of two cells, bytes as wide as they are, banks of 4 and 2 bytes, ROMs and
scripts whose data contain opcodes, one fault until power is cycled, one script.  Checked are
`InStep`, `HaltSeen`, `RomRuns` and, with fairness, `CallsReturn`.

**Writing half.**  `FatWrite` has three volumes of four clusters: FAT12 with a file in two pieces,
FAT12 empty, FAT16 with a directory of two clusters.  Five calls suffice to open, write, write
across a cluster, close and delete (or have the power cut and look again), writes are of 1 or 5
half sectors, and the disk can fill.  One cut is allowed, at any access of any call.  The client's
rules are in the module comment; each is needed: a file opened twice, or an open file that is deleted,
has two owners of its chain; after a short write `sect_clust` is 0 and the next one makes it 255
(`tff.c:1031`); a seek back to a
sector that was only begun lets the next `f_write` send it to the card whole (`tff.c:1051`), past the
window that still holds the begun one and is written back over it later: without the client's rule to
synchronise first TLC finds `Kept` violated by open, write 1, seek 0, write 5, synchronise.  The
system may stop: after five calls there is nothing left to do (`CHECK_DEADLOCK FALSE`).  Checked are
`Consistent`, `Kept` and `Accounted`.

**Link.**  `FifoQueue` (eight cells as in `uart.v`, all enables, two byte values, no other bound):
`FlagsCautious`, `IsQueue`.  `Uart` (any client, four cells, up to six bytes, with fairness): the
queue can fill, refuse, wrap around and drain; `SentOnce`, `AllButOneSent`.  The theorems do
without these bounds.

The properties in words are above their definitions, each in the module whose state it speaks of.
Each has a mutant of the code, defined just before the operator it replaces and marked as such,
that TLC finds out with the same run.

### What the code does against what it says

One run is kept that TLC must find violated: `AbortHang` (`AbortEnds`).  $D0 during the data phase
of a READ: `STATE_ABORT` leaves `buff_rd` up, the 6502 has no clock, and `STATE_ENDCOMMAND2` waits
for it for ever, though `wd1793.v:105` has it lead to READY.

Others were found the same way and are described here only; each follows from the models if the
restriction named is lifted.

| Where | What happens | Not seen by the runs because |
|---|---|---|
| `slave.c:119` | $D0 after the workhorse sampled a READ and before it posted BUSY: the status port still reads 0, the abort ends at once, and the next READ takes the first one's answer for its own | `ReadDelivers` is checked without `abort` |
| `wd1793.v:571` | BUSY, which locks the registers, falls while the WRITE is still waiting to be served; a host that sets up its next sector diverts the data there | `OnlyAskedSector` is checked without `early` |
| `slave.c:180` | a WRITE request carries no drive, and its handler tests `t1` of an earlier request, or of none | no property speaks of drive 1 |
| `fifo.v:97` | a byte written in the clock in which the last one is popped stays in the queue until the next write, since the queue says empty | `AllButOneSent` excepts it |

The last one can be met in practice.  While `hci.v` echoes, bytes arrive and leave at the same rate,
so that each answer is written about when the one before it is done; if the two meet at the last
byte of an answer, the debugger waits for it in vain.  `Nes` has it as the fault `stick`.

Not stated as properties, because neither code nor docs promise otherwise, but worth
knowing: a failed WRITE without the CRC bit sets no error flag (`wd1793.v:552`); a
READ outside the image succeeds with the buffer's old content (`fddimage.c:96`,
`tff.c:925`); the lost-data flag tells of the last byte only (`wd1793.v:432`);
the drive reads ready after reset and between two images, since `main()` and `slave()`
clear the ready bit with the rest of the status port (`main.c:83`, `slave.c:233`), though
`wd1793.v:224` has it that the processor clears it "only when fdd image is loaded".

* Files: a FAT that cannot be read ends a directory as its end does (`tff.c:361`), and any failed
  open makes `thrall()` fall back to the first image (`slave.c:86`).  A write to the partial last
  sector of an image stores nothing and reports FR_OK (`tff.c:962`); a seek past the end is OK and
  the transfer empty.  `fddimage.c:51` computes `ntracks` 25 times too large, which nobody reads.
* Card: pulled within a block, it reads as ones, and the call says RES_OK since the checksum is
  ignored (`past.torn`).  That a block was accepted is not that it was programmed: CMD13 is never
  sent.  `sector * 512` wraps from sector 2^23 on, on cards addressed by bytes (`Fits`).
  `disk_ioctl` reports OK for registers it never stored, because `rcvr_datablock` pumps
  `btr/512` blocks, none for 16 bytes (`mmc.c:213`).
* Menu: LEFT in column 0 makes the column 255 (`menu.c:183`): in the first row that selects two
  letters of the header, which is in inverse anyway (`osd.c:39`), so that nothing on the screen tells; in
  the others an item of the row above.  A name that no file has fails to open, and the first image is taken.  A directory that cannot be read leaves the old page with
  "more" set, a walk that fails a blank one.
* Debugger: nothing discards late bytes, so that after one short answer every later one is shifted.
  A running NES takes each byte of a packet for an opcode.  A script does not halt the NES first, so
  its reads time out after `LoadRom`.  On a timeout `WaitForHlt` looks at an old byte
  (`scriptmgr.cpp:427`); a program of less than two bytes becomes a transfer of 65534 or 65535
  (`scriptmgr.cpp:482`; programs of two bytes or more are assumed).
* Writing half: a directory that grows is linked before its new cluster is clean (`tff.c:588`), and
  a rename has two entries for a moment (`tff.c:1601`); a cut there is excused (`torn`) and what
  follows is not modelled.  A FAT error makes a directory end early, and `reserve_direntry` then
  gets an existing cluster from `create_chain`, clears it and reports FR_OK (`tff.c:587`): with
  fault `glitch` and a directory of two clusters `Kept` fails.  `f_unlink` may delete a directory
  that is not empty for the same reason, and `f_getfree` counts unreadable clusters as used.
  `f_close` repeated after a failed one reports OK without writing (`tff.c:1112`).  Failures to write
  the second FAT are ignored.  Clusters lost by a cut are expected.

### Fairness

`FairSpec` of `Floppy` asks for three things.  `WF(Tick(NoOp))`: the clock of the controller
runs, whether or not the host uses the bus.  `WF(Serve)`: the 6502, when it has a
clock, gets on.  Both are the crystal.  `WF(Feed)`: a host that has begun to write a
sector sends its bytes, without which a WRITE never ends, in the circuit either.  There
is no fairness on aborts, on the card slot, or on reading data (the watchdog takes the
byte away); `CommandEnds` asks for a card that is eventually in for good.
`CommandEnds` is checked with `eject` and `menu` but without `error` and `stack`: a
card that fails for ever keeps the workhorse mounting for ever.

`FairSpec` of `Uart` asks for the clock (`WF(Next)`) and for the baud clock, which ends
every byte (`WF(Tick(TRUE))`).  There is no fairness on the client's writes: whether a byte
leaves must not depend on them.

`Image`: `WF(Work)`, the workhorse runs; nobody has to ask, browse or touch the card, and that a
card comes to stay and works is the premise of `EventuallyServes`.  `Card`: `WF(Driver)`, the
processor; `WF(Good /\ CardWorks)`, a card that works answers; `SF(Tick(1))`, `SF(Tick(2))`, time
passes (strong, because a turn of the loop disables a second tick).  `Menu`: `WF(Call)`, `WF(Keys)`, both
the workhorse.  `NesDbg`: the program gets on (`SendData`, `ReceiveData`), the clocks of NES and
line run, and the program on the NES gets to its break (strong, because it is disabled while bytes are
under way; in the circuit the break is looked at in each clock of `S_DISABLED`, before anything
else).  `FatWrite` states no liveness.

## 4. What is proved

For the floppy, `FloppyProofs` is checked to the last obligation, for all constants that satisfy
the named assumptions (`ByteMod >= 2`, sizes at least 1, `AddrSize` at most 6 and at most the
sector, delays natural numbers, `PollTicks >= 3`, at least one sector in the image, constants of
the host of the right type).

| Theorem | States | For which host |
|---|---|---|
| `TypeCorrect` | `[]TypeOK` | any |
| `LengthCorrect` | `[]NoUnderrun` | any |
| `HandshakeCorrect` | `[](Patient => Handshake)` | neither aborts nor barges |
| `ServesCurrentCorrect` | `[](Patient => ServesCurrent)` | neither aborts nor barges |
| `NotDeadCorrect` | `[]("barge" \notin HostMay => NotDead)` | does not barge |
| `StopsOnlyWhenDeadCorrect` | `[]StopsOnlyWhenDead` | any |
| `ReadDeliversCorrect` | `[](Patient => ReadDelivers)` | neither aborts nor barges |
| `AddressDeliveredCorrect` | `[](Patient => AddressDelivered)` | neither aborts nor barges |
| `FailureNoticedCorrect` | `[](Patient => FailureNoticed)` | neither aborts nor barges |
| `WriteStoredCorrect` | `[](Meek => WriteStored)` | nothing until the command has ended (`HostMay = {}`) |
| `OnlyAskedSectorCorrect` | `OnlyAskedSector` | the same |

The argument has two layers.  First, each of the many actions is shown to be one of a
few moves: the lemmas `AcceptMoves`, `SendMoves`, `ReceiveMoves` and `FinishMoves` give
`MachineMoves` (every tick is one of the moves of `Advances`), and `WorkhorseCourses`
does the same for the workhorse.  A move says only what the other side may see: state,
request, length, clock enable; program counter and status.  Second, the invariants are
shown to be kept by every move.

`ServesCurrent` is not inductive.  That the workhorse never takes the same request twice
depends on how far the controller gets between the answer and the next sampling; so
`Handshake` adds which request each state leaves on the port (`InvRequest`), which answer
stands at each place of the workhorse (`InvStatus`), when the clock may be held
(`InvFrozen`), and, in `InvSettling`, how many ticks after the answer the controller is in
each of the states it passes on its way to ENDCOMMAND2: at most 0 while waiting, 1 in
READ_2, 2 once the clock is held.  Three ticks are thus enough, which is what
`PollAssumption` gives.  `TypeOK` and `NoUnderrun` support each other (a length that
counted past 0 would leave its type) and are proved together.

`NotDead` needs `BUSY` to cover the tick between the write of a command and its
acceptance, and `StopsOnlyWhenDead` needs that a FAIL request is made by a dead
controller only and that death is final.

What is read and written follows from the handshake, which says that the workhorse serves a
request while it stands; what has to be added is that nothing the sector is found by moves in
the meantime.  `DataInv` (`FloppyData`) says so for a READ and a READ ADDRESS: the request port, the
track and the sector register are those of the command while the host is kept waiting
(`InvNamed`: `fdd_seek` reads the ports long after the request was sampled); the workhorse has copied
the first `pos` bytes of that sector (`InvFetching`); address and length add up to the size over a
buffer that is filled (`InvSent`); and a CRC verdict that was read has left its mark (`InvNoticed`).
`StoreInv` does the same for a WRITE, from the bytes given (`InvCollected`) to the bytes stored
(`InvStoring`), and is where the host has to be meek: BUSY falls before the workhorse has stored
the sector (`wd1793.v:571`, section 3), so that a host that starts early can divert it.  As above,
each action is first shown to be a move (`SendData`, `ReceiveData`, `FinishData`, ...), and TLC agreed
to both invariants before they were proved.

The card driver and the menu are proved for all constants that satisfy the named assumptions of
their modules.  Card: the calls are those of `diskio.h`, with a count of at least 1, since `disk_read` and
`disk_write` return at once for 0 (`mmc.c:467`, `mmc.c:505`; `CallsAssumption`); a block has a byte
(`BlocksAssumption`); and each of the driver's three times has the ticks a card needs to be heard, one
to answer in and one for the turn of the loop under way (`TimesAssumption`; the code has
10, 50 and 100 ticks or more).  A card has a block, and one that is addressed by bytes has no more
of them than 32 bits of address tell apart, which is why larger ones are addressed by blocks
(`SizeAssumption`).  Menu: a page has a line, its indices fit a byte, and the
joystick can be let go (`MenuAssumption`); a directory has a number of images, and "no card" is not
one (`DirectoriesAssumption`).

| Theorem | States |
|---|---|
| `TypeMatchesCorrect` | `Spec => []TypeMatches` (`Card`) |
| `StoredCorrect` | `Spec => []Stored` (`Card`) |
| `DeliversCorrect` | `Spec => []Delivers` (`Card`) |
| `HeardCorrect` | `Spec => []Heard` (`Card`) |
| `ServesCorrect` | `Spec => []Serves` (`Card`) |
| `OncePerPressCorrect` | `Spec => OncePerPress` (`Menu`) |
| `PicksLitCorrect` | `Spec => PicksLit` (`Menu`) |
| `EndSeesAllCorrect` | `NLines > 1 => (Spec => []EndSeesAll)` (`Menu`) |

`TypeMatches` alone is lost between two commands of `disk_initialize`, when the card is ready and
its type not yet known.  Its invariant therefore says which commands each place of that call can
be about to send (`InvInit`), that no other call sends one that gets a card ready (`InvOther`), that a
card in the slot starts from power-up (`InvEmpty`), and that on the path which ends in byte addresses
a card addressed by blocks is never ready, since nothing on that path offers it the HCS bit
(`InvUnit`).  A swap may come in the middle of any call; that it is noticed first is not assumed.

`Stored` and `Delivers` say something of a call that has ended; in the middle of one, their invariant
(`DInv`) says that a card that runs a transfer is the card of the call, since another is in its
native mode (`InvSame`); that the card stands at the block which is next, counted from what the
driver has left to move (`Placed`); and what was moved before (`WData`, `RBlocks`), with one disjunct for each
stage of `disk_write` and `disk_read` (`InvWrite`, `InvRead`).  `Placed` is where `TypeMatches` is
needed: the address of the command is the place of the block only if the type is that of the card.

`Heard` needs the timers too.  A card that works does not keep the driver waiting for longer than
the first tick, and then the driver reads once more with a tick left (`InvTimer`, where `WaitTime >= 2`
is used); so that what was started is also stopped.  `InvRuns` says which transfer can run at each place of
each call, `InvBusy` and `InvOne` when the card may be busy, and before them `AInv` what `disk_poll` and
`disk_ioctl` can be about to send.

`Serves` follows a card that works from the first command to the answer (`SInv`).  `SInit` has one disjunct
for each place of `disk_initialize`: what kinds of card can have come there, which answer they give
there, and how much of Timer1 is left.  A card answers "idle" for no longer than the first tick, and
each loop looks at the timer once more after its last answer, so that three ticks are enough (`First`,
`Loop`, with `InitTime >= 3`).  `Served` does the same for the other calls: each command is answered
(`SReply`); what it started still runs while the block is waited for or sent (`SRun`); the
token comes before the last of the timer's ticks (`STime`); and nothing is left to be sent at
the stop (`SLeft`).  That the card takes the address needs `Placed` from above: the block asked for is
one it has, in its own unit (`RunsOnCard`, `FirstOnCard`).  `InvMmc` is there for `disk_ioctl`: an MMC card,
which knows no CMD55, is never taken for one of version 2, whose block size is asked for by one.

`OncePerPress` needs that FIRE, if it is down between two calls, is a press not yet acted upon,
and that the two states that wait for its release were entered by one (`InvPressed`).  `PicksLit`
needs that no place of the page but the selected one is lit while the selector is open, and that the
selected one is a place of the page or the header's, with the byte that LEFT
in column 0 leaves in the cursor (`InvLit`, lemmas `CursorMoves` and `CursorIndex`).  The header is
in inverse from the start (`Cleared`), so both it and the property speak of `lit \cap Index`.

`EndSeesAll` needs that what was shown is the beginning of the directory, up to the end of the page at
least (`InvShown`, `Extent`).  Pages overlap, so that this holds from page to page, and also when the byte
`fsel_pagestart` has wrapped around, since then a whole turn has been shown.  It is proved for pages of two lines
or more; the code has six (`menu.c:70`).  With one line `fsel_hasnextpage`, which is an old
one until the first page is drawn, would let a key skip that page.

The link is proved for every queue of at least three cells (with two, the flag conditions
for "one left" and "one to go" coincide).  `FifoLemmas` does the arithmetic of the pointers
once: `StepCount` (a clock changes the number of bytes by what it read and wrote, and keeps
the flags cautious) and `StepContents` (it removes the front and appends the byte).

| Theorem | States |
|---|---|
| `FifoTypeCorrect` | `Spec => []TypeOK` (`FifoQueue`) |
| `FlagsCautiousCorrect` | `Spec => []FlagsCautious` |
| `FifoIsQueue` | `Spec => IsQueue`: every clock is a `Put`, `Get`, `Pass` or stutter of `Queue` |
| `SentOnceCorrect` | `Spec => []SentOnce` (`Uart`) |

`FlagsCautious` is inductive with the types; the refinement needs it because a protected
read delivers a byte only if "not empty" can be trusted.  `SentOnce` needs `Held`: from the
start of a byte to the end of its done tick it stays at the front, so that the pop removes
the byte that was sent.

The files are proved for every set of sound cards, where the run has three.  `ImageInv` says what
sound means, for a card with a FAT volume on it (one without is just not mounted): the tables
lie one behind the other, and the FAT has an entry for each cluster (`SoundLayout`); names are
unique in a directory, free slots follow the slot that ends it, and its clusters are not those of an
image (`SoundRoot`, `SoundListing`); names are filled up with blanks and hold no dot and
nothing that is rejected in a path (`SoundName`); no sector is in two chains or twice in one (`SoundFiles`).  The
chain of an image may break off anywhere, lead out of the volume or be shorter than its size.  All
this is what a formatting PC leaves behind, and TLC evaluates it for the three cards of the run.  One
part is more than that: a name that the menu picks without having listed it (`Odd`), or that
`imagefile` starts with, is not that of another kind of file in the directory.  `Files` and the
sectors of `Volume` must agree, of course (`Describes`).  Of the sizes it is asked that a sector has an even
number of bytes and room for three directory entries, and that the range of offsets is a
multiple of a floppy sector (`SizesAssumption`; in the source 512, 16 and 2^32).

| Theorem | States |
|---|---|
| `WindowTrueCorrect` | `Spec => []WindowTrue` (`Image`) |
| `FilCoherentCorrect` | `Spec => []FilCoherent` |
| `ListsAllCorrect` | `Spec => []ListsAll` |
| `OpenListedCorrect` | `Spec => []OpenListed` |
| `OnlyOwnSectorsCorrect` | `Spec => OnlyOwnSectors` |
| `DriveCorrect` | `Spec => IsDrive`: every access to the card is a step of `Drive` or a stutter |

None of the first five is inductive, and they need one another.  That the window stays true while sectors are
written past it (`tff.c:951`) needs `Window`: a sector of an image gets into the window only
if it is the one with the end of the image in it, and that one is never among the whole
sectors that are written (`Moved`, `FractionPartial`).  That those are the image's needs the
file object to be where the chain says at each turn of the loop (`Placed`, `Heading` for the way there,
`Sending` for what is left to move), which in turn needs the FAT to be read truly, through the
same window (`GetClusterReads`, `NextSectorIs`).  That an image is opened at all needs
the walks: `Tracing` and `Listings` say that what is sought or not yet shown is
still ahead of the directory object (`Ahead`), with the clusters ahead defined as a least closed set
rather than by recursion (`Onward`).  The way of a name from the entry to
`imagefile` and back is `FileInfoSpells` and `DirfileSpells`.  `Mount` says that a card that answers is
the one that was mounted, since one that was swapped in has to be initialised first.
TLC agreed to the whole of `IInv` on the cards of the run, with failures and listings at any step,
before it was proved; with swaps too it takes TLC too long to evaluate, and the proof covers them.

`IsDrive` says what the bytes moved are.  It is proved for requests whose place lies within 32 bits
(or below the image, where the offset wraps), and images that end early enough for a wrapped
offset not to fall into them; tables and images lie on the card, and `NoImage` and `NoRequest` are
none (`DriveAssumption`; TLC evaluates it too).  On top of `IInv`, `DInv` says that what is moved are
blocks of data (`Blocked`), that a request is under way exactly where its image is being read or written
and answered once (`Answering`), and where the file pointer is (`Aiming`): on its way to the first block asked
for, or to the end of an image that ends before it; then at the next block, with the bytes left reaching
to the end of the request or of the image (`OnWay`); or, if the chain is too short, at its end (`Stuck`).  With
`Placed` from above, the sector at the file pointer is then the block that `Drive` moves next
(`BlockAt`, `ReadMoves`, `WriteMoves`), one that is moved through the window holds the same because
of `WindowTrue`, and what is left when the loop ends lies outside the image (`NoMore`), so that
`Drive` may drop it.  That a failure is the fault of the card needs the other direction, that nothing
else fails: on a card that works each access succeeds (`MoveWindowWorks`), the FAT is found for each
cluster of a chain (`GetClusterWorks`), and a chain that ends before the file does is a fault that
`Drive` knows (`NextSectorEnds`, `BrokenIs`).  TLC agreed to `DInv` on the run's cards, in 23730 states of the
instance without swaps, before it was proved; swaps and failures are covered by the proof.

The debugger is proved for every set of things to send, every content of the NES, every fault, and queues of any
length.  Of the link is asked that a byte can hold the thirteen opcodes, that a queue has a cell and
that the two registers of the PPU that `hci.v` clears are addresses (`HciAssumption`).  Of the host
(`HostAssumption`): what it sends has a length of two bytes, a program has the two bytes of its
address, a ROM file its header of 16 bytes and, if it is accepted, the data the header announces,
and a text that is typed in has the bytes that its opcode and count ask for.  The code checks none of
these and reads past its buffer where one is not so.

| Theorem | States |
|---|---|
| `LinkCorrect` | `Spec => []SInv` (`NesInv`) |
| `InStepCorrect` | `Spec => []InStep` (`NesDbg`) |
| `HaltSeenCorrect` | `Spec => HaltSeen` |

`InStep` is not inductive: it speaks of the answer only, and the decoder finds the place of an
answer by counting bytes that carry no mark of where a packet begins; data that look like opcodes
are legal.  Its invariant is `SInv`.  As long as nothing has gone wrong, the bytes on the line are
the rest of the packet the decoder is in (`Gathering`, `Doing`, `Answering`: one disjunct for each state of
`hci.v`, with what its counters hold), then packets that have no answer, one behind another
(`Follow`), then at most one packet that has one, since `ReceiveData` waits for it.  That question is
still to come (`Coming`), being answered (`Telling`) or has been (`Told`), and what was said is the
beginning of what `Answer` computes from the memories as they are.  `Follow` is defined by
a set that is closed under taking off a first packet, rather than by recursion; it also says that while the
processor runs the only one the decoder can meet is the one that halts it, as the
decoder looks at no other then.  `Room` is why no byte is lost: a
byte is taken from the receive queue before the next one ends on the line, a memory read
waits for a free cell, and `ECHO_1`, which does not wait, says one byte for each that it hears.

A packet on the way to its end leaves the rest of the line alone (`BusyKeeps`); the question begins when
those before it are done (`QuestionBegins`); each step of an answer adds the byte that is next (`TellStep`);
and no step overfills a queue (`RoomKept`).  `HaltSeen` follows from `Told`: an answer
other than 0 was given by a decoder that takes commands, and nothing is on the line that would make it
run again.  TLC agreed to `SInv` on the instance of `Nes`,
in all of its 880545 states, before it was proved.

Model-checked only: `RomRuns` of the debugger; `AllButOneSent`, `CommandEnds` and the
other liveness properties (out of the prover's reach); `Consistent`, `Kept` and `Accounted`, since `FatDisk` and
`FatWrite` walk along chains with RECURSIVE operators, which this prover cannot take.

## 5. Not modelled

* SPI and block pump (`spi.v`, `dma_rw.v`): `Card` takes a block for a step.  The code relies on
  timing there: the driver never waits for the shifter (`mmc.c:102`), and the pump's write strobe stays up
  until the next clock enable (`dma_rw.v:101`), which is right with one enable in eight clocks and
  a byte that takes longer.  With more than one block the second would overwrite the first, since
  `addrbase` stays; it is never called so.
* Bit timing, oversampling and parity of the serial line; checksums of the card (the code ignores
  them); FAT32 and FSINFO (not compiled).
* Drawing, console, LEDs, windows: layout and output that nothing reads back.
* Processor cores, video, sound and keyboard circuits (data paths and third-party code), the
  libraries under `cc65libsrc` and `lua`, the ZX Spectrum, TS-Configuration and MSX ports (other
  projects, adapted to the board's pins), board documents.

## 6. Plan

Done: the floppy emulator with its handshake and data proofs; the queue and the transmitter of the
link; the file system with the proofs about its reading half and its refinement of `Drive`; the NES debugger and its link with their
proofs; card driver and menu with theirs.  Open:

1. `RomRuns` as a theorem: what memory and configuration hold after each packet of `LoadRom`.
2. `DmaSpi`: pump, shifter and 6502.

## 7. Running it

    tlc -workers 2 -config Transfer.cfg MCFloppy      # and Faults, Rough, Live, AbortHang
    tlc -workers 2 -config FifoQueue.cfg FifoQueue
    tlc -workers 2 -config Uart.cfg Uart
    tlc -workers 2 -config Files.cfg MCImage
    tlc -workers 2 -config Card.cfg MCCard
    tlc -workers 2 -config Menu.cfg MCMenu
    tlc -workers 2 -config Nes.cfg MCNes
    tlc -workers 2 -config FatWrite.cfg MCFat
    tlapm FloppyProofs.tla          # and CardProofs, ImageProofs, NesProofs,
                                    # MenuProofs, FifoLemmas, FifoQueueProofs, UartProofs

Each takes a few minutes at most.
