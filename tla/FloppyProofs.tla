---------------------------- MODULE FloppyProofs ----------------------------
(***************************************************************************)
(* What holds of Floppy for every size of sector, buffer and image, every  *)
(* number of ticks, every fault and every liberty of the host.             *)
(***************************************************************************)
EXTENDS FloppyData, TLAPS

\* The host's bus carries well-formed accesses.
LEMMA HostOpsType == HostOps \subseteq HostOp
<1>1. 0 \in Byte
  BY ByteModAssumption DEF Byte
<1>2. /\ HostCommands \subseteq Commands /\ HostData \subseteq Byte
      /\ HostDrives \subseteq Bit /\ HostSides \subseteq Bit
  BY HostAssumption
<1>3. \A c \in Commands : Issue(c) \in HostOp
  BY <1>1 DEF Issue, NoOp, HostOp, Ports, Bit
<1>4. \A p \in Ports, v \in Byte : Write(p, v) \in HostOp
  BY <1>1 DEF Write, NoOp, HostOp, Commands, Bit
<1>5. \A d \in Bit, s \in Bit : Select(d, s) \in HostOp
  BY <1>1 DEF Select, NoOp, HostOp, Ports, Commands
<1>6. NoOp \in HostOp /\ Access("RDDATA") \in HostOp /\ Access("FORCE") \in HostOp
  BY <1>1 DEF Access, NoOp, HostOp, Ports, Commands, Bit
<1>7. HostRegs \subseteq HostOp
  BY HostAssumption
<1>8. \A p \in {"DATA"} : p \in Ports
  BY DEF Ports
<1> QED
  BY <1>2, <1>3, <1>4, <1>5, <1>6, <1>7, <1>8 DEF HostOps

\* Registers of the right type may be assigned one by one.
LEMMA WdUpdate ==
  ASSUME NEW r \in WdType
  PROVE  /\ \A v \in States : [r EXCEPT !.state = v] \in WdType
         /\ \A v \in Commands : [r EXCEPT !.command = v] \in WdType
         /\ \A v \in Request : [r EXCEPT !.request = v] \in WdType
         /\ \A v \in BOOLEAN :
              /\ [r EXCEPT !.busy = v] \in WdType
              /\ [r EXCEPT !.drq = v] \in WdType
              /\ [r EXCEPT !.pending = v] \in WdType
              /\ [r EXCEPT !.mode = v] \in WdType
              /\ [r EXCEPT !.bufRd = v] \in WdType
              /\ [r EXCEPT !.bufWr = v] \in WdType
              /\ [r EXCEPT !.dogSet = v] \in WdType
              /\ [r EXCEPT !.ready = v] \in WdType
              /\ [r EXCEPT !.seekErr = v] \in WdType
              /\ [r EXCEPT !.crcErr = v] \in WdType
              /\ [r EXCEPT !.lostData = v] \in WdType
              /\ [r EXCEPT !.wrFault = v] \in WdType
         /\ \A v \in Byte :
              /\ [r EXCEPT !.track = v] \in WdType
              /\ [r EXCEPT !.sector = v] \in WdType
              /\ [r EXCEPT !.datareg = v] \in WdType
              /\ [r EXCEPT !.diskTrack = v] \in WdType
         /\ \A v \in Bit : /\ [r EXCEPT !.side = v] \in WdType
                           /\ [r EXCEPT !.drive = v] \in WdType
         /\ \A v \in 0 .. SectorSize : [r EXCEPT !.len = v] \in WdType
         /\ \A v \in Addr : [r EXCEPT !.addr = v] \in WdType
         /\ \A v \in 0 .. ReadTicks : [r EXCEPT !.timer = v] \in WdType
         /\ \A v \in 0 .. DogTicks : [r EXCEPT !.dog = v] \in WdType
<1>1. /\ \A v \in States : [r EXCEPT !.state = v] \in WdType
      /\ \A v \in Commands : [r EXCEPT !.command = v] \in WdType
      /\ \A v \in Request : [r EXCEPT !.request = v] \in WdType
  BY DEF WdType
<1>2. ASSUME NEW v \in BOOLEAN
      PROVE  /\ [r EXCEPT !.busy = v] \in WdType
             /\ [r EXCEPT !.drq = v] \in WdType
             /\ [r EXCEPT !.pending = v] \in WdType
             /\ [r EXCEPT !.mode = v] \in WdType
             /\ [r EXCEPT !.bufRd = v] \in WdType
             /\ [r EXCEPT !.bufWr = v] \in WdType
  BY DEF WdType
<1>3. ASSUME NEW v \in BOOLEAN
      PROVE  /\ [r EXCEPT !.dogSet = v] \in WdType
             /\ [r EXCEPT !.ready = v] \in WdType
             /\ [r EXCEPT !.seekErr = v] \in WdType
             /\ [r EXCEPT !.crcErr = v] \in WdType
             /\ [r EXCEPT !.lostData = v] \in WdType
             /\ [r EXCEPT !.wrFault = v] \in WdType
  BY DEF WdType
<1>4. ASSUME NEW v \in Byte
      PROVE  /\ [r EXCEPT !.track = v] \in WdType
             /\ [r EXCEPT !.sector = v] \in WdType
             /\ [r EXCEPT !.datareg = v] \in WdType
             /\ [r EXCEPT !.diskTrack = v] \in WdType
  BY DEF WdType
<1>5. ASSUME NEW v \in Bit
      PROVE  [r EXCEPT !.side = v] \in WdType /\ [r EXCEPT !.drive = v] \in WdType
  BY DEF WdType
<1>6. /\ \A v \in 0 .. SectorSize : [r EXCEPT !.len = v] \in WdType
      /\ \A v \in Addr : [r EXCEPT !.addr = v] \in WdType
  BY DEF WdType
<1>7. /\ \A v \in 0 .. ReadTicks : [r EXCEPT !.timer = v] \in WdType
      /\ \A v \in 0 .. DogTicks : [r EXCEPT !.dog = v] \in WdType
  BY DEF WdType
<1> QED
  BY <1>1, <1>2, <1>3, <1>4, <1>5, <1>6, <1>7, Zenon

\* The registers, one by one.
LEMMA WdFields ==
  ASSUME TypeOK
  PROVE  /\ wd.state \in States /\ wd.command \in Commands /\ wd.request \in Request
         /\ wd.busy \in BOOLEAN /\ wd.drq \in BOOLEAN /\ wd.pending \in BOOLEAN
         /\ wd.bufRd \in BOOLEAN /\ wd.bufWr \in BOOLEAN
         /\ wd.track \in Byte /\ wd.sector \in Byte
         /\ wd.datareg \in Byte /\ wd.diskTrack \in Byte
         /\ wd.side \in Bit /\ wd.drive \in Bit
         /\ wd.len \in 0 .. SectorSize /\ wd.addr \in Addr
         /\ wd.timer \in 0 .. ReadTicks /\ wd.dog \in 0 .. DogTicks
<1>1. /\ wd.state \in States /\ wd.command \in Commands /\ wd.request \in Request
      /\ wd.side \in Bit /\ wd.drive \in Bit
  BY DEF TypeOK, WdType
<1>2. wd.busy \in BOOLEAN /\ wd.drq \in BOOLEAN /\ wd.pending \in BOOLEAN
  BY DEF TypeOK, WdType
<1>3. wd.bufRd \in BOOLEAN /\ wd.bufWr \in BOOLEAN
  BY DEF TypeOK, WdType
<1>4. /\ wd.track \in Byte /\ wd.sector \in Byte
      /\ wd.datareg \in Byte /\ wd.diskTrack \in Byte
  BY DEF TypeOK, WdType
<1>5. /\ wd.len \in 0 .. SectorSize /\ wd.addr \in Addr
      /\ wd.timer \in 0 .. ReadTicks /\ wd.dog \in 0 .. DogTicks
  BY DEF TypeOK, WdType
<1> QED
  BY <1>1, <1>2, <1>3, <1>4, <1>5, Zenon

\* The register section keeps the registers well-formed.
LEMMA BusType ==
  ASSUME TypeOK, NEW op \in HostOp
  PROVE  Bus(op) \in WdType
<1>1. wd \in WdType
  BY DEF TypeOK
<1>2. StateAfterBus(op) \in States
  BY WdFields DEF StateAfterBus, States
<1>3. DogNext \in 0 .. DogTicks
  BY WdFields, TicksAssumption DEF DogNext, Bark
<1>4. TrackAfterBus(op) \in Byte /\ SectorAfterBus(op) \in Byte
  <2>1. \A c \in Commands : CommandByte(c) \in Nat
    BY DEF CommandByte
  <2>2. StateCode(wd.state) \in Nat /\ DrqBusyCode \in Nat
    BY DEF StateCode, DrqBusyCode
  <2>3. \A n \in Nat : n % ByteMod \in Byte
    BY ByteModAssumption DEF Byte
  <2>4. op.data \in Byte /\ op.cmd \in Commands
    BY DEF HostOp
  <2>5. 16 * DrqBusyCode + StateCode(wd.state) \in Nat
    BY <2>2
  <2> QED
    BY <2>1, <2>3, <2>4, <2>5, WdFields DEF TrackAfterBus, SectorAfterBus
<1> DEFINE b1 == "DRVNOTRDY" \notin status
           b2 == wd.mode /\ op.port # "FORCE"
           b3 == wd.pending \/ op.port = "COMMAND"
           sd == IF op.port = "CTL2" THEN op.side ELSE wd.side
           dr == IF op.port = "CTL2" THEN op.drive ELSE wd.drive
           dt == IF op.port = "DATA" THEN op.data ELSE wd.datareg
           cm == IF op.port = "COMMAND" /\ ~wd.pending THEN op.cmd ELSE wd.command
           e1 == wd.wrFault /\ ~Clears(op)
           e2 == wd.seekErr /\ ~Clears(op)
           e3 == wd.crcErr /\ ~Clears(op)
           e4 == wd.lostData /\ ~Clears(op)
           r1 == [wd EXCEPT !.ready = b1, !.bufWr = FALSE, !.dog = DogNext]
           r2 == [r1 EXCEPT !.track = TrackAfterBus(op), !.sector = SectorAfterBus(op),
                            !.side = sd, !.drive = dr]
           r3 == [r2 EXCEPT !.datareg = dt, !.mode = b2, !.state = StateAfterBus(op)]
           r4 == [r3 EXCEPT !.command = cm, !.pending = b3, !.wrFault = e1]
           r5 == [r4 EXCEPT !.seekErr = e2, !.crcErr = e3, !.lostData = e4]
<1>5. Bus(op) = r5
  BY Zenon DEF Bus
<1>6. sd \in Bit /\ dr \in Bit /\ dt \in Byte /\ cm \in Commands
  BY WdFields DEF HostOp
<1>7. /\ b1 \in BOOLEAN /\ b2 \in BOOLEAN /\ b3 \in BOOLEAN
      /\ e1 \in BOOLEAN /\ e2 \in BOOLEAN /\ e3 \in BOOLEAN /\ e4 \in BOOLEAN
  OBVIOUS
<1> HIDE DEF b1, b2, b3, sd, dr, dt, cm, e1, e2, e3, e4
<1>8. r1 \in WdType
  BY <1>1, <1>3, <1>7, WdUpdate
<1> HIDE DEF r1
<1>9. r2 \in WdType
  BY <1>8, <1>4, <1>6, WdUpdate
<1> HIDE DEF r2
<1>10. r3 \in WdType
  BY <1>9, <1>2, <1>6, <1>7, WdUpdate
<1> HIDE DEF r3
<1>11. r4 \in WdType
  BY <1>10, <1>6, <1>7, WdUpdate
<1> HIDE DEF r4
<1>12. r5 \in WdType
  BY <1>11, <1>7, WdUpdate
<1> QED
  BY <1>5, <1>12, Zenon

\* What the register section leaves to the machine.
LEMMA BusKeeps ==
  ASSUME TypeOK, NEW op
  PROVE  /\ Bus(op).state = StateAfterBus(op)
         /\ Bus(op).len = wd.len
         /\ Bus(op).bufRd = wd.bufRd
         /\ Bus(op).request = wd.request
BY DEF TypeOK, WdType, Bus

-----------------------------------------------------------------------------
(* The machine's moves, as far as the workhorse is concerned.              *)

Effect(s, n, b, q) ==
  wd'.state = s /\ wd'.len = n /\ wd'.bufRd = b /\ wd'.request = q
Onwards(s) == Effect(s, wd.len, wd.bufRd, wd.request)

Pausing ==
  \/ wd.state \in {"READY", "READ_3", "READSECT", "WRITESECT"}
  \/ wd.state \in {"WAIT_CPUREAD", "WAIT_CPUWRITE"} /\ ~Failed /\ ~Succeeded
  \/ wd.state = "WAIT_CPU" /\ "COMPLETE" \notin status
  \/ wd.state = "ENDCOMMAND2" /\ status # {}

Starting ==
  /\ wd.state = "READY"
  /\ \/ Effect("WAIT_CPU", wd.len, wd.bufRd, Plain("NOP"))
     \/ Effect("WRITESECT", SectorSize, wd.bufRd, wd.request)
     \/ \E o \in {"READ", "READADDR"}, n \in {SectorSize, AddrSize} :
          Effect("WAIT_CPUREAD", n, wd.bufRd,
                 [op |-> o, drive |-> wd.drive, side |-> wd.side])

Sending ==
  \/ wd.state = "READ_1" /\ Effect("READ_2", wd.len - 1, wd.bufRd, wd.request)
  \/ wd.state = "READ_2" /\ Effect("READ_3", wd.len, TRUE, wd.request)
  \/ wd.state = "READ_3" /\ Onwards("READSECT")
  \/ wd.state = "READSECT" /\ wd.len # 1 /\ Onwards("READ_1")
  \/ wd.state = "READSECT" /\ Effect("ENDCOMMAND", wd.len, FALSE, wd.request)

Receiving ==
  \/ wd.state = "WRITESECT" /\ Onwards("WRITE_1")
  \/ wd.state = "WRITE_1" /\ Onwards("WRITE_2")
  \/ /\ wd.state = "WRITE_2" /\ wd.len # 1
     /\ Effect("WRITESECT", wd.len - 1, wd.bufRd, wd.request)
  \/ wd.state = "WRITE_2" /\ Effect("WAIT_CPUWRITE", wd.len - 1, wd.bufRd, FlushRequest)

Ending ==
  \/ wd.state = "WAIT_CPUREAD" /\ Succeeded /\ Onwards("READ_2")
  \/ wd.state \in {"WAIT_CPUREAD", "WAIT_CPUWRITE"} /\ Failed /\ Onwards("ENDCOMMAND")
  \/ wd.state = "WAIT_CPUWRITE" /\ Succeeded /\ Onwards("ENDCOMMAND")
  \/ wd.state = "WAIT_CPU" /\ "COMPLETE" \in status /\ Onwards("ENDCOMMAND")
  \/ wd.state = "ABORT" /\ Effect("ENDCOMMAND", 0, wd.bufRd, wd.request)
  \/ wd.state = "ENDCOMMAND" /\ Effect("ENDCOMMAND2", wd.len, wd.bufRd, Plain("ACK"))
  \/ /\ wd.state = "ENDCOMMAND2" /\ status = {}
     /\ Effect("READY", wd.len, wd.bufRd, Plain("NONE"))
  \/ wd.state = "DEAD" /\ Effect("DEAD", wd.len, wd.bufRd, Plain("FAIL"))

Advances(op) ==
  \/ Pausing /\ Onwards(StateAfterBus(op))
  \/ Starting \/ Sending \/ Receiving \/ Ending

\* The register section, as the machine's actions use it.
LEMMA BusFacts ==
  ASSUME TypeOK, NEW op \in HostOp
  PROVE  /\ Bus(op) \in WdType /\ Bus(op).state = StateAfterBus(op)
         /\ Bus(op).len = wd.len /\ Bus(op).bufRd = wd.bufRd
         /\ Bus(op).request = wd.request
BY BusType, BusKeeps

\* Taking a command changes none of what the workhorse sees.
LEMMA TakenFacts ==
  ASSUME TypeOK, NEW op \in HostOp
  PROVE  /\ Taken(op) \in WdType /\ Taken(op).state = StateAfterBus(op)
         /\ Taken(op).len = wd.len /\ Taken(op).bufRd = wd.bufRd
         /\ Taken(op).request = wd.request
<1> DEFINE m == wd.command \notin TypeOne
<1>1. m \in BOOLEAN
  OBVIOUS
<1>2. Taken(op) = [Bus(op) EXCEPT !.pending = FALSE, !.mode = m]
  BY Zenon DEF Taken
<1> HIDE DEF m
<1>3. Taken(op) \in WdType
  <2>1. Bus(op) \in WdType
    BY BusFacts
  <2>2. [Bus(op) EXCEPT !.pending = FALSE, !.mode = m] \in WdType
    BY <1>1, <2>1, WdUpdate
  <2> QED
    BY <1>2, <2>2
<1>4. /\ Taken(op).state = StateAfterBus(op)
      /\ Taken(op).len = wd.len /\ Taken(op).bufRd = wd.bufRd
      /\ Taken(op).request = wd.request
  BY <1>2, BusFacts DEF WdType
<1> QED
  BY <1>3, <1>4

\* The requests are well-formed.
LEMMA RequestTypes ==
  ASSUME TypeOK
  PROVE  /\ \A o \in RequestOps : Plain(o) \in Request
         /\ \A o \in RequestOps :
              [op |-> o, drive |-> wd.drive, side |-> wd.side] \in Request
         /\ FlushRequest \in Request
BY WdFields DEF Plain, FlushRequest, Request, RequestOps, Bit

\* A head movement asks for a NOP.
LEMMA MovingFacts ==
  ASSUME TypeOK, NEW op \in HostOp, NEW t \in Byte
  PROVE  /\ Moving(op, t) \in WdType /\ Moving(op, t).state = "WAIT_CPU"
         /\ Moving(op, t).len = wd.len /\ Moving(op, t).bufRd = wd.bufRd
         /\ Moving(op, t).request = Plain("NOP")
<1> DEFINE r1 == [Taken(op) EXCEPT !.diskTrack = t, !.busy = TRUE, !.drq = FALSE]
<1>1. Plain("NOP") \in Request /\ "WAIT_CPU" \in States
  BY RequestTypes DEF RequestOps, States
<1>2. r1 \in WdType
  BY TakenFacts, WdUpdate
<1>3. Moving(op, t) = [r1 EXCEPT !.request = Plain("NOP"), !.state = "WAIT_CPU"]
  BY Zenon DEF Moving
<1>4. r1.len = wd.len /\ r1.bufRd = wd.bufRd
  BY TakenFacts DEF WdType
<1> HIDE DEF r1
<1>5. Moving(op, t) \in WdType
  <2>1. [r1 EXCEPT !.request = Plain("NOP"), !.state = "WAIT_CPU"] \in WdType
    BY <1>1, <1>2, WdUpdate
  <2> QED
    BY <1>3, <2>1
<1>6. /\ Moving(op, t).state = "WAIT_CPU" /\ Moving(op, t).len = wd.len
      /\ Moving(op, t).bufRd = wd.bufRd /\ Moving(op, t).request = Plain("NOP")
  BY <1>2, <1>3, <1>4 DEF WdType
<1> QED
  BY <1>5, <1>6

\* A transfer of n bytes starts.
LEMMA StartedFacts ==
  ASSUME TypeOK, NEW op \in HostOp, NEW n \in 0 .. SectorSize
  PROVE  /\ Started(op, n) \in WdType /\ Started(op, n).len = n
         /\ Started(op, n).bufRd = wd.bufRd /\ Started(op, n).request = wd.request
<1> DEFINE r1 == [Taken(op) EXCEPT !.busy = TRUE, !.len = n, !.wrFault = FALSE]
<1>1. r1 \in WdType
  BY TakenFacts, WdUpdate
<1>2. r1.len = n /\ r1.bufRd = wd.bufRd /\ r1.request = wd.request
  BY TakenFacts DEF WdType
<1>3. Started(op, n) =
        [r1 EXCEPT !.seekErr = FALSE, !.crcErr = FALSE, !.lostData = FALSE]
  BY Zenon DEF Started
<1> HIDE DEF r1
<1>4. Started(op, n) \in WdType
  BY <1>1, <1>3, WdUpdate
<1>5. /\ Started(op, n).len = n /\ Started(op, n).bufRd = wd.bufRd
      /\ Started(op, n).request = wd.request
  BY <1>1, <1>2, <1>3 DEF WdType
<1> QED
  BY <1>4, <1>5

\* A READ or a READ ADDRESS asks the workhorse first.
LEMMA AskingFacts ==
  ASSUME TypeOK, NEW op \in HostOp, NEW o \in {"READ", "READADDR"},
         NEW n \in 0 .. SectorSize
  PROVE  /\ Asking(op, o, n) \in WdType /\ Asking(op, o, n).state = "WAIT_CPUREAD"
         /\ Asking(op, o, n).len = n /\ Asking(op, o, n).bufRd = wd.bufRd
         /\ Asking(op, o, n).request = [op |-> o, drive |-> wd.drive, side |-> wd.side]
<1> DEFINE q == [op |-> o, drive |-> wd.drive, side |-> wd.side]
<1>1. q \in Request /\ "WAIT_CPUREAD" \in States
  BY RequestTypes DEF RequestOps, States
<1>2. Asking(op, o, n) =
        [Started(op, n) EXCEPT !.drq = FALSE, !.state = "WAIT_CPUREAD", !.request = q]
  BY Zenon DEF Asking
<1> HIDE DEF q
<1>3. Asking(op, o, n) \in WdType
  <2>1. Started(op, n) \in WdType
    BY StartedFacts
  <2>2. [Started(op, n) EXCEPT !.drq = FALSE, !.state = "WAIT_CPUREAD", !.request = q]
          \in WdType
    BY <1>1, <2>1, WdUpdate
  <2> QED
    BY <1>2, <2>2
<1>4. /\ Asking(op, o, n).state = "WAIT_CPUREAD" /\ Asking(op, o, n).len = n
      /\ Asking(op, o, n).bufRd = wd.bufRd /\ Asking(op, o, n).request = q
  BY <1>2, StartedFacts DEF WdType
<1> QED
  BY <1>3, <1>4 DEF q

\* A command that is taken starts one of four courses.
LEMMA AcceptMoves ==
  ASSUME TypeOK, NEW op \in HostOp, Accept(op)
  PROVE  wd' \in WdType /\ Advances(op)
<1>0. 0 \in Byte /\ SectorSize \in 0 .. SectorSize /\ AddrSize \in 0 .. SectorSize
  BY ByteModAssumption, SectorSizeAssumption, AddrSizeAssumption DEF Byte
<1>1. CASE Restore(op)
  <2>1. Moving(op, 0) \in WdType
    BY <1>0, MovingFacts
  <2>2. [Moving(op, 0) EXCEPT !.track = 0] \in WdType
    BY <1>0, <2>1, WdUpdate
  <2>3. wd' = [Moving(op, 0) EXCEPT !.track = 0] /\ wd.state = "READY"
    BY <1>1 DEF Restore, Takes
  <2>4. Effect("WAIT_CPU", wd.len, wd.bufRd, Plain("NOP"))
    BY <1>0, <2>3, MovingFacts DEF Effect, WdType
  <2> QED
    BY <2>2, <2>3, <2>4 DEF Advances, Starting
<1>2. CASE Seek(op)
  <2>1. wd' = Moving(op, wd.datareg) /\ wd.state = "READY"
    BY <1>2 DEF Seek, Takes
  <2> QED
    BY <2>1, WdFields, MovingFacts DEF Effect, Advances, Starting
<1>3. Neighbour \subseteq Byte
  <2>1. \A d \in {1, ByteMod - 1} : (wd.diskTrack + d) \in Nat
    BY WdFields, ByteModAssumption DEF Byte
  <2>2. \A n \in Nat : n % ByteMod \in Byte
    BY ByteModAssumption DEF Byte
  <2> QED
    BY <2>1, <2>2 DEF Neighbour
<1>4. CASE Step(op)
  <2>1. PICK t \in Neighbour : wd' = Moving(op, t)
    BY <1>4 DEF Step
  <2>2. wd.state = "READY"
    BY <1>4 DEF Step, Takes
  <2> QED
    BY <1>3, <2>1, <2>2, MovingFacts DEF Effect, Advances, Starting
<1>5. CASE StepU(op)
  <2>1. PICK t \in Neighbour : wd' = [Moving(op, t) EXCEPT !.track = t]
    BY <1>5 DEF StepU
  <2>2. wd.state = "READY"
    BY <1>5 DEF StepU, Takes
  <2>3. t \in Byte
    BY <1>3
  <2>4. Moving(op, t) \in WdType
    BY <2>3, MovingFacts
  <2>5. wd' \in WdType
    BY <2>1, <2>3, <2>4, WdUpdate
  <2>6. Effect("WAIT_CPU", wd.len, wd.bufRd, Plain("NOP"))
    BY <2>1, <2>3, MovingFacts DEF Effect, WdType
  <2> QED
    BY <2>2, <2>5, <2>6 DEF Advances, Starting
<1>6. CASE Read(op)
  <2>1. wd' = Asking(op, "READ", SectorSize) /\ wd.state = "READY"
    BY <1>6 DEF Read, Takes
  <2> QED
    BY <1>0, <2>1, AskingFacts DEF Effect, Advances, Starting
<1>7. CASE ReadAddress(op)
  <2>1. wd' = Asking(op, "READADDR", AddrSize) /\ wd.state = "READY"
    BY <1>7 DEF ReadAddress, Takes
  <2> QED
    BY <1>0, <2>1, AskingFacts DEF Effect, Advances, Starting
<1>8. CASE WriteSector(op)
  <2> DEFINE r == Started(op, SectorSize)
  <2>1. /\ r \in WdType /\ r.len = SectorSize
        /\ r.bufRd = wd.bufRd /\ r.request = wd.request
    BY <1>0, StartedFacts
  <2>2. wd' = [r EXCEPT !.drq = TRUE, !.addr = 0, !.state = "WRITESECT"]
        /\ wd.state = "READY"
    BY <1>8 DEF WriteSector, Takes
  <2> HIDE DEF r
  <2>3. 0 \in Addr /\ "WRITESECT" \in States
    BY SectorSizeAssumption DEF Addr, States
  <2>4. wd' \in WdType
    BY <2>1, <2>2, <2>3, WdUpdate
  <2>5. Effect("WRITESECT", SectorSize, wd.bufRd, wd.request)
    BY <2>1, <2>2 DEF Effect, WdType
  <2> QED
    BY <2>2, <2>4, <2>5 DEF Advances, Starting
<1>9. CASE TrackCommand(op)
  <2> DEFINE r == Taken(op)
  <2>1. /\ r \in WdType /\ r.state = StateAfterBus(op) /\ r.len = wd.len
        /\ r.bufRd = wd.bufRd /\ r.request = wd.request
    BY TakenFacts
  <2>2. wd' = [r EXCEPT !.busy = FALSE, !.drq = FALSE] /\ wd.state = "READY"
    BY <1>9 DEF TrackCommand, Takes
  <2> HIDE DEF r
  <2>3. wd' \in WdType
    BY <2>1, <2>2, WdUpdate
  <2>4. Onwards(StateAfterBus(op))
    BY <2>1, <2>2 DEF Onwards, Effect, WdType
  <2> QED
    BY <2>2, <2>3, <2>4 DEF Advances, Pausing
<1> QED
  BY <1>1, <1>2, <1>4, <1>5, <1>6, <1>7, <1>8, <1>9 DEF Accept

\* A byte on its way from the buffer to the host.
LEMMA SendMoves ==
  ASSUME TypeOK, NoUnderrun, NEW op \in HostOp, Send(op)
  PROVE  wd' \in WdType /\ Advances(op)
<1> DEFINE r == Bus(op)
           b == Bark
<1>1. /\ r \in WdType /\ r.state = StateAfterBus(op) /\ r.len = wd.len
      /\ r.bufRd = wd.bufRd /\ r.request = wd.request /\ b \in BOOLEAN
  BY BusFacts DEF Bark
<1>2. {"READ_1", "READ_2", "READ_3", "READSECT", "ENDCOMMAND"} \subseteq States
  BY DEF States
<1>3. CASE Read1(op)
  <2>1. wd.state = "READ_1" /\ wd.len \in 0 .. SectorSize /\ wd.len >= 2
    BY <1>3, WdFields DEF Read1, NoUnderrun
  <2>2. NextAddr \in Addr /\ wd.len - 1 \in 0 .. SectorSize
    BY <2>1, WdFields, SectorSizeAssumption DEF NextAddr, Addr
  <2>3. wd' = [r EXCEPT !.addr = NextAddr, !.len = wd.len - 1, !.state = "READ_2"]
    BY <1>3 DEF Read1
  <2> HIDE DEF r
  <2>4. wd' \in WdType
    BY <1>1, <1>2, <2>2, <2>3, WdUpdate
  <2>5. Effect("READ_2", wd.len - 1, wd.bufRd, wd.request)
    BY <1>1, <2>3 DEF Effect, WdType
  <2> QED
    BY <2>1, <2>4, <2>5 DEF Advances, Sending
<1>4. CASE Read2(op)
  <2> DEFINE r1 == [r EXCEPT !.dogSet = TRUE, !.timer = ReadTicks, !.busy = TRUE]
  <2>1. wd.state = "READ_2" /\ ReadTicks \in 0 .. ReadTicks
    BY <1>4, TicksAssumption DEF Read2
  <2>2. wd' = [r1 EXCEPT !.drq = FALSE, !.bufRd = TRUE, !.state = "READ_3"]
    BY <1>4, Zenon DEF Read2
  <2> HIDE DEF r
  <2>3. r1 \in WdType
    BY <1>1, <2>1, WdUpdate
  <2>4. r1.len = wd.len /\ r1.request = wd.request
    BY <1>1 DEF WdType
  <2> HIDE DEF r1
  <2>5. wd' \in WdType
    BY <1>2, <2>2, <2>3, WdUpdate
  <2>6. Effect("READ_3", wd.len, TRUE, wd.request)
    BY <2>2, <2>3, <2>4 DEF Effect, WdType
  <2> QED
    BY <2>1, <2>5, <2>6 DEF Advances, Sending
<1>5. CASE Read3Wait(op)
  <2>1. wd.state = "READ_3" /\ wd.timer - 1 \in 0 .. ReadTicks
    BY <1>5, WdFields, TicksAssumption DEF Read3Wait
  <2>2. wd' = [r EXCEPT !.timer = wd.timer - 1]
    BY <1>5 DEF Read3Wait
  <2> HIDE DEF r
  <2>3. wd' \in WdType
    BY <1>1, <2>1, <2>2, WdUpdate
  <2>4. Onwards(StateAfterBus(op))
    BY <1>1, <2>2 DEF Onwards, Effect, WdType
  <2> QED
    BY <2>1, <2>3, <2>4 DEF Advances, Pausing
<1>6. CASE Read3Byte(op)
  <2> DEFINE r1 == [r EXCEPT !.dogSet = FALSE, !.lostData = FALSE, !.busy = TRUE]
  <2>1. wd.state = "READ_3" /\ buf[wd.addr] \in Byte
    BY <1>6, WdFields DEF Read3Byte, TypeOK
  <2>2. wd' = [r1 EXCEPT !.drq = TRUE, !.datareg = buf[wd.addr], !.state = "READSECT"]
    BY <1>6, Zenon DEF Read3Byte
  <2> HIDE DEF r
  <2>3. r1 \in WdType
    BY <1>1, WdUpdate
  <2>4. r1.len = wd.len /\ r1.bufRd = wd.bufRd /\ r1.request = wd.request
    BY <1>1 DEF WdType
  <2> HIDE DEF r1
  <2>5. wd' \in WdType
    BY <1>2, <2>1, <2>2, <2>3, WdUpdate
  <2>6. Onwards("READSECT")
    BY <2>2, <2>3, <2>4 DEF Onwards, Effect, WdType
  <2> QED
    BY <2>1, <2>5, <2>6 DEF Advances, Sending
<1>7. CASE ReadSectWait(op)
  <2>1. wd.state = "READSECT" /\ wd' = r
    BY <1>7 DEF ReadSectWait
  <2>2. Onwards(StateAfterBus(op))
    BY <1>1, <2>1 DEF Onwards, Effect
  <2> QED
    BY <1>1, <2>1, <2>2 DEF Advances, Pausing
<1>8. CASE ReadSectNext(op)
  <2>1. wd.state = "READSECT" /\ wd.len # 1
    BY <1>8 DEF ReadSectNext
  <2>2. wd' = [r EXCEPT !.busy = TRUE, !.drq = FALSE, !.lostData = b, !.state = "READ_1"]
    BY <1>8, Zenon DEF ReadSectNext
  <2> HIDE DEF r, b
  <2>3. wd' \in WdType
    BY <1>1, <1>2, <2>2, WdUpdate
  <2>4. Onwards("READ_1")
    BY <1>1, <2>2 DEF Onwards, Effect, WdType
  <2> QED
    BY <2>1, <2>3, <2>4 DEF Advances, Sending
<1>9. CASE ReadSectLast(op)
  <2> DEFINE r1 == [r EXCEPT !.busy = TRUE, !.drq = FALSE, !.lostData = b]
  <2>1. wd.state = "READSECT"
    BY <1>9 DEF ReadSectLast
  <2>2. wd' = [r1 EXCEPT !.bufRd = FALSE, !.state = "ENDCOMMAND"]
    BY <1>9, Zenon DEF ReadSectLast
  <2> HIDE DEF r, b
  <2>3. r1 \in WdType
    BY <1>1, WdUpdate
  <2>4. r1.len = wd.len /\ r1.request = wd.request
    BY <1>1 DEF WdType
  <2> HIDE DEF r1
  <2>5. wd' \in WdType
    BY <1>2, <2>2, <2>3, WdUpdate
  <2>6. Effect("ENDCOMMAND", wd.len, FALSE, wd.request)
    BY <2>2, <2>3, <2>4 DEF Effect, WdType
  <2> QED
    BY <2>1, <2>5, <2>6 DEF Advances, Sending
<1> QED
  BY <1>3, <1>4, <1>5, <1>6, <1>7, <1>8, <1>9 DEF Send

\* A byte on its way from the host to the buffer.
LEMMA ReceiveMoves ==
  ASSUME TypeOK, NoUnderrun, NEW op \in HostOp, Receive(op)
  PROVE  wd' \in WdType /\ Advances(op)
<1> DEFINE r == Bus(op)
           r1 == [r EXCEPT !.addr = NextAddr, !.len = wd.len - 1]
<1>1. /\ r \in WdType /\ r.state = StateAfterBus(op) /\ r.len = wd.len
      /\ r.bufRd = wd.bufRd /\ r.request = wd.request
  BY BusFacts
<1>2. {"WRITESECT", "WRITE_1", "WRITE_2", "WAIT_CPUWRITE"} \subseteq States
  BY DEF States
<1>3. Stored(op) = r1
  BY Zenon DEF Stored
<1>4. NextAddr \in Addr
  BY WdFields, SectorSizeAssumption DEF NextAddr, Addr
<1> HIDE DEF r
<1>5. ASSUME wd.state = "WRITE_2"
      PROVE  /\ r1 \in WdType /\ r1.len = wd.len - 1
             /\ r1.bufRd = wd.bufRd /\ r1.request = wd.request
  <2>1. wd.len - 1 \in 0 .. SectorSize
    BY <1>5, WdFields, SectorSizeAssumption DEF NoUnderrun, Writing
  <2>2. r1 \in WdType
    BY <1>1, <1>4, <2>1, WdUpdate
  <2>3. r1.len = wd.len - 1 /\ r1.bufRd = wd.bufRd /\ r1.request = wd.request
    BY <1>1 DEF WdType
  <2> QED
    BY <2>2, <2>3
<1> HIDE DEF r1
<1>6. CASE WriteSectWait(op)
  <2>1. wd.state = "WRITESECT" /\ wd' = r
    BY <1>6 DEF WriteSectWait, r
  <2>2. Onwards(StateAfterBus(op))
    BY <1>1, <2>1 DEF Onwards, Effect
  <2> QED
    BY <1>1, <2>1, <2>2 DEF Advances, Pausing
<1>7. CASE WriteSectByte(op)
  <2>1. wd.state = "WRITESECT"
    BY <1>7 DEF WriteSectByte
  <2>2. wd' = [r EXCEPT !.busy = TRUE, !.drq = FALSE, !.lostData = FALSE,
                        !.state = "WRITE_1"]
    BY <1>7, Zenon DEF WriteSectByte, r
  <2>3. wd' \in WdType
    BY <1>1, <1>2, <2>2, WdUpdate
  <2>4. Onwards("WRITE_1")
    BY <1>1, <2>2 DEF Onwards, Effect, WdType
  <2> QED
    BY <2>1, <2>3, <2>4 DEF Advances, Receiving
<1>8. CASE Write1(op)
  <2>1. wd.state = "WRITE_1" /\ wd' = [r EXCEPT !.bufWr = TRUE, !.state = "WRITE_2"]
    BY <1>8 DEF Write1, r
  <2>2. wd' \in WdType
    BY <1>1, <1>2, <2>1, WdUpdate
  <2>3. Onwards("WRITE_2")
    BY <1>1, <2>1 DEF Onwards, Effect, WdType
  <2> QED
    BY <2>1, <2>2, <2>3 DEF Advances, Receiving
<1>9. CASE Write2Next(op)
  <2>1. wd.state = "WRITE_2" /\ wd.len # 1
    BY <1>9 DEF Write2Next
  <2>2. wd' = [r1 EXCEPT !.busy = TRUE, !.drq = TRUE, !.state = "WRITESECT"]
    BY <1>3, <1>9, Zenon DEF Write2Next
  <2>3. wd' \in WdType
    BY <1>2, <1>5, <2>1, <2>2, WdUpdate
  <2>4. Effect("WRITESECT", wd.len - 1, wd.bufRd, wd.request)
    BY <1>5, <2>1, <2>2 DEF Effect, WdType
  <2> QED
    BY <2>1, <2>3, <2>4 DEF Advances, Receiving
<1>10. CASE Write2Last(op)
  <2>1. wd.state = "WRITE_2" /\ FlushRequest \in Request
    BY <1>10, RequestTypes DEF Write2Last
  <2>2. wd' = [r1 EXCEPT !.request = FlushRequest, !.state = "WAIT_CPUWRITE"]
    BY <1>3, <1>10, Zenon DEF Write2Last
  <2>3. wd' \in WdType
    BY <1>2, <1>5, <2>1, <2>2, WdUpdate
  <2>4. Effect("WAIT_CPUWRITE", wd.len - 1, wd.bufRd, FlushRequest)
    BY <1>5, <2>1, <2>2 DEF Effect, WdType
  <2> QED
    BY <2>1, <2>3, <2>4 DEF Advances, Receiving
<1> QED
  BY <1>6, <1>7, <1>8, <1>9, <1>10 DEF Receive

\* Waiting for the workhorse, and ending a command.
LEMMA FinishMoves ==
  ASSUME TypeOK, NEW op \in HostOp, Finish(op)
  PROVE  wd' \in WdType /\ Advances(op)
<1> DEFINE r == Bus(op)
           b == "CRC" \in status
<1>1. /\ r \in WdType /\ r.state = StateAfterBus(op) /\ r.len = wd.len
      /\ r.bufRd = wd.bufRd /\ r.request = wd.request /\ b \in BOOLEAN
  BY BusFacts
<1>2. {"READY", "READ_2", "ENDCOMMAND", "ENDCOMMAND2"} \subseteq States
  BY DEF States
<1>3. 0 \in 0 .. SectorSize /\ 0 \in Addr
  BY SectorSizeAssumption DEF Addr
<1>4. Plain("ACK") \in Request /\ Plain("NONE") \in Request
  BY RequestTypes DEF RequestOps
<1>5. ASSUME wd' = r
      PROVE  wd' \in WdType /\ Onwards(StateAfterBus(op))
  BY <1>1, <1>5 DEF Onwards, Effect
<1>6. CASE WaitReadFails(op)
  <2>1. wd.state = "WAIT_CPUREAD" /\ Failed
    BY <1>6 DEF WaitReadFails
  <2>2. wd' = [r EXCEPT !.seekErr = TRUE, !.crcErr = b, !.state = "ENDCOMMAND"]
    BY <1>6, Zenon DEF WaitReadFails
  <2> HIDE DEF r, b
  <2>3. wd' \in WdType
    BY <1>1, <1>2, <2>2, WdUpdate
  <2>4. Onwards("ENDCOMMAND")
    BY <1>1, <2>2 DEF Onwards, Effect, WdType
  <2> QED
    BY <2>1, <2>3, <2>4 DEF Advances, Ending
<1>7. CASE WaitReadDone(op)
  <2>1. wd.state = "WAIT_CPUREAD" /\ Succeeded
    BY <1>7 DEF WaitReadDone
  <2>2. wd' = [r EXCEPT !.addr = 0, !.state = "READ_2"]
    BY <1>7 DEF WaitReadDone
  <2> HIDE DEF r
  <2>3. wd' \in WdType
    BY <1>1, <1>2, <1>3, <2>2, WdUpdate
  <2>4. Onwards("READ_2")
    BY <1>1, <2>2 DEF Onwards, Effect, WdType
  <2> QED
    BY <2>1, <2>3, <2>4 DEF Advances, Ending
<1>8. CASE WaitRead(op)
  BY <1>5, <1>8 DEF WaitRead, Advances, Pausing
<1>9. CASE WaitWriteFails(op)
  <2>1. wd.state = "WAIT_CPUWRITE" /\ Failed
    BY <1>9 DEF WaitWriteFails
  <2>2. wd' = [r EXCEPT !.wrFault = b, !.state = "ENDCOMMAND"]
    BY <1>9, Zenon DEF WaitWriteFails
  <2> HIDE DEF r, b
  <2>3. wd' \in WdType
    BY <1>1, <1>2, <2>2, WdUpdate
  <2>4. Onwards("ENDCOMMAND")
    BY <1>1, <2>2 DEF Onwards, Effect, WdType
  <2> QED
    BY <2>1, <2>3, <2>4 DEF Advances, Ending
<1>10. CASE WaitWriteDone(op)
  <2>1. /\ wd.state = "WAIT_CPUWRITE" /\ Succeeded
        /\ wd' = [r EXCEPT !.state = "ENDCOMMAND"]
    BY <1>10 DEF WaitWriteDone
  <2> HIDE DEF r
  <2>2. wd' \in WdType
    BY <1>1, <1>2, <2>1, WdUpdate
  <2>3. Onwards("ENDCOMMAND")
    BY <1>1, <2>1 DEF Onwards, Effect, WdType
  <2> QED
    BY <2>1, <2>2, <2>3 DEF Advances, Ending
<1>11. CASE WaitWrite(op)
  <2>1. /\ wd.state = "WAIT_CPUWRITE" /\ ~Failed /\ ~Succeeded
        /\ wd' = [r EXCEPT !.busy = FALSE, !.drq = FALSE]
    BY <1>11 DEF WaitWrite
  <2> HIDE DEF r
  <2>2. wd' \in WdType
    BY <1>1, <2>1, WdUpdate
  <2>3. Onwards(StateAfterBus(op))
    BY <1>1, <2>1 DEF Onwards, Effect, WdType
  <2> QED
    BY <2>1, <2>2, <2>3 DEF Advances, Pausing
<1>12. CASE WaitNopDone(op)
  <2>1. /\ wd.state = "WAIT_CPU" /\ "COMPLETE" \in status
        /\ wd' = [r EXCEPT !.state = "ENDCOMMAND"]
    BY <1>12 DEF WaitNopDone
  <2> HIDE DEF r
  <2>2. wd' \in WdType
    BY <1>1, <1>2, <2>1, WdUpdate
  <2>3. Onwards("ENDCOMMAND")
    BY <1>1, <2>1 DEF Onwards, Effect, WdType
  <2> QED
    BY <2>1, <2>2, <2>3 DEF Advances, Ending
<1>13. CASE WaitNop(op)
  BY <1>5, <1>13 DEF WaitNop, Advances, Pausing
<1>14. CASE Abort(op)
  <2>1. wd.state = "ABORT"
    BY <1>14 DEF Abort
  <2>2. wd' = [r EXCEPT !.len = 0, !.pending = FALSE, !.state = "ENDCOMMAND"]
    BY <1>14 DEF Abort
  <2> HIDE DEF r
  <2>3. wd' \in WdType
    BY <1>1, <1>2, <1>3, <2>2, WdUpdate
  <2>4. Effect("ENDCOMMAND", 0, wd.bufRd, wd.request)
    BY <1>1, <2>2 DEF Effect, WdType
  <2> QED
    BY <2>1, <2>3, <2>4 DEF Advances, Ending
<1>15. CASE EndCommand(op)
  <2>1. /\ wd.state = "ENDCOMMAND"
        /\ wd' = [r EXCEPT !.request = Plain("ACK"), !.state = "ENDCOMMAND2"]
    BY <1>15 DEF EndCommand
  <2> HIDE DEF r
  <2>2. wd' \in WdType
    BY <1>1, <1>2, <1>4, <2>1, WdUpdate
  <2>3. Effect("ENDCOMMAND2", wd.len, wd.bufRd, Plain("ACK"))
    BY <1>1, <2>1 DEF Effect, WdType
  <2> QED
    BY <2>1, <2>2, <2>3 DEF Advances, Ending
<1>16. CASE EndCommand2(op)
  <2>1. wd.state = "ENDCOMMAND2" /\ status = {}
    BY <1>16 DEF EndCommand2
  <2>2. wd' = [r EXCEPT !.request = Plain("NONE"), !.busy = FALSE, !.drq = FALSE,
                        !.state = "READY"]
    BY <1>16 DEF EndCommand2
  <2> HIDE DEF r
  <2>3. wd' \in WdType
    BY <1>1, <1>2, <1>4, <2>2, WdUpdate
  <2>4. Effect("READY", wd.len, wd.bufRd, Plain("NONE"))
    BY <1>1, <2>2 DEF Effect, WdType
  <2> QED
    BY <2>1, <2>3, <2>4 DEF Advances, Ending
<1>17. CASE EndCommand2Wait(op)
  BY <1>5, <1>17 DEF EndCommand2Wait, Advances, Pausing
<1> QED
  BY <1>6, <1>7, <1>8, <1>9, <1>10, <1>11, <1>12, <1>13, <1>14, <1>15, <1>16, <1>17
  DEF Finish

\* Every tick is one of the moves.
LEMMA MachineMoves ==
  ASSUME TypeOK, NoUnderrun, NEW op \in HostOp, Machine(op)
  PROVE  wd' \in WdType /\ Advances(op)
<1>1. CASE Idle(op)
  <2>1. wd.state = "READY" /\ wd' = Bus(op)
    BY <1>1 DEF Idle
  <2> QED
    BY <2>1, BusFacts DEF Advances, Pausing, Onwards, Effect
<1>2. CASE Dead
  <2> DEFINE r1 == [wd EXCEPT !.busy = TRUE, !.drq = TRUE, !.seekErr = TRUE,
                              !.crcErr = TRUE]
  <2>1. wd.state = "DEAD"
    BY <1>2 DEF Dead
  <2>2. wd' = [r1 EXCEPT !.wrFault = TRUE, !.dog = DogNext, !.request = Plain("FAIL")]
    BY <1>2, Zenon DEF Dead
  <2>3. wd \in WdType
    BY DEF TypeOK
  <2>4. r1 \in WdType
    BY <2>3, WdUpdate
  <2>5. r1.state = "DEAD" /\ r1.len = wd.len /\ r1.bufRd = wd.bufRd
    BY <2>1, <2>3 DEF WdType
  <2>6. DogNext \in 0 .. DogTicks
    BY WdFields, TicksAssumption DEF DogNext, Bark
  <2>7. Plain("FAIL") \in Request
    BY RequestTypes DEF RequestOps
  <2> HIDE DEF r1
  <2>8. wd' \in WdType
    BY <2>2, <2>4, <2>6, <2>7, WdUpdate
  <2>9. Effect("DEAD", wd.len, wd.bufRd, Plain("FAIL"))
    BY <2>2, <2>4, <2>5 DEF Effect, WdType
  <2> QED
    BY <2>1, <2>8, <2>9 DEF Advances, Ending
<1> QED
  BY <1>1, <1>2, AcceptMoves, SendMoves, ReceiveMoves, FinishMoves DEF Machine

-----------------------------------------------------------------------------
(* The workhorse's moves, as far as the handshake is concerned.            *)

\* The workhorse's locals may be assigned one by one.
LEMMA SlaveUpdate ==
  ASSUME NEW r \in SlaveType
  PROVE  /\ \A v \in Places : [r EXCEPT !.pc = v] \in SlaveType
         /\ \A v \in Request : [r EXCEPT !.cmd = v] \in SlaveType
         /\ \A v \in Results : [r EXCEPT !.result = v] \in SlaveType
         /\ \A v \in BOOLEAN : [r EXCEPT !.t1 = v] \in SlaveType
         /\ \A v \in Bit : [r EXCEPT !.side = v] \in SlaveType
         /\ \A v \in Byte : /\ [r EXCEPT !.track = v] \in SlaveType
                            /\ [r EXCEPT !.sector = v] \in SlaveType
         /\ \A v \in Addr : [r EXCEPT !.pos = v] \in SlaveType
<1>1. /\ \A v \in Places : [r EXCEPT !.pc = v] \in SlaveType
      /\ \A v \in Request : [r EXCEPT !.cmd = v] \in SlaveType
      /\ \A v \in Results : [r EXCEPT !.result = v] \in SlaveType
      /\ \A v \in Bit : [r EXCEPT !.side = v] \in SlaveType
  BY DEF SlaveType
<1>2. /\ \A v \in Byte : /\ [r EXCEPT !.track = v] \in SlaveType
                         /\ [r EXCEPT !.sector = v] \in SlaveType
      /\ \A v \in Addr : [r EXCEPT !.pos = v] \in SlaveType
  BY DEF SlaveType
<1>3. ASSUME NEW v \in BOOLEAN
      PROVE  [r EXCEPT !.t1 = v] \in SlaveType
  BY DEF SlaveType
<1> QED
  BY <1>1, <1>2, <1>3, Zenon

\* The workhorse's locals, one by one.
LEMMA SlaveFields ==
  ASSUME TypeOK
  PROVE  /\ slave \in SlaveType /\ slave.pc \in Places /\ slave.cmd \in Request
         /\ slave.t1 \in BOOLEAN /\ slave.result \in Results
         /\ slave.side \in Bit /\ slave.track \in Byte /\ slave.sector \in Byte
         /\ slave.pos \in Addr
<1>1. slave \in SlaveType
  BY DEF TypeOK
<1>2. /\ slave.pc \in Places /\ slave.cmd \in Request /\ slave.result \in Results
      /\ slave.side \in Bit /\ slave.track \in Byte /\ slave.sector \in Byte
      /\ slave.pos \in Addr
  BY <1>1 DEF SlaveType
<1>3. slave.t1 \in BOOLEAN
  BY <1>1 DEF SlaveType
<1> QED
  BY <1>1, <1>2, <1>3, Zenon

\* One access of the workhorse to a port: the place it comes to, the request it
\* works on, its result, and what then stands on the status port.
Course(p, c, r, st) ==
  slave'.pc = p /\ slave'.cmd = c /\ slave'.result = r /\ status' = st
Steps(p) == Course(p, slave.cmd, slave.result, status)
Loops(st) == Course("LOOP", Plain("NONE"), slave.result, st)

Booting ==
  \/ slave.pc = "BOOT" /\ Course("START", slave.cmd, slave.result, {})
  \/ slave.pc = "START" /\ Course("MOUNT", slave.cmd, slave.result, {"DRVNOTRDY"})
  \/ slave.pc = "MOUNT" /\ (Steps("ENTER") \/ Steps("INSERT"))
  \/ slave.pc = "INSERT" /\ Steps("START")
  \/ slave.pc = "ENTER" /\ \E r \in Results : Course("LOOP", slave.cmd, r, {})

Polling ==
  /\ slave.pc = "LOOP"
  /\ \/ slave.result = "RW_ERROR" /\ Steps("LEAVE")
     \/ Reaches(PollTicks) /\ Course("LEAVE", slave.cmd, "OK", status)
     \/ /\ Reaches(PollTicks)
        /\ Course(Handler(wd.request.op), wd.request, "OK", status)

Serving ==
  \/ /\ slave.pc = "RAISE"
     /\ \E p \in {"SEEK", "ANSWER"}, r \in Results : Course(p, slave.cmd, r, {"BUSY"})
  \/ slave.pc = "SEEK" /\ Steps("COPY")
  \/ /\ slave.pc = "COPY"
     /\ \E p \in {"COPY", "ANSWER"}, r \in Results : Course(p, slave.cmd, r, status)
  \/ slave.pc = "ANSWER" /\ Loops(Verdict)
  \/ slave.pc = "NOP_BUSY" /\ Course("NOP_DONE", slave.cmd, slave.result, {"BUSY"})
  \/ slave.pc = "NOP_DONE" /\ Loops({"COMPLETE"})

Resting ==
  \/ slave.pc = "ACKED" /\ Loops({})
  \/ slave.pc = "IDLE" /\ (Loops({}) \/ Course("INSERT", slave.cmd, slave.result, {}))
  \/ slave.pc = "LEAVE" /\ Course("INSERT", slave.cmd, slave.result, {})
  \/ slave.pc = "FAIL" /\ Course("HALT", slave.cmd, slave.result, {})

Courses == /\ Reaches(1) /\ slack' = 0
           /\ (Booting \/ Polling \/ Serving \/ Resting)

\* The stores are well-formed and so is the workhorse.
Sound == /\ slave' \in SlaveType /\ status' \in SUBSET StatusBits
           /\ buf' \in [Addr -> Byte] /\ disk' \in [Lbas -> [Addr -> Byte]]

\* Going on to another place leaves the other locals alone.
LEMMA GotoFacts ==
  ASSUME TypeOK, NEW p \in Places, Goto(p)
  PROVE  /\ slave' \in SlaveType
         /\ slave'.pc = p /\ slave'.cmd = slave.cmd /\ slave'.result = slave.result
<1>1. slave \in SlaveType
  BY SlaveFields
<1>2. slave' = [slave EXCEPT !.pc = p]
  BY DEF Goto
<1> QED
  BY <1>1, <1>2, SlaveUpdate DEF SlaveType

\* Going back to the loop keeps result and t1.
LEMMA BackToLoopFacts ==
  ASSUME TypeOK, BackToLoop
  PROVE  /\ slave' \in SlaveType
         /\ slave'.pc = "LOOP" /\ slave'.cmd = Plain("NONE")
         /\ slave'.result = slave.result
<1> DEFINE z == SlaveReset
<1>1. z \in SlaveType /\ z.cmd = Plain("NONE")
  <2>1. 0 \in Bit /\ 0 \in Byte /\ 0 \in Addr
    BY ByteModAssumption, SectorSizeAssumption DEF Bit, Byte, Addr
  <2>2. Plain("NONE") \in Request
    BY RequestTypes DEF RequestOps
  <2>3. "BOOT" \in Places /\ "OK" \in Results
    BY DEF Places, Results
  <2> QED
    BY <2>1, <2>2, <2>3 DEF SlaveReset, SlaveType
<1>2. slave' = [z EXCEPT !.pc = "LOOP", !.t1 = slave.t1,
                         !.result = slave.result]
  BY DEF BackToLoop
<1>3. "LOOP" \in Places
  BY DEF Places
<1> HIDE DEF z
<1>4. slave' \in SlaveType
  BY <1>1, <1>2, <1>3, SlaveFields, SlaveUpdate
<1>5. /\ slave'.pc = "LOOP" /\ slave'.cmd = Plain("NONE")
      /\ slave'.result = slave.result
  BY <1>1, <1>2 DEF SlaveType
<1> QED
  BY <1>4, <1>5

\* Only the bits of StatusBits are posted.
LEMMA PostTypes ==
  /\ {} \in SUBSET StatusBits /\ {"BUSY"} \in SUBSET StatusBits
  /\ {"COMPLETE"} \in SUBSET StatusBits /\ {"DRVNOTRDY"} \in SUBSET StatusBits
  /\ Verdict \in SUBSET StatusBits
BY DEF StatusBits, Verdict

\* Starting up, and waiting for a card with an image on it.
LEMMA BootCourses ==
  ASSUME TypeOK, Boot \/ Start \/ MountOk \/ MountFails \/ Insert \/ Enter
  PROVE  Courses /\ Sound
<1>1. /\ {"START", "MOUNT", "ENTER", "INSERT", "LOOP"} \subseteq Places
      /\ Reaches(PollTicks) => Reaches(1)
  BY PollAssumption DEF Places, Reaches, TypeOK
<1>2. /\ buf \in [Addr -> Byte] /\ disk \in [Lbas -> [Addr -> Byte]]
      /\ status \in SUBSET StatusBits
  BY DEF TypeOK
<1>3. CASE Boot
  <2>1. /\ slave.pc = "BOOT" /\ Reaches(1) /\ slack' = 0 /\ Goto("START")
        /\ status' = {} /\ buf' = buf /\ disk' = disk
    BY <1>3 DEF Boot, At, Post, Quietly
  <2> QED
    BY <1>1, <1>2, <2>1, GotoFacts, PostTypes
    DEF Courses, Booting, Course, Steps, Sound
<1>4. CASE Start
  <2>1. /\ slave.pc = "START" /\ Reaches(PollTicks) /\ slack' = 0 /\ Goto("MOUNT")
        /\ status' = {"DRVNOTRDY"} /\ buf' = buf /\ disk' = disk
    BY <1>4 DEF Start, At, Post, Quietly
  <2> QED
    BY <1>1, <1>2, <2>1, GotoFacts, PostTypes
    DEF Courses, Booting, Course, Steps, Sound
<1>5. CASE MountOk
  <2>1. /\ slave.pc = "MOUNT" /\ Reaches(PollTicks) /\ slack' = 0 /\ Goto("ENTER")
        /\ status' = status /\ buf' = buf /\ disk' = disk
    BY <1>5 DEF MountOk, At, Quietly
  <2> QED
    BY <1>1, <1>2, <2>1, GotoFacts DEF Courses, Booting, Course, Steps, Sound
<1>6. CASE MountFails
  <2>1. /\ slave.pc = "MOUNT" /\ Reaches(PollTicks) /\ slack' = 0 /\ Goto("INSERT")
        /\ status' = status /\ buf' = buf /\ disk' = disk
    BY <1>6 DEF MountFails, At, Post, Quietly
  <2> QED
    BY <1>1, <1>2, <2>1, GotoFacts, PostTypes
    DEF Courses, Booting, Course, Steps, Sound
<1>7. CASE Insert
  <2>1. /\ slave.pc = "INSERT" /\ Reaches(PollTicks) /\ slack' = 0 /\ Goto("START")
        /\ status' = status /\ buf' = buf /\ disk' = disk
    BY <1>7 DEF Insert, At, Post, Quietly
  <2> QED
    BY <1>1, <1>2, <2>1, GotoFacts, PostTypes
    DEF Courses, Booting, Course, Steps, Sound
<1>8. CASE Enter
  <2>1. PICK t \in BOOLEAN, x \in Leftover :
          slave' = [slave EXCEPT !.pc = "LOOP", !.t1 = t, !.result = x]
    BY <1>8 DEF Enter
  <2>2. /\ slave.pc = "ENTER" /\ Reaches(1) /\ slack' = 0
        /\ status' = {} /\ buf' = buf /\ disk' = disk
    BY <1>8 DEF Enter, At, Post
  <2>3. x \in Results
    BY DEF Leftover, Results
  <2>4. slave' \in SlaveType
    BY <1>1, <2>1, <2>3, SlaveFields, SlaveUpdate
  <2>5. slave'.pc = "LOOP" /\ slave'.cmd = slave.cmd /\ slave'.result = x
    BY <2>1, SlaveFields DEF SlaveType
  <2> QED
    BY <1>2, <2>2, <2>3, <2>4, <2>5, PostTypes DEF Courses, Booting, Course, Sound
<1> QED
  BY <1>3, <1>4, <1>5, <1>6, <1>7, <1>8

\* The loop: leaving it, or taking up a request.
LEMMA PollCourses ==
  ASSUME TypeOK, LoopEnds \/ NoCard \/ Sample
  PROVE  Courses /\ Sound
<1>1. /\ "LEAVE" \in Places /\ "OK" \in Results
      /\ Reaches(PollTicks) => Reaches(1)
  BY PollAssumption DEF Places, Results, Reaches, TypeOK
<1>2. /\ buf \in [Addr -> Byte] /\ disk \in [Lbas -> [Addr -> Byte]]
      /\ status \in SUBSET StatusBits
  BY DEF TypeOK
<1>3. CASE LoopEnds
  <2>1. /\ slave.pc = "LOOP" /\ Reaches(1) /\ slack' = 0 /\ Goto("LEAVE")
        /\ slave.result = "RW_ERROR"
        /\ status' = status /\ buf' = buf /\ disk' = disk
    BY <1>3 DEF LoopEnds, At, Quietly
  <2> QED
    BY <1>1, <1>2, <2>1, GotoFacts DEF Courses, Polling, Course, Steps, Sound
<1>4. CASE NoCard
  <2>1. /\ slave.pc = "LOOP" /\ Reaches(PollTicks) /\ slack' = 0
        /\ slave' = [slave EXCEPT !.pc = "LEAVE", !.result = "OK"]
        /\ status' = status /\ buf' = buf /\ disk' = disk
    BY <1>4 DEF NoCard, At, Quietly
  <2>2. slave' \in SlaveType
    BY <1>1, <2>1, SlaveFields, SlaveUpdate
  <2>3. slave'.pc = "LEAVE" /\ slave'.cmd = slave.cmd /\ slave'.result = "OK"
    BY <2>1, SlaveFields DEF SlaveType
  <2> QED
    BY <1>1, <1>2, <2>1, <2>2, <2>3 DEF Courses, Polling, Course, Sound
<1>5. CASE Sample
  <2> DEFINE h == Handler(wd.request.op)
  <2>1. /\ slave.pc = "LOOP" /\ Reaches(PollTicks) /\ slack' = 0
        /\ slave' = [slave EXCEPT !.pc = h, !.cmd = wd.request, !.result = "OK"]
        /\ status' = status /\ buf' = buf /\ disk' = disk
    BY <1>5 DEF Sample, At, Quietly
  <2>2. h \in Places /\ wd.request \in Request
    BY WdFields DEF Handler, Places
  <2> HIDE DEF h
  <2>3. slave' \in SlaveType
    BY <1>1, <2>1, <2>2, SlaveFields, SlaveUpdate
  <2>4. slave'.pc = h /\ slave'.cmd = wd.request /\ slave'.result = "OK"
    BY <2>1, SlaveFields DEF SlaveType
  <2> QED
    BY <1>1, <1>2, <2>1, <2>3, <2>4 DEF Courses, Polling, Course, Sound, h
<1> QED
  BY <1>3, <1>4, <1>5

\* Serving a READ, READ ADDRESS or WRITE request.
LEMMA ServeCourses ==
  ASSUME TypeOK,
         \/ Raise \/ SeekImage \/ ReadByte \/ WriteByte \/ Outside \/ CopyFails
         \/ AddressMark \/ Answer \/ NopBusy \/ NopDone
  PROVE  Courses /\ Sound
<1>1. /\ {"SEEK", "COPY", "ANSWER", "NOP_DONE"} \subseteq Places
      /\ {"OK", "RW_ERROR", "INVALID_DRIVE"} \subseteq Results
  BY DEF Places, Results
<1>2. /\ buf \in [Addr -> Byte] /\ disk \in [Lbas -> [Addr -> Byte]]
      /\ status \in SUBSET StatusBits
  BY DEF TypeOK
<1>3. CASE Raise
  <2> DEFINE t == OtherDrive
             x == IF t THEN "INVALID_DRIVE" ELSE "OK"
             p == IF t THEN "ANSWER" ELSE "SEEK"
  <2>1. /\ slave.pc = "RAISE" /\ Reaches(1) /\ slack' = 0
        /\ status' = {"BUSY"} /\ buf' = buf /\ disk' = disk
    BY <1>3 DEF Raise, At, Post
  <2>2. slave' = [slave EXCEPT !.t1 = t, !.result = x, !.pc = p]
    BY <1>3, Zenon DEF Raise
  <2>3. t \in BOOLEAN
    <3>1. OtherDrive = IF slave.cmd.op = "WRITE" THEN slave.t1
                                                ELSE slave.cmd.drive # 0
      BY DEF OtherDrive
    <3>2. CASE slave.cmd.op = "WRITE"
      BY <3>1, <3>2, SlaveFields
    <3>3. CASE slave.cmd.op # "WRITE"
      BY <3>1, <3>3, Zenon
    <3> QED
      BY <3>2, <3>3
  <2>4. x \in Results /\ p \in {"SEEK", "ANSWER"} /\ p \in Places
    BY <1>1
  <2> HIDE DEF t, x, p
  <2>5. slave' \in SlaveType
    BY <2>2, <2>3, <2>4, SlaveFields, SlaveUpdate
  <2>6. slave'.pc = p /\ slave'.cmd = slave.cmd /\ slave'.result = x
    BY <2>2, SlaveFields DEF SlaveType
  <2> QED
    BY <1>2, <2>1, <2>4, <2>5, <2>6, PostTypes DEF Courses, Serving, Course, Sound
<1>4. CASE SeekImage
  <2> DEFINE r1 == [slave EXCEPT !.pc = "COPY", !.pos = 0, !.side = slave.cmd.side]
  <2>1. /\ slave.pc = "SEEK" /\ Reaches(1) /\ slack' = 0
        /\ slave' = [r1 EXCEPT !.track = wd.diskTrack, !.sector = wd.sector]
        /\ status' = status /\ buf' = buf /\ disk' = disk
    BY <1>4 DEF SeekImage, At, Quietly
  <2>2. 0 \in Addr /\ slave.cmd.side \in Bit
    BY SlaveFields, SectorSizeAssumption DEF Addr, Request
  <2>3. r1 \in SlaveType
    BY <1>1, <2>2, SlaveFields, SlaveUpdate
  <2>4. r1.pc = "COPY" /\ r1.cmd = slave.cmd /\ r1.result = slave.result
    BY SlaveFields DEF SlaveType
  <2> HIDE DEF r1
  <2>5. slave' \in SlaveType
    BY <2>1, <2>3, WdFields, SlaveUpdate
  <2>6. slave'.pc = "COPY" /\ slave'.cmd = slave.cmd /\ slave'.result = slave.result
    BY <2>1, <2>3, <2>4 DEF SlaveType
  <2> QED
    BY <1>2, <2>1, <2>5, <2>6 DEF Courses, Serving, Course, Steps, Sound
<1>5. ASSUME Copied
      PROVE  /\ slave' \in SlaveType /\ slave'.pc \in {slave.pc, "ANSWER"}
             /\ slave'.cmd = slave.cmd /\ slave'.result = slave.result
  <2>1. CASE CopyDone
    <3>1. slave' = [slave EXCEPT !.pc = "ANSWER"]
      BY <1>5, <2>1 DEF Copied
    <3>2. slave' \in SlaveType
      BY <1>1, <3>1, SlaveFields, SlaveUpdate
    <3> QED
      BY <3>1, <3>2, SlaveFields DEF SlaveType
  <2>2. CASE ~CopyDone
    <3>1. slave' = [slave EXCEPT !.pos = slave.pos + 1]
      BY <1>5, <2>2 DEF Copied
    <3>2. slave.pos + 1 \in Addr
      BY <2>2, SlaveFields, SectorSizeAssumption DEF CopyDone, Addr
    <3>3. slave' \in SlaveType
      BY <3>1, <3>2, SlaveFields, SlaveUpdate
    <3> QED
      BY <3>1, <3>3, SlaveFields DEF SlaveType
  <2> QED
    BY <2>1, <2>2
<1>6. CASE ReadByte
  <2>1. /\ slave.pc = "COPY" /\ Reaches(1) /\ slack' = 0 /\ Copied /\ Here \in Lbas
        /\ buf' = [buf EXCEPT ![slave.pos] = disk[Here][slave.pos]]
        /\ status' = status /\ disk' = disk
    BY <1>6 DEF ReadByte, Moves, At
  <2>2. disk[Here][slave.pos] \in Byte
    BY <1>2, <2>1, SlaveFields
  <2>3. buf' \in [Addr -> Byte]
    BY <1>2, <2>1, <2>2
  <2> QED
    BY <1>2, <1>5, <2>1, <2>3, SlaveFields DEF Courses, Serving, Course, Sound
<1>7. CASE WriteByte
  <2>1. /\ slave.pc = "COPY" /\ Reaches(1) /\ slack' = 0 /\ Copied /\ Here \in Lbas
        /\ disk' = [disk EXCEPT ![Here][slave.pos] = buf[slave.pos]]
        /\ status' = status /\ buf' = buf
    BY <1>7 DEF WriteByte, Moves, At
  <2>2. buf[slave.pos] \in Byte /\ disk[Here] \in [Addr -> Byte]
    BY <1>2, <2>1, SlaveFields
  <2>3. [disk[Here] EXCEPT ![slave.pos] = buf[slave.pos]] \in [Addr -> Byte]
    BY <2>2
  <2>4. disk' \in [Lbas -> [Addr -> Byte]]
    BY <1>2, <2>1, <2>3
  <2> QED
    BY <1>2, <1>5, <2>1, <2>4, SlaveFields DEF Courses, Serving, Course, Sound
<1>8. CASE Outside
  <2>1. /\ slave.pc = "COPY" /\ Reaches(1) /\ slack' = 0 /\ Goto("ANSWER")
        /\ status' = status /\ buf' = buf /\ disk' = disk
    BY <1>8 DEF Outside, At, Quietly
  <2> QED
    BY <1>1, <1>2, <2>1, GotoFacts, SlaveFields DEF Courses, Serving, Course, Sound
<1>9. CASE CopyFails
  <2>1. /\ slave.pc = "COPY" /\ Reaches(1) /\ slack' = 0
        /\ slave' = [slave EXCEPT !.pc = "ANSWER", !.result = "RW_ERROR"]
        /\ status' = status /\ buf' = buf /\ disk' = disk
    BY <1>9 DEF CopyFails, At, Quietly
  <2>2. slave' \in SlaveType
    BY <1>1, <2>1, SlaveFields, SlaveUpdate
  <2>3. slave'.pc = "ANSWER" /\ slave'.cmd = slave.cmd /\ slave'.result = "RW_ERROR"
    BY <2>1, SlaveFields DEF SlaveType
  <2> QED
    BY <1>1, <1>2, <2>1, <2>2, <2>3 DEF Courses, Serving, Course, Sound
<1>10. CASE AddressMark
  <2>1. /\ slave.pc = "COPY" /\ Reaches(1) /\ slack' = 0 /\ Goto("ANSWER")
        /\ buf' = [k \in Addr |-> IF k < AddrSize THEN AddressField(k) ELSE buf[k]]
        /\ status' = status /\ disk' = disk
    BY <1>10 DEF AddressMark, Moves, At
  <2>2. \A k \in Addr : AddressField(k) \in Byte
    <3>1. 0 \in Byte /\ 1 \in Byte /\ 3 % ByteMod \in Byte /\ slave.side \in {0, 1}
      BY ByteModAssumption, SlaveFields DEF Byte, Bit
    <3> QED
      BY <3>1, SlaveFields DEF AddressField
  <2>3. buf' \in [Addr -> Byte]
    BY <1>2, <2>1, <2>2
  <2> QED
    BY <1>1, <1>2, <2>1, <2>3, GotoFacts, SlaveFields
    DEF Courses, Serving, Course, Sound
<1>11. CASE Answer
  <2>1. /\ slave.pc = "ANSWER" /\ Reaches(1) /\ slack' = 0 /\ BackToLoop
        /\ status' = Verdict /\ buf' = buf /\ disk' = disk
    BY <1>11 DEF Answer, At, Post
  <2> QED
    BY <1>2, <2>1, BackToLoopFacts, PostTypes
    DEF Courses, Serving, Loops, Course, Sound
<1>12. CASE NopBusy
  <2>1. /\ slave.pc = "NOP_BUSY" /\ Reaches(1) /\ slack' = 0 /\ Goto("NOP_DONE")
        /\ status' = {"BUSY"} /\ buf' = buf /\ disk' = disk
    BY <1>12 DEF NopBusy, At, Post
  <2> QED
    BY <1>1, <1>2, <2>1, GotoFacts, PostTypes DEF Courses, Serving, Course, Sound
<1>13. CASE NopDone
  <2>1. /\ slave.pc = "NOP_DONE" /\ Reaches(1) /\ slack' = 0 /\ BackToLoop
        /\ status' = {"COMPLETE"} /\ buf' = buf /\ disk' = disk
    BY <1>13 DEF NopDone, At, Post
  <2> QED
    BY <1>2, <2>1, BackToLoopFacts, PostTypes
    DEF Courses, Serving, Loops, Course, Sound
<1> QED
  BY <1>3, <1>4, <1>6, <1>7, <1>8, <1>9, <1>10, <1>11, <1>12, <1>13

\* Acknowledging, idling, leaving and giving up.
LEMMA RestCourses ==
  ASSUME TypeOK, Acked \/ Blink \/ Leave \/ Fail
  PROVE  Courses /\ Sound
<1>1. {"INSERT", "HALT"} \subseteq Places
  BY DEF Places
<1>2. buf \in [Addr -> Byte] /\ disk \in [Lbas -> [Addr -> Byte]]
  BY DEF TypeOK
<1>3. CASE Acked
  <2>1. /\ slave.pc = "ACKED" /\ Reaches(1) /\ slack' = 0 /\ BackToLoop
        /\ status' = {} /\ buf' = buf /\ disk' = disk
    BY <1>3 DEF Acked, At, Post
  <2> QED
    BY <1>2, <2>1, BackToLoopFacts, PostTypes
    DEF Courses, Resting, Loops, Course, Sound
<1>4. CASE Blink
  <2>1. /\ slave.pc = "IDLE" /\ Reaches(1) /\ slack' = 0
        /\ BackToLoop \/ Goto("INSERT")
        /\ status' = {} /\ buf' = buf /\ disk' = disk
    BY <1>4 DEF Blink, At, Post
  <2>2. CASE BackToLoop
    BY <1>2, <2>1, <2>2, BackToLoopFacts, PostTypes
    DEF Courses, Resting, Loops, Course, Sound
  <2>3. CASE Goto("INSERT")
    BY <1>1, <1>2, <2>1, <2>3, GotoFacts, PostTypes
    DEF Courses, Resting, Course, Sound
  <2> QED
    BY <2>1, <2>2, <2>3
<1>5. CASE Leave
  <2>1. /\ slave.pc = "LEAVE" /\ Reaches(1) /\ slack' = 0 /\ Goto("INSERT")
        /\ status' = {} /\ buf' = buf /\ disk' = disk
    BY <1>5 DEF Leave, At, Post
  <2> QED
    BY <1>1, <1>2, <2>1, GotoFacts, PostTypes DEF Courses, Resting, Course, Sound
<1>6. CASE Fail
  <2>1. /\ slave.pc = "FAIL" /\ Reaches(1) /\ slack' = 0 /\ Goto("HALT")
        /\ status' = {} /\ buf' = buf /\ disk' = disk
    BY <1>6 DEF Fail, At, Post
  <2> QED
    BY <1>1, <1>2, <2>1, GotoFacts, PostTypes DEF Courses, Resting, Course, Sound
<1> QED
  BY <1>3, <1>4, <1>5, <1>6

\* Every step of the workhorse is one of the courses.
LEMMA WorkhorseCourses ==
  ASSUME TypeOK, Workhorse
  PROVE  Courses /\ Sound
BY BootCourses, PollCourses, ServeCourses, RestCourses DEF Workhorse

-----------------------------------------------------------------------------
(* Types, and the length of a transfer.                                    *)

\* The initial state is well-typed, and no transfer is under way in it.
LEMMA TypeInit == Init => TypeOK /\ NoUnderrun
<1> SUFFICES ASSUME Init PROVE TypeOK /\ NoUnderrun
  OBVIOUS
<1>1. /\ 0 \in Bit /\ 0 \in Byte /\ 0 \in Addr /\ ByteMod - 1 \in Byte
      /\ 0 \in 0 .. SectorSize /\ 0 \in 0 .. ReadTicks /\ 0 \in 0 .. DogTicks
      /\ 0 \in 0 .. PollTicks
  BY ByteModAssumption, SectorSizeAssumption, TicksAssumption, PollAssumption
  DEF Bit, Byte, Addr
<1>2. Plain("ACK") \in Request /\ Plain("NONE") \in Request
  BY <1>1 DEF Plain, Request, RequestOps
<1>3. "READY" \in States /\ "RESTORE" \in Commands
  BY DEF States, Commands
<1>4. wd \in WdType
  BY <1>1, <1>2, <1>3 DEF Init, WdReset, WdType
<1>5. slave \in SlaveType
  <2>1. "BOOT" \in Places /\ "OK" \in Results
    BY DEF Places, Results
  <2> QED
    BY <1>1, <1>2, <2>1 DEF Init, SlaveReset, SlaveType
<1>6. asked \in Asked
  BY <1>1, <1>3 DEF Init, Asked
<1>7. buf \in [Addr -> Byte] /\ given \in [Addr -> Byte]
  BY <1>1 DEF Init
<1>8. disk \in [Lbas -> [Addr -> Byte]]
  <2>1. \A l \in Lbas : (l + 1) % ByteMod \in Byte
    BY ByteModAssumption, ImageAssumption DEF Lbas, Byte
  <2> QED
    BY <2>1 DEF Init
<1>9. status \in SUBSET StatusBits /\ slack \in 0 .. PollTicks /\ card \in BOOLEAN
  BY <1>1 DEF Init
<1>10. NoUnderrun
  BY DEF Init, WdReset, NoUnderrun, Reading, Writing
<1> QED
  BY <1>4, <1>5, <1>6, <1>7, <1>8, <1>9, <1>10 DEF TypeOK

\* No move of the machine lets the length run out early.
LEMMA LengthStep ==
  ASSUME TypeOK, NoUnderrun, NEW op \in HostOp, Advances(op)
  PROVE  NoUnderrun'
<1>1. /\ wd.len \in 0 .. SectorSize /\ SectorSize \in Nat /\ SectorSize >= 1
      /\ AddrSize \in Nat /\ AddrSize >= 1
  BY WdFields, SectorSizeAssumption, AddrSizeAssumption
<1>2. CASE Pausing /\ Onwards(StateAfterBus(op))
  <2>1. /\ wd'.state \in {wd.state, "ABORT", "DEAD"} /\ wd.state # "READ_1"
        /\ wd'.len = wd.len
    BY <1>2 DEF Pausing, Onwards, Effect, StateAfterBus
  <2> QED
    BY <2>1 DEF NoUnderrun, Reading, Writing
<1>3. CASE Starting
  BY <1>1, <1>3 DEF Starting, Effect, NoUnderrun, Reading, Writing
<1>4. CASE Sending
  BY <1>1, <1>4 DEF Sending, Onwards, Effect, NoUnderrun, Reading, Writing
<1>5. CASE Receiving
  BY <1>1, <1>5 DEF Receiving, Onwards, Effect, NoUnderrun, Reading, Writing
<1>6. CASE Ending
  BY <1>6 DEF Ending, Onwards, Effect, NoUnderrun, Reading, Writing
<1> QED
  BY <1>2, <1>3, <1>4, <1>5, <1>6 DEF Advances

\* Every step keeps the types and the length of a transfer.
LEMMA TypeStep == TypeOK /\ NoUnderrun /\ [Next]_vars => TypeOK' /\ NoUnderrun'
<1> SUFFICES ASSUME TypeOK, NoUnderrun, [Next]_vars PROVE TypeOK' /\ NoUnderrun'
  OBVIOUS
<1>1. ASSUME NEW op \in HostOps, Tick(op)
      PROVE  TypeOK' /\ NoUnderrun'
  <2>1. op \in HostOp /\ op.data \in Byte
    BY HostOpsType DEF HostOp
  <2>2. wd' \in WdType /\ Advances(op)
    BY <1>1, <2>1, MachineMoves DEF Tick
  <2>3. NoUnderrun'
    BY <2>1, <2>2, LengthStep
  <2>4. buf' \in [Addr -> Byte]
    <3>1. buf \in [Addr -> Byte]
      BY DEF TypeOK
    <3>2. buf' = buf \/ buf' = [buf EXCEPT ![wd.addr] = wd.datareg]
      BY <1>1 DEF Tick, BufferWrite
    <3> QED
      BY <3>1, <3>2, WdFields
  <2>5. slack' \in 0 .. PollTicks
    BY <1>1, PollAssumption DEF Tick, CountTick, TypeOK
  <2>6. asked' \in Asked
    <3>1. asked' = asked \/
          asked' = [op |-> wd.command, drive |-> wd.drive, side |-> wd.side,
                    track |-> wd.diskTrack, sector |-> wd.sector]
      BY <1>1 DEF Tick, Remember
    <3>2. asked \in Asked
      BY DEF TypeOK
    <3> QED
      BY <3>1, <3>2, WdFields DEF Asked
  <2>7. given' \in [Addr -> Byte]
    <3>1. given \in [Addr -> Byte]
      BY DEF TypeOK
    <3>2. given' = given \/
          given' = [given EXCEPT ![SectorSize - wd.len] = op.data]
      BY <1>1 DEF Tick, Record
    <3> QED
      BY <2>1, <3>1, <3>2
  <2>8. /\ slave' \in SlaveType /\ status' \in SUBSET StatusBits
        /\ disk' \in [Lbas -> [Addr -> Byte]] /\ card' \in BOOLEAN
    BY <1>1 DEF Tick, TypeOK
  <2> QED
    BY <2>2, <2>3, <2>4, <2>5, <2>6, <2>7, <2>8 DEF TypeOK
<1>2. CASE Serve
  <2>1. Courses /\ Sound
    BY <1>2, WorkhorseCourses DEF Serve
  <2>2. slack' \in 0 .. PollTicks
    BY <2>1, PollAssumption DEF Courses
  <2>3. wd' = wd /\ card' = card /\ asked' = asked /\ given' = given
    BY <1>2 DEF Serve
  <2> QED
    BY <2>1, <2>2, <2>3 DEF TypeOK, Sound, NoUnderrun
<1>3. CASE Slot
  <2>1. card' \in BOOLEAN
    BY <1>3 DEF Slot, Swap
  <2> QED
    BY <1>3, <2>1 DEF Slot, TypeOK, NoUnderrun
<1>4. CASE UNCHANGED vars
  BY <1>4 DEF vars, TypeOK, NoUnderrun
<1> QED
  BY <1>1, <1>2, <1>3, <1>4 DEF Next, Clock

\* Every register, port and store keeps its type, whatever the host does.
THEOREM TypeCorrect == Spec => []TypeOK
<1>1. Spec => [](TypeOK /\ NoUnderrun)
  BY TypeInit, TypeStep, PTL DEF Spec
<1> QED
  BY <1>1, PTL

\* No transfer counts past its last byte, whatever the host does.
THEOREM LengthCorrect == Spec => []NoUnderrun
<1>1. Spec => [](TypeOK /\ NoUnderrun)
  BY TypeInit, TypeStep, PTL DEF Spec
<1> QED
  BY <1>1, PTL

-----------------------------------------------------------------------------
(* The handshake, for a patient host.                                      *)

\* The two sides agree at first: neither has begun.
LEMMA HandshakeInit == Init => Handshake
BY DEF Init, WdReset, SlaveReset, Plain, Handshake, InvCourse, InvFrozen, InvRequest,
       InvStatus, InvSettling, ServesCurrent, Working, Reading, Writing, Waiting

\* Which liberties it takes to write $D0, and to write a command while BUSY is up.
LEMMA HostPorts ==
  ASSUME NEW op \in HostOps
  PROVE  /\ op.port = "FORCE" => "abort" \in HostMay
         /\ op.port = "COMMAND" => Quiet \/ "barge" \in HostMay
<1>1. CASE op \in {NoOp, Access("RDDATA")}
  BY <1>1 DEF NoOp, Access
<1>2. CASE op = Access("FORCE") /\ "abort" \in HostMay
  BY <1>2 DEF NoOp, Access
<1>3. CASE op \in {Issue(c) : c \in HostCommands} /\ (Quiet \/ "barge" \in HostMay)
  BY <1>3 DEF Issue, NoOp
<1>4. CASE op \in {Write("DATA", v) : v \in HostData}
  <2>1. PICK v \in HostData : op = Write("DATA", v)
    BY <1>4
  <2>2. op.port = "DATA"
    BY <2>1 DEF Write, NoOp
  <2> QED
    BY <2>2
<1>5. CASE op \in {Select(d, x) : d \in HostDrives, x \in HostSides}
  <2>1. PICK d \in HostDrives, x \in HostSides : op = Select(d, x)
    BY <1>5
  <2>2. op.port = "CTL2"
    BY <2>1 DEF Select, NoOp
  <2> QED
    BY <2>2
<1>6. CASE op \in HostRegs
  BY <1>6, HostAssumption
<1> QED
  BY <1>1, <1>2, <1>3, <1>4, <1>5, <1>6 DEF HostOps

\* A patient host does not divert the machine.
LEMMA PatientCourse ==
  ASSUME Patient, NEW op \in HostOps
  PROVE  StateAfterBus(op) = wd.state
<1>1. op.port # "FORCE" /\ (op.port = "COMMAND" => Quiet)
  BY HostPorts DEF Patient
<1>2. Quiet => ~wd.pending
  BY DEF Quiet, StatusBusy
<1> QED
  BY <1>1, <1>2 DEF StateAfterBus, Barges

\* The controller's tick keeps its side of the handshake.
LEMMA HandshakeTick ==
  ASSUME TypeOK, NoUnderrun, Handshake, Patient, NEW op \in HostOps, Tick(op)
  PROVE  Handshake'
<1>1. Advances(op) /\ StateAfterBus(op) = wd.state
  BY HostOpsType, MachineMoves, PatientCourse DEF Tick
<1>2. status' = status /\ slave' = slave
  BY DEF Tick
<1>3. /\ slack \in Nat /\ slack' \in Nat /\ slack' <= slack + 1
      /\ wd.bufRd => slack' = slack
  BY PollAssumption DEF Tick, CountTick, Frozen, TypeOK
<1>4. wd.state \in States /\ wd.bufRd \in BOOLEAN
  BY WdFields
<1>5. /\ InvCourse /\ InvFrozen /\ InvRequest /\ InvStatus /\ InvSettling
      /\ ServesCurrent
  BY DEF Handshake
<1>6. InvStatus'
  BY <1>2, <1>5 DEF InvStatus, Standing
<1>7. slave.pc \in Working => "COMPLETE" \notin status /\ "DRVNOTRDY" \notin status
  BY <1>5 DEF InvStatus, Working
<1>8. CASE Pausing /\ Onwards(StateAfterBus(op))
  <2>1. /\ wd'.state = wd.state /\ wd'.request = wd.request /\ wd'.bufRd = wd.bufRd
        /\ wd.state \notin {"READ_2", "ENDCOMMAND"}
    BY <1>1, <1>8 DEF Pausing, Onwards, Effect
  <2>2. wd.state \in {"READ_3", "READSECT"} => wd.bufRd
    BY <1>5 DEF InvFrozen
  <2>3. wd.state \in Waiting => "COMPLETE" \notin status
    BY <1>8 DEF Pausing, Waiting, Failed, Succeeded
  <2>4. InvCourse' /\ InvFrozen' /\ InvRequest' /\ ServesCurrent'
    BY <1>2, <1>5, <2>1 DEF InvCourse, InvFrozen, InvRequest, ServesCurrent, Waits
  <2>5. InvSettling'
    BY <1>2, <1>3, <1>5, <2>1, <2>2, <2>3 DEF InvSettling, Waiting, Reading, Writing
  <2> QED
    BY <1>6, <2>4, <2>5 DEF Handshake
<1>9. CASE Starting
  <2>1. slave.pc \notin Working
    BY <1>5, <1>9 DEF Starting, ServesCurrent, Waits
  <2>2. "COMPLETE" \notin status /\ ~wd.bufRd
    BY <1>5, <1>9 DEF Starting, InvSettling, InvFrozen, Reading
  <2>3. InvCourse' /\ InvFrozen'
    BY <1>9, <2>2 DEF Starting, Effect, InvCourse, InvFrozen, Reading
  <2>4. InvRequest'
    BY <1>5, <1>9 DEF Starting, Effect, Plain, InvRequest, Reading, Writing
  <2>5. InvSettling' /\ ServesCurrent'
    BY <1>2, <1>9, <2>1, <2>2
    DEF Starting, Effect, InvSettling, ServesCurrent, Reading, Writing
  <2> QED
    BY <1>6, <2>3, <2>4, <2>5 DEF Handshake
<1>10. CASE Sending
  <2>1. /\ slave.pc = "LOOP" /\ {"COMPLETE", "SUCCESS"} \subseteq status
        /\ wd.state \in Reading
    BY <1>5, <1>10 DEF Sending, InvSettling, Reading
  <2>2. slave.pc \notin Working
    BY <2>1 DEF Working
  <2>3. InvCourse' /\ InvFrozen'
    BY <1>5, <1>10 DEF Sending, Onwards, Effect, InvCourse, InvFrozen, Reading
  <2>4. InvRequest'
    BY <1>5, <1>10 DEF Sending, Onwards, Effect, InvRequest, Reading, Writing
  <2>5. slack' <= 2
    <3>1. CASE wd.bufRd
      BY <1>3, <1>5, <2>1, <3>1 DEF InvSettling
    <3>2. CASE ~wd.bufRd
      <4>1. wd.state = "READ_2"
        BY <1>5, <2>1, <3>2 DEF InvFrozen, Reading
      <4>2. slack <= 1
        BY <1>5, <2>1, <3>2, <4>1 DEF InvSettling
      <4> QED
        BY <1>3, <4>2
    <3> QED
      BY <3>1, <3>2
  <2>6. InvSettling' /\ ServesCurrent'
    <3>1. wd'.state \in Reading \union {"ENDCOMMAND"}
      BY <1>10 DEF Sending, Onwards, Effect, Reading
    <3>2. wd'.state = "READ_2" => wd'.bufRd
      BY <1>5, <1>10 DEF Sending, Onwards, Effect, InvFrozen
    <3> QED
      BY <1>2, <2>1, <2>2, <2>5, <3>1, <3>2
      DEF InvSettling, ServesCurrent, Reading, Writing, Waiting
  <2> QED
    BY <1>6, <2>3, <2>4, <2>6 DEF Handshake
<1>11. CASE Receiving
  <2>1. slave.pc \notin Working
    BY <1>5, <1>11 DEF Receiving, ServesCurrent, Waits
  <2>2. "COMPLETE" \notin status /\ ~wd.bufRd
    BY <1>5, <1>11 DEF Receiving, InvSettling, InvFrozen, Reading, Writing
  <2>3. InvCourse' /\ InvFrozen'
    BY <1>11, <2>2 DEF Receiving, Onwards, Effect, InvCourse, InvFrozen, Reading
  <2>4. InvRequest'
    BY <1>5, <1>11
    DEF Receiving, Onwards, Effect, FlushRequest, InvRequest, Reading, Writing
  <2>5. InvSettling' /\ ServesCurrent'
    BY <1>2, <1>11, <2>1, <2>2
    DEF Receiving, Onwards, Effect, InvSettling, ServesCurrent, Reading, Writing
  <2> QED
    BY <1>6, <2>3, <2>4, <2>5 DEF Handshake
<1>12. CASE Ending
  <2>1. slave.pc \notin Working
    BY <1>5, <1>7, <1>12 DEF Ending, ServesCurrent, Waits, Failed, Succeeded, InvCourse
  <2>2. ~wd.bufRd
    BY <1>5, <1>12 DEF Ending, InvFrozen, Reading
  <2>3. InvCourse' /\ InvFrozen'
    BY <1>5, <1>12, <2>2 DEF Ending, Onwards, Effect, InvCourse, InvFrozen, Reading
  <2>4. InvRequest'
    BY <1>5, <1>12
    DEF Ending, Onwards, Effect, Plain, InvRequest, InvCourse, Reading, Writing
  <2>5. InvSettling'
    <3>1. wd.state \in Waiting /\ "COMPLETE" \in status => slave.pc = "LOOP" /\ slack = 0
      BY <1>5 DEF InvSettling
    <3>2. slave.pc = "LOOP" => "DRVNOTRDY" \notin status
      BY <1>5 DEF InvStatus, Standing
    <3>3. CASE wd.state \in Waiting
      <4>1. /\ wd'.state \in {"READ_2", "ENDCOMMAND"} /\ wd'.bufRd = wd.bufRd
            /\ wd'.state = "READ_2" => {"COMPLETE", "SUCCESS"} \subseteq status
            /\ "COMPLETE" \in status \/ "DRVNOTRDY" \in status
        BY <1>12, <3>3 DEF Ending, Onwards, Effect, Waiting, Failed, Succeeded
      <4> QED
        BY <1>2, <1>3, <2>2, <3>1, <3>2, <3>3, <4>1
        DEF InvSettling, Reading, Writing, Waiting
    <3>4. CASE wd.state = "ENDCOMMAND"
      <4>1. wd'.state = "ENDCOMMAND2" /\ wd'.bufRd = wd.bufRd
        BY <1>12, <3>4 DEF Ending, Onwards, Effect
      <4> QED
        BY <1>2, <2>2, <4>1 DEF InvSettling, Reading, Writing, Waiting
    <3>5. CASE wd.state = "ENDCOMMAND2"
      <4>1. wd'.state = "READY" /\ wd'.bufRd = wd.bufRd /\ status = {}
        BY <1>12, <3>5 DEF Ending, Onwards, Effect
      <4> QED
        BY <1>2, <4>1 DEF InvSettling, Reading
    <3> QED
      BY <1>5, <1>12, <3>3, <3>4, <3>5 DEF Ending, InvCourse, Waiting
  <2>6. ServesCurrent'
    BY <1>2, <2>1 DEF ServesCurrent
  <2> QED
    BY <1>6, <2>3, <2>4, <2>5, <2>6 DEF Handshake
<1> QED
  BY <1>1, <1>8, <1>9, <1>10, <1>11, <1>12 DEF Advances

\* The workhorse's steps keep its side of the handshake.
LEMMA HandshakeServe ==
  ASSUME TypeOK, Handshake, Courses, wd' = wd
  PROVE  Handshake'
<1>1. /\ InvCourse /\ InvFrozen /\ InvRequest /\ InvStatus /\ InvSettling
      /\ ServesCurrent
  BY DEF Handshake
<1>2. InvCourse' /\ InvFrozen' /\ InvRequest'
  BY <1>1 DEF InvCourse, InvFrozen, InvRequest
<1>3. /\ ~wd.bufRd /\ slack \in Nat /\ slack >= 1 /\ slack' = 0
      /\ Reaches(PollTicks) => slack >= 3
  BY PollAssumption DEF Courses, Reaches, Frozen, TypeOK
<1>4. wd.state \in States /\ slave.result \in Results
  BY WdFields, SlaveFields
\* While a sector is read out, the workhorse is held or too busy to notice.
<1>5. wd.state \in Reading =>
        /\ wd.state = "READ_2" /\ slave.pc = "LOOP" /\ slave.result = "OK" /\ slack <= 1
  BY <1>1, <1>3 DEF InvFrozen, InvSettling, InvStatus, Reading
<1>6. wd.state \notin Reading
  <2>1. SUFFICES ASSUME wd.state \in Reading PROVE FALSE
    OBVIOUS
  <2>2. Polling /\ ~Reaches(PollTicks)
    BY <1>3, <1>5, <2>1 DEF Courses, Booting, Serving, Resting
  <2> QED
    BY <1>5, <2>1, <2>2 DEF Polling
<1>7. CASE Booting
  <2>1. slave.pc \notin Working /\ "COMPLETE" \notin status
    BY <1>1, <1>7 DEF Booting, Working, InvStatus
  <2>2. InvStatus'
    BY <1>1, <1>7 DEF Booting, Course, Steps, InvStatus, Standing
  <2>3. InvSettling' /\ ServesCurrent'
    BY <1>3, <1>6, <1>7, <2>1
    DEF Booting, Course, Steps, InvSettling, ServesCurrent, Working, Reading
  <2> QED
    BY <1>2, <2>2, <2>3 DEF Handshake
<1>8. CASE Polling
  <2>1. /\ slave.pc = "LOOP" /\ status' = status
        /\ status \in Standing /\ "DRVNOTRDY" \notin status
    BY <1>1, <1>8 DEF Polling, Course, Steps, InvStatus, Standing
  <2>2. "COMPLETE" \in status => wd.state \in {"ENDCOMMAND", "ENDCOMMAND2"}
    BY <1>1, <1>3, <1>4, <1>6
    DEF InvSettling, InvCourse, States, Reading, Writing, Waiting
  <2>3. CASE slave'.pc = "LEAVE"
    BY <1>2, <1>3, <1>6, <2>1, <2>2, <2>3
    DEF Handshake, InvStatus, InvSettling, ServesCurrent, Working, Waiting, Writing
  <2>4. CASE /\ Reaches(PollTicks)
             /\ Course(Handler(wd.request.op), wd.request, "OK", status)
    <3>1. wd.state # "ENDCOMMAND"
      BY <1>1, <1>3, <2>1, <2>4 DEF InvSettling
    <3>2. slave'.pc = Handler(wd.request.op) /\ slave'.cmd = wd.request
      BY <2>4 DEF Course
    <3>3. CASE wd.state \in {"READY"} \union Writing
      <4>1. slave'.pc \in {"IDLE", "ACKED"} /\ status = {}
        BY <1>1, <2>1, <2>2, <3>2, <3>3 DEF InvRequest, Handler, Writing, Standing
      <4> QED
        BY <1>2, <1>6, <2>1, <4>1
        DEF Handshake, InvStatus, InvSettling, ServesCurrent, Working, Standing
    <3>4. CASE wd.state \in Waiting
      <4>1. /\ slave'.pc \in {"RAISE", "NOP_BUSY"} /\ status = {}
            /\ wd.state = Waits(wd.request.op)
        BY <1>1, <2>1, <2>2, <3>2, <3>4
        DEF InvRequest, Handler, Waits, Waiting, Standing
      <4> QED
        BY <1>2, <1>6, <2>1, <3>2, <4>1
        DEF Handshake, InvStatus, InvSettling, ServesCurrent, Working, Standing
    <3>5. CASE wd.state = "ENDCOMMAND2"
      <4>1. slave'.pc = "ACKED"
        BY <1>1, <3>2, <3>5 DEF InvRequest, Handler
      <4> QED
        BY <1>2, <1>3, <2>1, <3>5, <4>1
        DEF Handshake, InvStatus, InvSettling, ServesCurrent, Working, Standing,
            Reading, Writing, Waiting
    <3> QED
      BY <1>1, <1>4, <1>6, <3>1, <3>3, <3>4, <3>5
      DEF InvCourse, States, Reading, Writing, Waiting
  <2> QED
    BY <1>8, <2>3, <2>4 DEF Polling, Course, Steps
<1>9. CASE Serving
  <2>1. slave.cmd = wd.request /\ wd.state = Waits(wd.request.op)
    BY <1>1, <1>9 DEF Serving, ServesCurrent, Working
  <2>2. wd.state \in Waiting
    BY <2>1 DEF Waits, Waiting
  <2>3. InvStatus'
    <3>1. CASE slave.pc = "ANSWER" /\ Loops(Verdict)
      <4>1. Verdict \in Standing /\ ("SUCCESS" \in Verdict => slave.result = "OK")
        BY <1>4 DEF Verdict, Standing, Results
      <4> QED
        BY <3>1, <4>1 DEF Loops, Course, InvStatus, Standing
    <3> QED
      BY <1>1, <1>9, <3>1 DEF Serving, Loops, Course, Steps, InvStatus, Standing
  <2>4. "COMPLETE" \in status' => slave'.pc = "LOOP"
    BY <1>1, <1>9 DEF Serving, Loops, Course, Steps, InvStatus
  <2>5. InvSettling'
    BY <1>3, <1>6, <2>2, <2>4 DEF InvSettling, Reading, Writing, Waiting
  <2>6. ServesCurrent'
    BY <1>9, <2>1 DEF Serving, Loops, Course, Steps, ServesCurrent, Working
  <2> QED
    BY <1>2, <2>3, <2>5, <2>6 DEF Handshake
<1>10. CASE Resting
  <2>1. status' = {} /\ slave'.pc \in {"LOOP", "INSERT"}
    BY <1>1, <1>10 DEF Resting, Loops, Course, InvStatus
  <2> QED
    BY <1>2, <1>3, <1>6, <2>1
    DEF Handshake, InvStatus, InvSettling, ServesCurrent, Working, Standing
<1> QED
  BY <1>7, <1>8, <1>9, <1>10 DEF Courses

\* Every step, of either side or of the hand at the slot, keeps the handshake.
LEMMA HandshakeStep ==
  ASSUME Patient, TypeOK, NoUnderrun, Handshake, [Next]_vars
  PROVE  Handshake'
<1>1. CASE Clock
  BY <1>1, HandshakeTick DEF Clock
<1>2. CASE Serve
  BY <1>2, WorkhorseCourses, HandshakeServe DEF Serve
<1>3. CASE Slot \/ UNCHANGED vars
  <2>1. /\ wd' = wd /\ status' = status /\ slack' = slack /\ slave' = slave
    BY <1>3 DEF Slot, vars
  <2> QED
    BY <2>1 DEF Handshake, InvCourse, InvFrozen, InvRequest, InvStatus, InvSettling,
                ServesCurrent
<1> QED
  BY <1>1, <1>2, <1>3 DEF Next

\* With a host that neither aborts nor barges, the controller and the workhorse
\* agree at every step on the request that is served and on how far it got.
THEOREM HandshakeCorrect == Spec => [](Patient => Handshake)
<1> DEFINE Inv == TypeOK /\ NoUnderrun /\ (Patient => Handshake)
<1>1. Init => Inv
  BY TypeInit, HandshakeInit
<1>2. Inv /\ [Next]_vars => Inv'
  <2> SUFFICES ASSUME Inv, [Next]_vars PROVE Inv'
    OBVIOUS
  <2>1. TypeOK' /\ NoUnderrun'
    BY TypeStep
  <2>2. Patient => Handshake'
    BY HandshakeStep
  <2> QED
    BY <2>1, <2>2 DEF Patient
<1>3. Inv => (Patient => Handshake)
  OBVIOUS
<1> QED
  BY <1>1, <1>2, <1>3, PTL DEF Spec

\* With such a host the workhorse serves a request only while it is being made,
\* and so each request once.
THEOREM ServesCurrentCorrect == Spec => [](Patient => ServesCurrent)
<1>1. (Patient => Handshake) => (Patient => ServesCurrent)
  BY DEF Handshake
<1> QED
  BY <1>1, HandshakeCorrect, PTL

-----------------------------------------------------------------------------
(* The death of the controller.                                            *)

\* Only a command on top of a pending one kills the controller, and nothing
\* revives it.
LEMMA DeathMoves ==
  ASSUME NEW op, Advances(op)
  PROVE  /\ wd.state = "DEAD" => wd'.state = "DEAD"
         /\ wd'.state = "DEAD" => wd.state = "DEAD" \/ Barges(op)
         /\ wd'.request.op = "FAIL" => wd'.state = "DEAD" \/ wd'.request = wd.request
BY DEF Advances, Pausing, Starting, Sending, Receiving, Ending, Onwards, Effect,
       StateAfterBus, Plain, FlushRequest

\* A host that looks at BUSY before it writes a command never kills the controller.
THEOREM NotDeadCorrect == Spec => []("barge" \notin HostMay => NotDead)
<1> DEFINE Inv == TypeOK /\ NoUnderrun /\ ("barge" \notin HostMay => NotDead)
<1>1. Init => Inv
  BY TypeInit DEF Init, WdReset, NotDead
<1>2. Inv /\ [Next]_vars => Inv'
  <2> SUFFICES ASSUME Inv, [Next]_vars PROVE Inv'
    OBVIOUS
  <2>1. TypeOK' /\ NoUnderrun'
    BY TypeStep
  <2>2. ASSUME "barge" \notin HostMay
        PROVE  NotDead'
    <3>1. CASE Clock
      <4>1. PICK op \in HostOps : Tick(op)
        BY <3>1 DEF Clock
      <4>2. Advances(op)
        BY <4>1, HostOpsType, MachineMoves DEF Tick
      <4>3. ~Barges(op)
        <5>1. op.port = "COMMAND" => Quiet
          BY <2>2, HostPorts
        <5> QED
          BY <5>1 DEF Barges, Quiet, StatusBusy
      <4> QED
        BY <2>2, <4>2, <4>3, DeathMoves DEF NotDead
    <3>2. CASE Serve \/ Slot \/ UNCHANGED vars
      BY <2>2, <3>2 DEF Serve, Slot, vars, NotDead
    <3> QED
      BY <3>1, <3>2 DEF Next
  <2> QED
    BY <2>1, <2>2
<1>3. Inv => ("barge" \notin HostMay => NotDead)
  OBVIOUS
<1> QED
  BY <1>1, <1>2, <1>3, PTL DEF Spec

\* Whatever the host does, the workhorse gives up only on a dead controller.
THEOREM StopsOnlyWhenDeadCorrect == Spec => []StopsOnlyWhenDead
<1> DEFINE Inv == /\ TypeOK /\ NoUnderrun /\ StopsOnlyWhenDead
                  /\ wd.request.op = "FAIL" => wd.state = "DEAD"
<1>1. Init => Inv
  BY TypeInit DEF Init, WdReset, SlaveReset, Plain, StopsOnlyWhenDead
<1>2. Inv /\ [Next]_vars => Inv'
  <2> SUFFICES ASSUME Inv, [Next]_vars PROVE Inv'
    OBVIOUS
  <2>1. TypeOK' /\ NoUnderrun'
    BY TypeStep
  <2>2. CASE Clock
    <3>1. PICK op \in HostOps : Tick(op)
      BY <2>2 DEF Clock
    <3>2. Advances(op) /\ slave' = slave
      BY <3>1, HostOpsType, MachineMoves DEF Tick
    <3> QED
      BY <2>1, <3>2, DeathMoves DEF StopsOnlyWhenDead
  <2>3. CASE Serve
    <3>1. Courses /\ wd' = wd
      BY <2>3, WorkhorseCourses DEF Serve
    <3>2. slave'.pc \in {"FAIL", "HALT"} =>
            slave.pc = "FAIL" \/ wd.request.op = "FAIL"
      BY <3>1 DEF Courses, Booting, Polling, Serving, Resting, Loops, Steps, Course,
                  Handler
    <3> QED
      BY <2>1, <3>1, <3>2 DEF StopsOnlyWhenDead
  <2>4. CASE Slot \/ UNCHANGED vars
    BY <2>1, <2>4 DEF Slot, vars, StopsOnlyWhenDead
  <2> QED
    BY <2>2, <2>3, <2>4 DEF Next
<1>3. Inv => StopsOnlyWhenDead
  OBVIOUS
<1> QED
  BY <1>1, <1>2, <1>3, PTL DEF Spec

-----------------------------------------------------------------------------
(***************************************************************************)
(* What a READ, a READ ADDRESS and a WRITE move: the invariants of         *)
(* FloppyData are inductive on top of the handshake.                       *)
(***************************************************************************)

\* The registers and the locals are records with these fields.
WdNames == {"state", "busy", "drq", "pending", "command", "mode", "track", "sector", "datareg",
            "diskTrack", "side", "drive", "len", "addr", "bufRd", "bufWr", "request", "timer",
            "dogSet", "dog", "ready", "seekErr", "crcErr", "lostData", "wrFault"}
SlaveNames == {"pc", "cmd", "t1", "result", "side", "track", "sector", "pos"}
IsWd(r)    == r = [f \in WdNames |-> r[f]]
IsSlave(r) == r = [f \in SlaveNames |-> r[f]]

\* The controller's registers are a record of these fields.
LEMMA WdShape == ASSUME NEW r \in WdType PROVE IsWd(r)
BY DEF WdType, IsWd, WdNames
\* So are those of the workhorse.
LEMMA Shapes == ASSUME TypeOK PROVE IsWd(wd) /\ IsSlave(slave)
<1>1. IsWd(wd)
  BY WdShape DEF TypeOK
<1>2. IsSlave(slave)
  BY DEF TypeOK, SlaveType, IsSlave, SlaveNames
<1> QED  BY <1>1, <1>2

\* The register section, field by field.
LEMMA BusData ==
  ASSUME TypeOK, NEW op \in HostOp
  PROVE  /\ Bus(op).busy = wd.busy /\ Bus(op).drq = wd.drq /\ Bus(op).addr = wd.addr
         /\ Bus(op).diskTrack = wd.diskTrack /\ Bus(op).bufWr = FALSE
         /\ Bus(op).sector = SectorAfterBus(op) /\ Bus(op).state = StateAfterBus(op)
         /\ Bus(op).len = wd.len /\ Bus(op).request = wd.request
         /\ Bus(op).side = (IF op.port = "CTL2" THEN op.side ELSE wd.side)
         /\ Bus(op).datareg = (IF op.port = "DATA" THEN op.data ELSE wd.datareg)
         /\ Bus(op).command = (IF op.port = "COMMAND" /\ ~wd.pending THEN op.cmd ELSE wd.command)
         /\ IsWd(Bus(op))
<1>1. Bus(op).busy = wd.busy /\ Bus(op).drq = wd.drq /\ Bus(op).addr = wd.addr
         /\ Bus(op).diskTrack = wd.diskTrack /\ Bus(op).bufWr = FALSE
  BY Shapes DEF IsWd, WdNames, Bus
<1>2. Bus(op).sector = SectorAfterBus(op) /\ Bus(op).state = StateAfterBus(op)
         /\ Bus(op).len = wd.len /\ Bus(op).request = wd.request
  BY Shapes DEF IsWd, WdNames, Bus
<1>3. /\ Bus(op).side = (IF op.port = "CTL2" THEN op.side ELSE wd.side)
         /\ Bus(op).datareg = (IF op.port = "DATA" THEN op.data ELSE wd.datareg)
  BY Shapes DEF IsWd, WdNames, Bus
<1>4.  Bus(op).command = (IF op.port = "COMMAND" /\ ~wd.pending THEN op.cmd ELSE wd.command)
  BY Shapes DEF IsWd, WdNames, Bus
<1>5. IsWd(Bus(op))
  BY BusType, WdShape
<1> QED  BY <1>1, <1>2, <1>3, <1>4, <1>5

\* Only $D0 to an idle controller clears the flags.
LEMMA BusFlags ==
  ASSUME TypeOK, NEW op, wd.state # "READY"
  PROVE  (wd.crcErr => Bus(op).crcErr) /\ (wd.wrFault => Bus(op).wrFault)
BY Shapes DEF IsWd, WdNames, Bus, Clears

\* When the host touches the other registers.
LEMMA HostWrites ==
  ASSUME NEW op \in HostOps
  PROVE  /\ op.port \in {"TRACK", "SECTOR", "CTL2"} => Quiet
         /\ op.port = "DATA" => Quiet \/ (StatusDrq /\ wd.command = "WRITE")
<1>1. CASE op \in {NoOp, Access("RDDATA"), Access("FORCE")}
  BY <1>1 DEF NoOp, Access
<1>2. CASE op \in {Issue(c) : c \in HostCommands}
  BY <1>2 DEF Issue, NoOp
<1>3. CASE op \in {Write("DATA", v) : v \in HostData} /\ (Quiet \/ (StatusDrq /\ wd.command = "WRITE"))
  <2>1. PICK v \in HostData : op = Write("DATA", v)
    BY <1>3
  <2>2. op.port = "DATA"
    BY <2>1 DEF Write, NoOp
  <2> QED  BY <1>3, <2>2
<1>4. CASE Quiet
  BY <1>4
<1>5. \/ op \in {NoOp, Access("RDDATA"), Access("FORCE")}
      \/ op \in {Issue(c) : c \in HostCommands}
      \/ op \in {Write("DATA", v) : v \in HostData} /\ (Quiet \/ (StatusDrq /\ wd.command = "WRITE"))
      \/ Quiet
  BY DEF HostOps
<1> QED  BY <1>1, <1>2, <1>3, <1>4, <1>5

\* A patient host that has to wait leaves the registers alone, but for the byte
\* that a WRITE asks for.
Feeds(op) == op.port = "DATA" /\ wd.drq /\ wd.command = "WRITE"
\* Waiting, such a host changes nothing that the sector is found by.
LEMMA Held ==
  ASSUME TypeOK, Patient, NEW op \in HostOps, ~Quiet
  PROVE  /\ Bus(op).state = wd.state /\ Bus(op).sector = wd.sector
         /\ Bus(op).side = wd.side /\ Bus(op).command = wd.command
         /\ op.port # "DATA" => Bus(op).datareg = wd.datareg
         /\ op.port = "DATA" => Feeds(op) /\ Bus(op).datareg = op.data
<1>1. op \in HostOp  BY HostOpsType
<1>2. op.port \notin {"TRACK", "SECTOR", "CTL2", "COMMAND", "FORCE"}
  BY HostWrites, HostPorts DEF Patient
<1>3. op.port = "DATA" => Feeds(op)
  BY HostWrites DEF Feeds, StatusDrq
<1>4. StateAfterBus(op) = wd.state  BY PatientCourse
<1>5. SectorAfterBus(op) = wd.sector
  BY <1>2 DEF SectorAfterBus, Barges
<1> QED  BY <1>1, <1>2, <1>3, <1>4, <1>5, BusData

-----------------------------------------------------------------------------
(* From the buffer to the host.                                            *)

\* The registers of a transfer that do not move.
Same == /\ wd'.busy /\ wd'.command = wd.command /\ wd'.request = wd.request
        /\ wd'.diskTrack = wd.diskTrack /\ wd'.sector = wd.sector /\ wd'.bufWr = FALSE
Counts(s, a, n) == wd'.state = s /\ wd'.addr = a /\ wd'.len = n
SendsByte ==
  \/ wd.state = "READ_1" /\ Counts("READ_2", NextAddr, wd.len - 1)
  \/ wd.state = "READ_2" /\ Counts("READ_3", wd.addr, wd.len)
  \/ wd.state = "READ_3" /\ Counts("READ_3", wd.addr, wd.len)
  \/ wd.state = "READ_3" /\ Counts("READSECT", wd.addr, wd.len) /\ wd'.datareg = buf[wd.addr]
  \/ wd.state = "READSECT" /\ Counts("READSECT", wd.addr, wd.len) /\ wd'.datareg = wd.datareg
  \/ wd.state = "READSECT" /\ Counts("READ_1", wd.addr, wd.len)
  \/ wd.state = "READSECT" /\ wd'.state = "ENDCOMMAND"

\* What a tick does that hands a byte to the host (READ_1 to READSECT).
LEMMA SendData ==
  ASSUME TypeOK, Patient, NEW op \in HostOps, wd.busy, wd.command # "WRITE", Send(op)
  PROVE  Same /\ SendsByte
<1> DEFINE r == Bus(op)
<1>0. op \in HostOp  BY HostOpsType
<1>1. wd.state \in Reading /\ ~Quiet
  BY DEF Send, Read1, Read2, Read3Wait, Read3Byte, ReadSectWait, ReadSectNext, ReadSectLast,
         Reading, Quiet, StatusBusy
<1>2. /\ IsWd(r) /\ r.state = wd.state /\ r.sector = wd.sector /\ r.command = wd.command
      /\ r.datareg = wd.datareg /\ r.busy = wd.busy /\ r.addr = wd.addr /\ r.len = wd.len
      /\ r.diskTrack = wd.diskTrack /\ r.bufWr = FALSE /\ r.request = wd.request
  BY <1>0, <1>1, Held, BusData DEF Feeds
<1> HIDE DEF r
<1>3. CASE Read1(op)
  <2>1. wd.state = "READ_1" /\ wd' = [r EXCEPT !.addr = NextAddr, !.len = wd.len - 1, !.state = "READ_2"]
    BY <1>3 DEF Read1, r
  <2> QED  BY <1>2, <2>1 DEF IsWd, WdNames, Same, SendsByte, Counts
<1>4. CASE Read2(op)
  <2>1. wd.state = "READ_2" /\ wd' = [r EXCEPT !.dogSet = TRUE, !.timer = ReadTicks,
                           !.busy = TRUE, !.drq = FALSE, !.bufRd = TRUE, !.state = "READ_3"]
    BY <1>4 DEF Read2, r
  <2> QED  BY <1>2, <2>1 DEF IsWd, WdNames, Same, SendsByte, Counts
<1>5. CASE Read3Wait(op)
  <2>1. wd.state = "READ_3" /\ wd' = [r EXCEPT !.timer = wd.timer - 1]
    BY <1>5 DEF Read3Wait, r
  <2> QED  BY <1>2, <2>1 DEF IsWd, WdNames, Same, SendsByte, Counts
<1>6. CASE Read3Byte(op)
  <2>1. wd.state = "READ_3" /\ wd' = [r EXCEPT !.dogSet = FALSE, !.lostData = FALSE,
                           !.busy = TRUE, !.drq = TRUE, !.datareg = buf[wd.addr], !.state = "READSECT"]
    BY <1>6 DEF Read3Byte, r
  <2> QED  BY <1>2, <2>1 DEF IsWd, WdNames, Same, SendsByte, Counts
<1>7. CASE ReadSectWait(op)
  BY <1>2, <1>7 DEF ReadSectWait, r, Same, SendsByte, Counts
<1>8. CASE ReadSectNext(op)
  <2> DEFINE b == Bark
  <2>1. wd.state = "READSECT" /\ wd' = [r EXCEPT !.busy = TRUE, !.drq = FALSE, !.lostData = b, !.state = "READ_1"]
    BY <1>8 DEF ReadSectNext, r
  <2> HIDE DEF b
  <2> QED  BY <1>2, <2>1 DEF IsWd, WdNames, Same, SendsByte, Counts
<1>9. CASE ReadSectLast(op)
  <2> DEFINE b == Bark
  <2>1. wd.state = "READSECT" /\ wd' = [r EXCEPT !.busy = TRUE, !.drq = FALSE, !.lostData = b,
                           !.bufRd = FALSE, !.state = "ENDCOMMAND"]
    BY <1>9 DEF ReadSectLast, r
  <2> HIDE DEF b
  <2> QED  BY <1>2, <2>1 DEF IsWd, WdNames, Same, SendsByte, Counts
<1> QED  BY <1>3, <1>4, <1>5, <1>6, <1>7, <1>8, <1>9 DEF Send

-----------------------------------------------------------------------------
(* Taking a command.                                                       *)

Asks(o, n) ==
  /\ wd.command = o /\ wd'.state = "WAIT_CPUREAD" /\ wd'.len = n
  /\ wd'.busy /\ wd'.command = o /\ wd'.diskTrack = wd.diskTrack /\ wd'.sector = wd.sector
  /\ wd'.request = [op |-> o, drive |-> wd.drive, side |-> wd.side]
Collects ==
  /\ wd.command = "WRITE" /\ wd'.state = "WRITESECT" /\ Counts("WRITESECT", 0, SectorSize)
  /\ wd'.side = wd.side /\ wd'.diskTrack = wd.diskTrack /\ wd'.sector = wd.sector
Takings ==
  \/ wd'.state \in {"WAIT_CPU", "READY"}
  \/ Asks("READ", SectorSize) \/ Asks("READADDR", AddrSize)
  \/ Collects

\* A command that is taken leaves the registers as they were.
LEMMA TakenData ==
  ASSUME TypeOK, Patient, NEW op \in HostOps, wd.state = "READY", wd.pending
  PROVE  LET r == Taken(op) IN
         /\ IsWd(r) /\ r.state = "READY" /\ r.sector = wd.sector /\ r.side = wd.side
         /\ r.command = wd.command /\ r.diskTrack = wd.diskTrack /\ r.bufWr = FALSE
<1> DEFINE b == Bus(op)
           m == wd.command \notin TypeOne
<1>0. op \in HostOp  BY HostOpsType
<1>1. ~Quiet  BY DEF Quiet, StatusBusy
<1>2. /\ IsWd(b) /\ b.state = "READY" /\ b.sector = wd.sector /\ b.side = wd.side
      /\ b.command = wd.command /\ b.diskTrack = wd.diskTrack /\ b.bufWr = FALSE
  BY <1>0, <1>1, Held, BusData
<1>3. Taken(op) = [b EXCEPT !.pending = FALSE, !.mode = m]
  BY Zenon DEF Taken
<1> HIDE DEF b, m
<1> QED  BY <1>2, <1>3 DEF IsWd, WdNames

\* A command is taken from READY, into one of the ways that Takings lists.
LEMMA AcceptData ==
  ASSUME TypeOK, Patient, NEW op \in HostOps, Accept(op)
  PROVE  wd.pending /\ Takings /\ wd'.bufWr = FALSE
<1> DEFINE r == Taken(op)
<1>1. wd.state = "READY" /\ wd.pending
  BY DEF Accept, Restore, Seek, Step, StepU, Read, ReadAddress, WriteSector, TrackCommand, Takes
<1>2. /\ IsWd(r) /\ r.state = "READY" /\ r.sector = wd.sector /\ r.side = wd.side
      /\ r.command = wd.command /\ r.diskTrack = wd.diskTrack /\ r.bufWr = FALSE
  BY <1>1, TakenData
<1> HIDE DEF r
<1>3. \A t : Moving(op, t).state = "WAIT_CPU" /\ Moving(op, t).bufWr = FALSE /\ IsWd(Moving(op, t))
  <2> TAKE t
  <2>1. Moving(op, t) =
          [r EXCEPT !.diskTrack = t, !.busy = TRUE, !.drq = FALSE,
                    !.request = Plain("NOP"), !.state = "WAIT_CPU"]
    BY Zenon DEF Moving, r
  <2> QED  BY <1>2, <2>1 DEF IsWd, WdNames
<1>4. CASE Restore(op)
  <2>1. wd' = [Moving(op, 0) EXCEPT !.track = 0]
    BY <1>4 DEF Restore
  <2> QED  BY <1>1, <1>3, <2>1 DEF IsWd, WdNames, Takings
<1>5. CASE Seek(op)
  BY <1>1, <1>3, <1>5 DEF Seek, Takings
<1>6. CASE Step(op)
  BY <1>1, <1>3, <1>6 DEF Step, Takings
<1>7. CASE StepU(op)
  <2>1. PICK t \in Neighbour : wd' = [Moving(op, t) EXCEPT !.track = t]
    BY <1>7 DEF StepU
  <2> QED  BY <1>1, <1>3, <2>1 DEF IsWd, WdNames, Takings
<1>8. ASSUME NEW o, NEW n, wd.command = o, wd' = Asking(op, o, n)
      PROVE  Asks(o, n) /\ wd'.bufWr = FALSE
  <2>1. Started(op, n) =
          [r EXCEPT !.busy = TRUE, !.len = n, !.wrFault = FALSE,
                    !.seekErr = FALSE, !.crcErr = FALSE, !.lostData = FALSE]
    BY Zenon DEF Started, r
  <2>2. wd' = [Started(op, n) EXCEPT !.drq = FALSE, !.state = "WAIT_CPUREAD",
                 !.request = [op |-> o, drive |-> wd.drive, side |-> wd.side]]
    BY <1>8, Zenon DEF Asking
  <2> QED  BY <1>2, <1>8, <2>1, <2>2 DEF IsWd, WdNames, Asks
<1>9. CASE Read(op)
  BY <1>1, <1>8, <1>9 DEF Read, Takes, Takings
<1>10. CASE ReadAddress(op)
  BY <1>1, <1>8, <1>10 DEF ReadAddress, Takes, Takings
<1>11. CASE WriteSector(op)
  <2>1. Started(op, SectorSize) =
          [r EXCEPT !.busy = TRUE, !.len = SectorSize, !.wrFault = FALSE,
                    !.seekErr = FALSE, !.crcErr = FALSE, !.lostData = FALSE]
    BY Zenon DEF Started, r
  <2>2. wd' = [Started(op, SectorSize) EXCEPT !.drq = TRUE, !.addr = 0, !.state = "WRITESECT"]
    BY <1>11, Zenon DEF WriteSector
  <2>3. wd.command = "WRITE"
    BY <1>11 DEF WriteSector, Takes
  <2> QED  BY <1>1, <1>2, <2>1, <2>2, <2>3 DEF IsWd, WdNames, Takings, Collects, Counts
<1>12. CASE TrackCommand(op)
  <2>1. wd' = [r EXCEPT !.busy = FALSE, !.drq = FALSE]
    BY <1>12 DEF TrackCommand, r
  <2> QED  BY <1>1, <1>2, <2>1 DEF IsWd, WdNames, Takings
<1> QED
  BY <1>4, <1>5, <1>6, <1>7, <1>9, <1>10, <1>11, <1>12 DEF Accept

-----------------------------------------------------------------------------
(* From the host to the buffer, and ending a command.                      *)

\* A byte being received passes through the states of a WRITE only.
LEMMA ReceiveState ==
  ASSUME TypeOK, Patient, NEW op \in HostOps, Receive(op)
  PROVE  /\ wd.state \in Writing /\ wd'.state \in Writing \union {"WAIT_CPUWRITE"}
         /\ wd'.bufWr => wd'.state = "WRITE_2"
<1> DEFINE r == Bus(op)
<1>1. IsWd(r) /\ r.bufWr = FALSE /\ r.state = wd.state
  BY HostOpsType, BusData, PatientCourse
<1> HIDE DEF r
<1>2. CASE WriteSectWait(op)
  BY <1>1, <1>2 DEF WriteSectWait, r, Writing
<1>3. CASE WriteSectByte(op)
  <2>1. wd.state = "WRITESECT" /\ wd' = [r EXCEPT !.busy = TRUE, !.drq = FALSE, !.lostData = FALSE, !.state = "WRITE_1"]
    BY <1>3 DEF WriteSectByte, r
  <2> QED  BY <1>1, <2>1 DEF IsWd, WdNames, Writing
<1>4. CASE Write1(op)
  <2>1. wd.state = "WRITE_1" /\ wd' = [r EXCEPT !.bufWr = TRUE, !.state = "WRITE_2"]
    BY <1>4 DEF Write1, r
  <2> QED  BY <1>1, <2>1 DEF IsWd, WdNames, Writing
<1> DEFINE z == [r EXCEPT !.addr = NextAddr, !.len = wd.len - 1]
<1>5. Stored(op) = z
  BY Zenon DEF Stored, r
<1>6. IsWd(z) /\ z.bufWr = FALSE
  BY <1>1 DEF IsWd, WdNames
<1> HIDE DEF z
<1>7. CASE Write2Next(op)
  <2>1. wd.state = "WRITE_2" /\ wd' = [z EXCEPT !.busy = TRUE, !.drq = TRUE, !.state = "WRITESECT"]
    BY <1>5, <1>7 DEF Write2Next
  <2> QED  BY <1>6, <2>1 DEF IsWd, WdNames, Writing
<1>8. CASE Write2Last(op)
  <2>1. wd.state = "WRITE_2" /\ wd' = [z EXCEPT !.request = FlushRequest, !.state = "WAIT_CPUWRITE"]
    BY <1>5, <1>8 DEF Write2Last
  <2> QED  BY <1>6, <2>1 DEF IsWd, WdNames, Writing
<1> QED  BY <1>2, <1>3, <1>4, <1>7, <1>8 DEF Receive

\* What a host that leaves the registers alone sees of it.
Still == wd'.side = wd.side /\ wd'.diskTrack = wd.diskTrack /\ wd'.sector = wd.sector
ReceivesByte(op) ==
  \/ /\ wd.state = "WRITESECT" /\ op.port # "DATA" /\ Counts("WRITESECT", wd.addr, wd.len)
  \/ /\ wd.state = "WRITESECT" /\ op.port = "DATA" /\ Counts("WRITE_1", wd.addr, wd.len)
     /\ wd'.datareg = op.data /\ wd'.drq = FALSE
  \/ /\ wd.state = "WRITE_1" /\ Counts("WRITE_2", wd.addr, wd.len)
     /\ wd'.bufWr /\ wd'.drq = wd.drq /\ (~wd.drq => wd'.datareg = wd.datareg)
  \/ /\ wd.state = "WRITE_2" /\ wd.len # 1 /\ Counts("WRITESECT", NextAddr, wd.len - 1)
  \/ /\ wd.state = "WRITE_2" /\ wd.len = 1 /\ wd'.state = "WAIT_CPUWRITE"
     /\ wd'.request = FlushRequest

\* What a tick does that takes a byte from the host (WRITESECT to WRITE_2).
LEMMA ReceiveData ==
  ASSUME TypeOK, Patient, NEW op \in HostOps, ~Quiet, Receive(op)
  PROVE  Still /\ ReceivesByte(op)
<1> DEFINE r == Bus(op)
<1>1. /\ IsWd(r) /\ r.state = wd.state /\ r.sector = wd.sector /\ r.side = wd.side
      /\ r.diskTrack = wd.diskTrack /\ r.addr = wd.addr /\ r.len = wd.len /\ r.drq = wd.drq
      /\ op.port # "DATA" => r.datareg = wd.datareg
      /\ op.port = "DATA" => wd.drq /\ r.datareg = op.data
  BY HostOpsType, Held, BusData DEF Feeds
<1> HIDE DEF r
<1>2. CASE WriteSectWait(op)
  BY <1>1, <1>2 DEF WriteSectWait, r, Still, ReceivesByte, Counts
<1>3. CASE WriteSectByte(op)
  <2>1. /\ wd.state = "WRITESECT" /\ op.port = "DATA"
        /\ wd' = [r EXCEPT !.busy = TRUE, !.drq = FALSE, !.lostData = FALSE, !.state = "WRITE_1"]
    BY <1>3 DEF WriteSectByte, r
  <2> QED  BY <1>1, <2>1 DEF IsWd, WdNames, Still, ReceivesByte, Counts
<1>4. CASE Write1(op)
  <2>1. wd.state = "WRITE_1" /\ wd' = [r EXCEPT !.bufWr = TRUE, !.state = "WRITE_2"]
    BY <1>4 DEF Write1, r
  <2> QED  BY <1>1, <2>1 DEF IsWd, WdNames, Still, ReceivesByte, Counts
<1> DEFINE z == [r EXCEPT !.addr = NextAddr, !.len = wd.len - 1]
<1>5. Stored(op) = z
  BY Zenon DEF Stored, r
<1>6. /\ IsWd(z) /\ z.addr = NextAddr /\ z.len = wd.len - 1
      /\ z.sector = wd.sector /\ z.side = wd.side /\ z.diskTrack = wd.diskTrack
  BY <1>1 DEF IsWd, WdNames
<1> HIDE DEF z
<1>7. CASE Write2Next(op)
  <2>1. /\ wd.state = "WRITE_2" /\ wd.len # 1
        /\ wd' = [z EXCEPT !.busy = TRUE, !.drq = TRUE, !.state = "WRITESECT"]
    BY <1>5, <1>7 DEF Write2Next
  <2> QED  BY <1>6, <2>1 DEF IsWd, WdNames, Still, ReceivesByte, Counts
<1>8. CASE Write2Last(op)
  <2>1. /\ wd.state = "WRITE_2" /\ wd.len = 1
        /\ wd' = [z EXCEPT !.request = FlushRequest, !.state = "WAIT_CPUWRITE"]
    BY <1>5, <1>8 DEF Write2Last
  <2> QED  BY <1>6, <2>1 DEF IsWd, WdNames, Still, ReceivesByte
<1> QED  BY <1>2, <1>3, <1>4, <1>7, <1>8 DEF Receive

\* What is left on the registers when a command ends, or is about to.
Kept(s) == wd'.state = s /\ (wd.crcErr => wd'.crcErr) /\ (wd.wrFault => wd'.wrFault)
Endings ==
  \/ /\ wd.state = "WAIT_CPUREAD" /\ Failed /\ wd'.state = "ENDCOMMAND"
     /\ wd'.crcErr = ("CRC" \in status)
  \/ /\ wd.state = "WAIT_CPUREAD" /\ Succeeded /\ wd'.state = "READ_2"
     /\ ~Quiet => Same /\ Counts("READ_2", 0, wd.len)
  \/ /\ wd.state = "WAIT_CPUREAD" /\ wd'.state = "WAIT_CPUREAD"
     /\ ~Quiet => Same /\ wd'.len = wd.len
  \/ /\ wd.state = "WAIT_CPUWRITE" /\ Failed /\ wd'.state = "ENDCOMMAND"
     /\ wd'.wrFault = ("CRC" \in status)
  \/ wd.state = "WAIT_CPUWRITE" /\ Succeeded /\ wd'.state = "ENDCOMMAND"
  \/ /\ wd.state = "WAIT_CPUWRITE" /\ wd'.state = "WAIT_CPUWRITE"
     /\ ~Quiet => Still /\ wd'.request = wd.request
  \/ wd.state = "WAIT_CPU" /\ wd'.state \in {"WAIT_CPU", "ENDCOMMAND"}
  \/ wd.state = "ENDCOMMAND" /\ Kept("ENDCOMMAND2")
  \/ wd.state = "ENDCOMMAND2" /\ (Kept("ENDCOMMAND2") \/ wd'.state = "READY")
\* What a tick does that waits for the workhorse or ends the command.
LEMMA FinishData ==
  ASSUME TypeOK, Patient, NEW op \in HostOps, wd.state # "ABORT", Finish(op),
         wd.state = "WAIT_CPUREAD" => wd.busy /\ wd.command # "WRITE"
  PROVE  Endings /\ wd'.bufWr = FALSE
<1> DEFINE r == Bus(op)
<1>0. wd.state # "READY"
  BY DEF Finish, WaitReadFails, WaitReadDone, WaitRead, WaitWriteFails, WaitWriteDone, WaitWrite,
         WaitNopDone, WaitNop, Abort, EndCommand, EndCommand2, EndCommand2Wait
<1>1. /\ IsWd(r) /\ r.state = wd.state /\ r.bufWr = FALSE /\ r.busy = wd.busy /\ r.len = wd.len
      /\ r.request = wd.request /\ r.diskTrack = wd.diskTrack
      /\ (wd.crcErr => r.crcErr) /\ (wd.wrFault => r.wrFault)
  BY <1>0, HostOpsType, BusData, BusFlags, PatientCourse
<1>2. ~Quiet => r.sector = wd.sector /\ r.side = wd.side /\ r.command = wd.command
  BY Held
<1> DEFINE c == "CRC" \in status
<1> HIDE DEF r, c
<1>3. CASE WaitReadFails(op)
  <2>1. /\ wd.state = "WAIT_CPUREAD" /\ Failed
        /\ wd' = [r EXCEPT !.seekErr = TRUE, !.crcErr = c, !.state = "ENDCOMMAND"]
    BY <1>3 DEF WaitReadFails, r, c
  <2>2. wd'.state = "ENDCOMMAND" /\ wd'.crcErr = c /\ wd'.bufWr = FALSE
    BY <1>1, <2>1 DEF IsWd, WdNames
  <2> QED  BY <2>1, <2>2 DEF Endings, c
<1>4. CASE WaitReadDone(op)
  <2>1. /\ wd.state = "WAIT_CPUREAD" /\ Succeeded
        /\ wd' = [r EXCEPT !.addr = 0, !.state = "READ_2"]
    BY <1>4 DEF WaitReadDone, r
  <2>2. /\ Counts("READ_2", 0, wd.len) /\ wd'.bufWr = FALSE
        /\ ~Quiet => Same
    BY <1>1, <1>2, <2>1 DEF IsWd, WdNames, Counts, Same
  <2>3. wd'.state = "READ_2"  BY <2>2 DEF Counts
  <2> QED  BY <2>1, <2>2, <2>3 DEF Endings
<1>5. CASE WaitRead(op)
  <2>1. wd.state = "WAIT_CPUREAD" /\ wd' = r
    BY <1>5 DEF WaitRead, r
  <2> QED  BY <1>1, <1>2, <2>1 DEF Endings, Same
<1>6. CASE WaitWriteFails(op)
  <2>1. /\ wd.state = "WAIT_CPUWRITE" /\ Failed
        /\ wd' = [r EXCEPT !.wrFault = c, !.state = "ENDCOMMAND"]
    BY <1>6 DEF WaitWriteFails, r, c
  <2>2. wd'.state = "ENDCOMMAND" /\ wd'.wrFault = c /\ wd'.bufWr = FALSE
    BY <1>1, <2>1 DEF IsWd, WdNames
  <2> QED  BY <2>1, <2>2 DEF Endings, c
<1>7. CASE WaitWriteDone(op)
  <2>1. /\ wd.state = "WAIT_CPUWRITE" /\ Succeeded /\ wd' = [r EXCEPT !.state = "ENDCOMMAND"]
    BY <1>7 DEF WaitWriteDone, r
  <2>2. wd'.state = "ENDCOMMAND" /\ wd'.bufWr = FALSE
    BY <1>1, <2>1 DEF IsWd, WdNames
  <2> QED  BY <2>1, <2>2 DEF Endings
<1>8. CASE WaitWrite(op)
  <2>1. wd.state = "WAIT_CPUWRITE" /\ wd' = [r EXCEPT !.busy = FALSE, !.drq = FALSE]
    BY <1>8 DEF WaitWrite, r
  <2>2. /\ wd'.state = "WAIT_CPUWRITE" /\ wd'.bufWr = FALSE
        /\ ~Quiet => Still /\ wd'.request = wd.request
    BY <1>1, <1>2, <2>1 DEF IsWd, WdNames, Still
  <2> QED  BY <2>1, <2>2 DEF Endings
<1>9. CASE WaitNopDone(op)
  <2>1. wd.state = "WAIT_CPU" /\ wd' = [r EXCEPT !.state = "ENDCOMMAND"]
    BY <1>9 DEF WaitNopDone, r
  <2> QED  BY <1>1, <2>1 DEF IsWd, WdNames, Endings
<1>10. CASE WaitNop(op)
  BY <1>1, <1>10 DEF WaitNop, r, Endings
<1>11. CASE EndCommand(op)
  <2>1. /\ wd.state = "ENDCOMMAND"
        /\ wd' = [r EXCEPT !.request = Plain("ACK"), !.state = "ENDCOMMAND2"]
    BY <1>11 DEF EndCommand, r
  <2> QED  BY <1>1, <2>1 DEF IsWd, WdNames, Endings, Kept
<1>12. CASE EndCommand2(op)
  <2>1. /\ wd.state = "ENDCOMMAND2"
        /\ wd' = [r EXCEPT !.request = Plain("NONE"), !.busy = FALSE, !.drq = FALSE, !.state = "READY"]
    BY <1>12 DEF EndCommand2, r
  <2> QED  BY <1>1, <2>1 DEF IsWd, WdNames, Endings
<1>13. CASE EndCommand2Wait(op)
  BY <1>1, <1>13 DEF EndCommand2Wait, r, Endings, Kept
<1> QED
  BY <1>3, <1>4, <1>5, <1>6, <1>7, <1>8, <1>9, <1>10, <1>11, <1>12, <1>13 DEF Finish, Abort

-----------------------------------------------------------------------------
(* The controller's tick.                                                  *)

\* Where the workhorse is at work, the machine waits.
LEMMA WorkingWaits ==
  ASSUME Handshake, slave.pc \in {"RAISE", "SEEK", "COPY", "ANSWER"}
  PROVE  slave.cmd = wd.request /\ wd.state = Waits(wd.request.op) /\ wd.state \in Waiting
BY DEF Handshake, ServesCurrent, Working, Waits, Waiting

\* What a tick of the machine leaves to the workhorse and the history.
LEMMA TickFrame ==
  ASSUME TypeOK, InvSent, NEW op, Tick(op)
  PROVE  /\ status' = status /\ slave' = slave /\ disk' = disk
         /\ wd.state # "READY" => asked' = asked
         /\ wd.state # "WRITE_2" => buf' = buf
BY DEF Tick, BufferWrite, Remember, InvSent

\* Fetched speaks of the buffer, the image and the request alone.
LEMMA FetchedSame ==
  ASSUME Fetched, asked' = asked, buf' = buf, disk' = disk PROVE Fetched'
BY DEF Fetched, AskedLba, Mark

\* While the machine waits nothing is fetched but by the workhorse.
LEMMA FetchingTick ==
  ASSUME TypeOK, Handshake, DataInv, NEW op, Tick(op)
  PROVE  InvFetching'
<1>1. slave' = slave  BY DEF Tick
<1>2. CASE slave.pc \notin {"RAISE", "SEEK", "COPY", "ANSWER"}
  BY <1>1, <1>2 DEF InvFetching
<1>3. CASE slave.pc \in {"RAISE", "SEEK", "COPY", "ANSWER"}
  <2>1. asked' = asked /\ buf' = buf /\ disk' = disk
    BY <1>3, WorkingWaits, TickFrame DEF Waiting, DataInv
  <2>2. Fetched => Fetched'
    BY <2>1, FetchedSame
  <2>3. AskedLba' = AskedLba
    BY <2>1 DEF AskedLba
  <2> QED  BY <1>1, <2>1, <2>2, <2>3 DEF InvFetching, DataInv, AtAsked
<1> QED  BY <1>2, <1>3

\* The address does not wrap before the last byte.
LEMMA NextIs ==
  ASSUME TypeOK, wd.addr + 1 < SectorSize PROVE NextAddr = wd.addr + 1
<1>1. wd.addr + 1 \in Nat /\ SectorSize \in Nat \ {0}
  BY WdFields, SectorSizeAssumption DEF Addr
<1> QED  BY <1>1 DEF NextAddr

\* No tick of the controller breaks the data invariant.
LEMMA DataTick ==
  ASSUME TypeOK, NoUnderrun, Patient, Handshake, DataInv, NEW op \in HostOps, Tick(op)
  PROVE  DataInv'
<1>1. InvFetching'
  BY FetchingTick
<1>2. /\ status' = status /\ slave' = slave /\ disk' = disk
      /\ wd.state # "READY" => asked' = asked
      /\ wd.state # "WRITE_2" => buf' = buf
  BY TickFrame DEF DataInv
<1>3. wd.state \notin {"ABORT", "DEAD"}
  BY DEF Handshake, InvCourse
<1>4. InvNamed /\ InvSent /\ InvNoticed
  BY DEF DataInv
<1>5. SectorSize \in Nat /\ AddrSize \in Nat /\ AddrSize <= SectorSize
  BY SectorSizeAssumption, AddrSizeAssumption
<1>6. wd.state \in {"WAIT_CPUREAD"} \union Reading =>
        ~Quiet /\ wd.busy /\ wd.command # "WRITE"
  <2>1. wd.state \in {"WAIT_CPUREAD"} \union Reading => wd.request.op \in {"READ", "READADDR"}
    BY DEF Handshake, InvRequest
  <2> QED  BY <1>4, <2>1 DEF InvNamed, Quiet, StatusBusy, Reading
<1>7. Machine(op)
  BY DEF Tick
<1>8. CASE Idle(op)
  <2>1. wd'.state = "READY" /\ wd'.bufWr = FALSE
    BY <1>8, HostOpsType, BusData, PatientCourse DEF Idle
  <2> QED  BY <1>1, <2>1 DEF DataInv, InvNamed, InvSent, InvNoticed, Reading
<1>9. CASE Accept(op)
  <2>0. wd.state = "READY"
    BY <1>9 DEF Accept, Restore, Seek, Step, StepU, Read, ReadAddress, WriteSector, TrackCommand, Takes
  <2>1. "COMPLETE" \notin status
    BY <2>0 DEF Handshake, InvSettling
  <2>2. "SUCCESS" \notin status /\ "CRC" \notin status
    <3>1. slave.pc \in Places  BY SlaveFields
    <3> QED  BY <2>1, <3>1 DEF Handshake, InvStatus, Standing, Places
  <2>3. wd.pending /\ Takings /\ wd'.bufWr = FALSE
    BY <1>9, AcceptData
  <2>4. asked' = [op |-> wd.command, drive |-> wd.drive, side |-> wd.side,
                  track |-> wd.diskTrack, sector |-> wd.sector]
    BY <2>0, <2>3 DEF Tick, Remember
  <2>5. CASE wd'.state \in {"WAIT_CPU", "READY"}
    BY <1>1, <1>2, <2>2, <2>3, <2>5 DEF DataInv, InvNamed, InvSent, InvNoticed, Reading
  <2>6. CASE Asks("READ", SectorSize)
    <3>1. asked'.op = "READ" /\ Size' = SectorSize
      BY <2>4, <2>6 DEF Asks, Size
    <3> QED  BY <1>1, <1>2, <2>2, <2>3, <2>4, <2>6, <3>1
             DEF Asks, DataInv, InvNamed, InvSent, InvNoticed, Reading
  <2>7. CASE Asks("READADDR", AddrSize)
    <3>1. asked'.op = "READADDR" /\ Size' = AddrSize
      BY <2>4, <2>7 DEF Asks, Size
    <3> QED  BY <1>1, <1>2, <2>2, <2>3, <2>4, <2>7, <3>1
             DEF Asks, DataInv, InvNamed, InvSent, InvNoticed, Reading
  <2>8. CASE Collects
    BY <1>1, <2>3, <2>8 DEF Collects, Counts, DataInv, InvNamed, InvSent, InvNoticed, Reading
  <2> QED  BY <2>3, <2>5, <2>6, <2>7, <2>8 DEF Takings
<1>10. CASE Send(op)
  <2>0. wd.state \in Reading
    BY <1>10 DEF Send, Read1, Read2, Read3Wait, Read3Byte, ReadSectWait, ReadSectNext,
                 ReadSectLast, Reading
  <2>1. Same /\ SendsByte
    BY <1>6, <1>10, <2>0, SendData
  <2>2. asked' = asked /\ buf' = buf /\ Size' = Size
    BY <1>2, <2>0 DEF Reading, Size
  <2>3. Fetched /\ wd.addr + wd.len = Size /\ wd.len >= 1
    BY <1>4, <2>0 DEF InvSent, NoUnderrun
  <2>4. Fetched'
    BY <1>2, <2>2, <2>3, FetchedSame
  <2>5. wd.len \in Nat /\ wd.addr \in Nat /\ Size \in Nat /\ Size <= SectorSize
    BY <1>5, WdFields DEF Addr, Size
  <2>6. "CRC" \notin status
    <3>1. {"COMPLETE", "SUCCESS"} \subseteq status /\ slave.pc = "LOOP"
      BY <2>0 DEF Handshake, InvSettling
    <3> QED  BY <3>1 DEF Handshake, InvStatus, Standing
  <2>7. CASE wd'.state = "ENDCOMMAND"
    BY <1>1, <1>2, <2>1, <2>6, <2>7 DEF Same, DataInv, InvNamed, InvSent, InvNoticed, Reading
  <2>8. CASE wd'.state # "ENDCOMMAND"
    <3>1. wd'.state \in Reading /\ wd'.addr + wd'.len = Size
      <4>1. CASE wd.state = "READ_1" /\ Counts("READ_2", NextAddr, wd.len - 1)
        <5>1. wd.len >= 2  BY <4>1 DEF NoUnderrun
        <5>2. NextAddr = wd.addr + 1
          <6>1. wd.addr + 1 < SectorSize
            BY <2>3, <2>5, <5>1, <1>5
          <6> QED  BY <6>1, NextIs
        <5> QED  BY <2>3, <2>5, <4>1, <5>2 DEF Counts, Reading
      <4>2. CASE wd'.state \in Reading /\ wd'.addr = wd.addr /\ wd'.len = wd.len
        BY <2>3, <4>2
      <4> QED  BY <2>1, <2>8, <4>1, <4>2 DEF SendsByte, Counts, Reading
    <3>2. wd'.state = "READSECT" => wd'.datareg = buf[wd'.addr]
      BY <1>4, <2>1 DEF SendsByte, Counts, InvSent
    <3>3. InvNamed'
      BY <1>4, <2>0, <2>1, <2>2 DEF InvNamed, Same
    <3>4. InvSent'
      BY <2>1, <2>2, <2>4, <3>1, <3>2 DEF InvSent, Same, Reading
    <3>5. InvNoticed'
      BY <3>1 DEF InvNoticed, Reading
    <3> QED  BY <1>1, <3>3, <3>4, <3>5 DEF DataInv
  <2> QED  BY <2>7, <2>8
<1>11. CASE Receive(op)
  <2>1. /\ wd'.state \in Writing \union {"WAIT_CPUWRITE"}
        /\ wd'.bufWr => wd'.state = "WRITE_2"
    BY <1>11, ReceiveState
  <2> QED  BY <1>1, <2>1 DEF DataInv, InvNamed, InvSent, InvNoticed, Reading, Writing
<1>12. CASE Finish(op)
  <2>1. Endings /\ wd'.bufWr = FALSE
    BY <1>3, <1>6, <1>12, FinishData
  <2>2. wd.state \notin {"READY", "WRITE_2"}
    BY <2>1 DEF Endings
  <2>3. asked' = asked /\ buf' = buf /\ Size' = Size
    BY <1>2, <2>2 DEF Size
  <2>4. Fetched => Fetched'
    BY <1>2, <2>3, FetchedSame
  <2>5. CASE wd.state = "WAIT_CPUREAD" /\ wd'.state = "READ_2"
    <3>1. Succeeded /\ Same /\ Counts("READ_2", 0, wd.len)
      BY <1>6, <2>1, <2>5 DEF Endings
    <3>2. Fetched'
      <4>1. "SUCCESS" \in status  BY <3>1 DEF Succeeded, Failed
      <4> QED  BY <1>4, <2>4, <2>5, <4>1 DEF InvSent
    <3>3. wd.len = Size /\ Size \in Nat
      BY <1>4, <1>5, <2>5 DEF InvSent, Size
    <3>4. wd'.addr + wd'.len = Size'
      BY <2>3, <3>1, <3>3 DEF Counts
    <3>5. InvNamed'
      BY <1>4, <2>3, <2>5, <3>1 DEF InvNamed, Same
    <3> QED  BY <1>1, <2>1, <2>5, <3>2, <3>4, <3>5 DEF DataInv, InvSent, InvNoticed, Reading
  <2>6. CASE wd.state = "WAIT_CPUREAD" /\ wd'.state = "WAIT_CPUREAD"
    <3>1. Same /\ wd'.len = wd.len
      BY <1>6, <2>1, <2>6 DEF Endings
    <3>2. InvNamed'
      BY <1>4, <2>3, <2>6, <3>1 DEF InvNamed, Same
    <3> QED  BY <1>1, <1>2, <1>4, <2>1, <2>3, <2>4, <2>6, <3>1, <3>2
             DEF DataInv, InvSent, InvNoticed, Reading
  <2>7. CASE wd'.state \notin {"READ_2", "WAIT_CPUREAD"}
    <3>1. wd'.state \in {"ENDCOMMAND", "ENDCOMMAND2", "READY", "WAIT_CPU", "WAIT_CPUWRITE"}
      BY <2>1, <2>7 DEF Endings, Kept
    <3>2. InvNoticed'
      <4>1. CASE wd.state = "WAIT_CPUREAD"
        BY <1>2, <2>1, <2>7, <4>1 DEF Endings, InvNoticed
      <4>2. CASE wd.state = "WAIT_CPUWRITE"
        <5>1. CASE Failed /\ wd'.state = "ENDCOMMAND" /\ wd'.wrFault = ("CRC" \in status)
          BY <1>2, <5>1 DEF InvNoticed
        <5>2. CASE Succeeded
          <6>1. "CRC" \notin status
            <7>1. "COMPLETE" \in status /\ "SUCCESS" \in status
              BY <5>2 DEF Succeeded, Failed
            <7>2. slave.pc = "LOOP"
              BY <4>2, <7>1 DEF Handshake, InvSettling, Waiting
            <7> QED  BY <7>1, <7>2 DEF Handshake, InvStatus, Standing
          <6> QED  BY <1>2, <3>1, <4>2, <6>1 DEF InvNoticed
        <5>3. CASE wd'.state = "WAIT_CPUWRITE"
          BY <5>3 DEF InvNoticed
        <5> QED  BY <2>1, <4>2, <5>1, <5>2, <5>3 DEF Endings
      <4>3. CASE wd.state = "WAIT_CPU"
        BY <1>2, <1>4, <4>3 DEF InvNoticed
      <4>4. CASE wd.state \in {"ENDCOMMAND", "ENDCOMMAND2"}
        BY <1>2, <1>4, <2>1, <4>4 DEF InvNoticed, Endings, Kept
      <4> QED  BY <2>1, <4>1, <4>2, <4>3, <4>4 DEF Endings
    <3> QED  BY <1>1, <2>1, <3>1, <3>2 DEF DataInv, InvNamed, InvSent, Reading
  <2> QED  BY <2>1, <2>5, <2>6, <2>7 DEF Endings, Kept
<1>13. CASE Dead
  BY <1>3, <1>13 DEF Dead
<1> QED  BY <1>7, <1>8, <1>9, <1>10, <1>11, <1>12, <1>13 DEF Machine

-----------------------------------------------------------------------------
(* The workhorse's steps.                                                  *)

\* Three actions move bytes.
LEMMA StoresKept ==
  ASSUME Workhorse, ~ReadByte, ~WriteByte, ~AddressMark
  PROVE  buf' = buf /\ disk' = disk
BY DEF Workhorse, Boot, Start, MountOk, MountFails, Insert, Enter, LoopEnds, NoCard, Sample, Raise,
       SeekImage, Outside, CopyFails, Answer, Acked, NopBusy, NopDone, Blink, Leave, Fail, Quietly

Serves == {"RAISE", "SEEK", "COPY", "ANSWER"}
Transfers == {"READ", "READADDR", "WRITE"}

\* Before and after a request.
LEMMA OutsideServe ==
  ASSUME TypeOK, Workhorse, slave.pc \notin Serves
  PROVE  /\ buf' = buf /\ disk' = disk
         /\ slave'.pc \notin {"SEEK", "COPY", "ANSWER"}
         /\ slave'.pc = "RAISE" => slave'.cmd.op \in Transfers
         /\ status' = status \/ ("SUCCESS" \notin status' /\ "CRC" \notin status')
<1>1. Courses  BY WorkhorseCourses
<1>2. ~ReadByte /\ ~WriteByte /\ ~AddressMark
  BY DEF ReadByte, WriteByte, AddressMark, Moves, At, Serves
<1>3. buf' = buf /\ disk' = disk
  BY <1>2, StoresKept
<1>4. CASE Booting
  BY <1>3, <1>4 DEF Booting, Course, Steps, Loops
<1>5. CASE Polling
  BY <1>3, <1>5 DEF Polling, Course, Steps, Loops, Handler, Transfers
<1>6. CASE Serving
  BY <1>3, <1>6 DEF Serving, Course, Steps, Loops, Serves
<1>7. CASE Resting
  BY <1>3, <1>7 DEF Resting, Course, Steps, Loops
<1> QED  BY <1>1, <1>4, <1>5, <1>6, <1>7 DEF Courses

\* Serving a request, byte by byte.
LEMMA RaiseData ==
  ASSUME TypeOK, Raise
  PROVE  /\ slave'.cmd = slave.cmd /\ status' = {"BUSY"} /\ buf' = buf /\ disk' = disk
         /\ \/ slave'.pc = "SEEK" /\ slave'.result = "OK" /\ ~OtherDrive
            \/ slave'.pc = "ANSWER" /\ slave'.result = "INVALID_DRIVE"
<1> DEFINE t == OtherDrive
<1>1. /\ slave' = [slave EXCEPT !.t1 = t, !.result = IF t THEN "INVALID_DRIVE" ELSE "OK",
                     !.pc = IF t THEN "ANSWER" ELSE "SEEK"]
      /\ status' = {"BUSY"} /\ buf' = buf /\ disk' = disk
  BY DEF Raise, Post
<1> HIDE DEF t
<1>2. CASE t
  BY <1>1, <1>2, Shapes DEF IsSlave, SlaveNames
<1>3. CASE ~t
  BY <1>1, <1>3, Shapes DEF IsSlave, SlaveNames, t
<1> QED  BY <1>2, <1>3

\* fdd_seek takes the place from the request and from the ports as they stand.
LEMMA SeekData ==
  ASSUME TypeOK, SeekImage
  PROVE  /\ slave.pc = "SEEK" /\ slave'.pc = "COPY" /\ slave'.pos = 0
         /\ slave'.cmd = slave.cmd /\ slave'.result = slave.result
         /\ slave'.side = slave.cmd.side /\ slave'.track = wd.diskTrack /\ slave'.sector = wd.sector
         /\ status' = status /\ buf' = buf /\ disk' = disk
BY Shapes DEF IsSlave, SlaveNames, SeekImage, At, Quietly

Unmoved == /\ slave'.cmd = slave.cmd /\ slave'.side = slave.side
           /\ slave'.track = slave.track /\ slave'.sector = slave.sector
\* A byte copied is one byte of progress.
LEMMA CopiedData ==
  ASSUME TypeOK, Copied, slave.pc = "COPY"
  PROVE  /\ Unmoved /\ slave'.result = slave.result
         /\ \/ slave'.pc = "COPY" /\ slave'.pos = slave.pos + 1 /\ slave.pos # SectorSize - 1
            \/ slave'.pc = "ANSWER" /\ slave.pos = SectorSize - 1
BY Shapes DEF IsSlave, SlaveNames, Copied, CopyDone, Unmoved

\* A place outside the image ends the transfer with nothing moved.
LEMMA OutsideData ==
  ASSUME TypeOK, Outside
  PROVE  /\ slave.pc = "COPY" /\ slave'.pc = "ANSWER" /\ Unmoved /\ slave'.result = slave.result
         /\ slave.cmd.op \in {"READ", "WRITE"} /\ Here \notin Lbas
         /\ status' = status /\ buf' = buf /\ disk' = disk
BY Shapes DEF IsSlave, SlaveNames, Outside, At, Goto, Quietly, Unmoved

\* A card error ends it with FR_RW_ERROR.
LEMMA FailsData ==
  ASSUME TypeOK, CopyFails
  PROVE  /\ slave.pc = "COPY" /\ slave'.pc = "ANSWER" /\ Unmoved /\ slave'.result = "RW_ERROR"
         /\ slave.cmd.op \in {"READ", "WRITE"}
         /\ status' = status /\ buf' = buf /\ disk' = disk
BY Shapes DEF IsSlave, SlaveNames, CopyFails, At, Quietly, Unmoved

\* fdd_readadsr fills the six bytes of the address mark and no other.
LEMMA MarkData ==
  ASSUME TypeOK, AddressMark
  PROVE  /\ slave.pc = "COPY" /\ slave'.pc = "ANSWER" /\ Unmoved /\ slave'.result = slave.result
         /\ slave.cmd.op = "READADDR" /\ status' = status /\ disk' = disk
         /\ buf' = [k \in Addr |-> IF k < AddrSize THEN AddressField(k) ELSE buf[k]]
BY Shapes DEF IsSlave, SlaveNames, AddressMark, Moves, At, Goto, Unmoved

\* The address mark is made of what the registers named.
LEMMA MarkFields ==
  ASSUME AtAsked, NEW k \in 0 .. 5
  PROVE  AddressField(k) = Mark[k + 1]
<1>1. CASE k = 0  BY <1>1 DEF AtAsked, AddressField, Mark
<1>2. CASE k = 1  BY <1>2 DEF AtAsked, AddressField, Mark
<1>3. CASE k = 2  BY <1>3 DEF AtAsked, AddressField, Mark
<1>4. CASE k = 3  BY <1>4 DEF AtAsked, AddressField, Mark
<1>5. CASE k = 4  BY <1>5 DEF AtAsked, AddressField, Mark
<1>6. CASE k = 5  BY <1>6 DEF AtAsked, AddressField, Mark
<1> QED  BY <1>1, <1>2, <1>3, <1>4, <1>5, <1>6

\* Which request is being served.
LEMMA ServedIsAsked ==
  ASSUME Handshake, InvNamed, InvFetching, slave.pc \in Serves, slave.cmd.op # "WRITE"
  PROVE  /\ wd.state = "WAIT_CPUREAD" /\ slave.cmd.op \in {"READ", "READADDR"}
         /\ slave.cmd.op = asked.op /\ slave.cmd.drive = asked.drive /\ slave.cmd.side = asked.side
         /\ wd.diskTrack = asked.track /\ wd.sector = asked.sector
<1>1. /\ slave.cmd = wd.request /\ wd.state = Waits(wd.request.op)
      /\ slave.cmd.op \in {"READ", "READADDR"}
  BY WorkingWaits DEF Serves, InvFetching
<1>2. wd.state = "WAIT_CPUREAD"  BY <1>1 DEF Waits
<1> QED  BY <1>1, <1>2 DEF InvNamed

\* Where the workhorse writes, the machine waits for it to have written.
LEMMA WriteIsWaitedFor ==
  ASSUME Handshake, slave.pc \in Serves, slave.cmd.op = "WRITE"
  PROVE  wd.state = "WAIT_CPUWRITE" /\ wd.request.op = "WRITE" /\ slave.cmd = wd.request
BY WorkingWaits DEF Serves, Waits

\* As long as status keeps its bits and the stores their bytes, the machine's
\* part of the invariant stands.
LEMMA MachineKept ==
  ASSUME InvSent, InvNoticed, wd' = wd, asked' = asked, buf' = buf, disk' = disk,
         status' = status \/ ("SUCCESS" \notin status' /\ "CRC" \notin status')
  PROVE  InvSent' /\ InvNoticed'
<1>1. Fetched => Fetched'  BY FetchedSame
<1>2. Size' = Size  BY DEF Size
<1> QED  BY <1>1, <1>2 DEF InvSent, InvNoticed

\* Nor does it matter what the workhorse moves while the machine waits and is
\* told nothing.
LEMMA MachineWaits ==
  ASSUME TypeOK, Handshake, InvSent, InvNoticed, wd' = wd, asked' = asked, status' = status,
         slave.pc \in Serves \ {"RAISE"}
  PROVE  InvSent' /\ InvNoticed'
<1>1. wd.state \in Waiting  BY WorkingWaits DEF Serves
<1>2. "SUCCESS" \notin status
  BY DEF Handshake, InvStatus, Serves
<1>3. Size' = Size  BY DEF Size
<1> QED  BY <1>1, <1>2, <1>3 DEF InvSent, InvNoticed, Waiting, Reading

\* No step of the workhorse breaks the data invariant.
LEMMA DataServe ==
  ASSUME TypeOK, Handshake, DataInv, Serve, TypeOK'
  PROVE  DataInv'
<1>1. Workhorse /\ wd' = wd /\ asked' = asked
  BY DEF Serve
<1>2. InvNamed /\ InvSent /\ InvFetching /\ InvNoticed
  BY DEF DataInv
<1>3. InvNamed'
  BY <1>1, <1>2 DEF InvNamed
<1>4. AskedLba' = AskedLba
  BY <1>1 DEF AskedLba
<1>5. CASE slave.pc \notin Serves
  <2>1. /\ buf' = buf /\ disk' = disk
        /\ slave'.pc \notin {"SEEK", "COPY", "ANSWER"}
        /\ slave'.pc = "RAISE" => slave'.cmd.op \in Transfers
        /\ status' = status \/ ("SUCCESS" \notin status' /\ "CRC" \notin status')
    BY <1>1, <1>5, OutsideServe
  <2>2. InvSent' /\ InvNoticed'
    BY <1>1, <1>2, <2>1, MachineKept
  <2>3. InvFetching'
    BY <2>1 DEF InvFetching, Transfers
  <2> QED  BY <1>3, <2>2, <2>3 DEF DataInv
<1>6. CASE Raise
  <2>0. slave.pc = "RAISE"  BY <1>6 DEF Raise, At
  <2>1. /\ slave'.cmd = slave.cmd /\ status' = {"BUSY"} /\ buf' = buf /\ disk' = disk
        /\ \/ slave'.pc = "SEEK" /\ slave'.result = "OK" /\ ~OtherDrive
           \/ slave'.pc = "ANSWER" /\ slave'.result = "INVALID_DRIVE"
    BY <1>6, RaiseData
  <2>2. InvSent' /\ InvNoticed'
    BY <1>1, <1>2, <2>1, MachineKept
  <2>3. InvFetching'
    BY <1>2, <2>0, <2>1 DEF InvFetching, OtherDrive
  <2> QED  BY <1>3, <2>2, <2>3 DEF DataInv
<1>7. CASE SeekImage
  <2>1. /\ slave.pc = "SEEK" /\ slave'.pc = "COPY" /\ slave'.pos = 0
        /\ slave'.cmd = slave.cmd /\ slave'.result = slave.result
        /\ slave'.side = slave.cmd.side /\ slave'.track = wd.diskTrack /\ slave'.sector = wd.sector
        /\ status' = status /\ buf' = buf /\ disk' = disk
    BY <1>7, SeekData
  <2>2. InvSent' /\ InvNoticed'
    BY <1>1, <1>2, <2>1, MachineKept
  <2>3. slave.cmd.op # "WRITE" => AtAsked'
    BY <1>1, <1>2, <2>1, ServedIsAsked DEF AtAsked, Serves
  <2>4. \A k \in Addr : ~(k < slave'.pos)
    BY <2>1 DEF Addr
  <2>5. InvFetching'
    BY <1>2, <2>1, <2>3, <2>4 DEF InvFetching
  <2> QED  BY <1>3, <2>2, <2>5 DEF DataInv
<1>8. CASE ReadByte \/ WriteByte \/ Outside \/ CopyFails \/ AddressMark
  <2>1. slave.pc = "COPY" /\ status' = status
    BY <1>8 DEF ReadByte, WriteByte, Outside, CopyFails, AddressMark, Moves, At, Quietly
  <2>2. InvSent' /\ InvNoticed'
    BY <1>1, <1>2, <2>1, MachineWaits DEF Serves
  <2>3. slave.result = "OK" /\ slave.cmd.op \in Transfers
    BY <1>2, <2>1 DEF InvFetching, Transfers
  <2>4. slave.cmd.op # "WRITE" =>
          /\ AtAsked /\ Here = AskedLba /\ asked.drive = 0 /\ slave.cmd.op = asked.op
    BY <1>2, <2>1, ServedIsAsked DEF InvFetching, Serves, AtAsked, Here, AskedLba
  <2>5. Unmoved => (AtAsked => AtAsked')
    BY <1>1 DEF Unmoved, AtAsked
  <2>6. CASE ReadByte
    <3>1. /\ Copied /\ slave.cmd.op = "READ" /\ disk' = disk /\ Here \in Lbas
          /\ buf' = [buf EXCEPT ![slave.pos] = disk[Here][slave.pos]]
      BY <2>6 DEF ReadByte, Moves
    <3>2. /\ Unmoved /\ slave'.result = slave.result
          /\ \/ slave'.pc = "COPY" /\ slave'.pos = slave.pos + 1 /\ slave.pos # SectorSize - 1
             \/ slave'.pc = "ANSWER" /\ slave.pos = SectorSize - 1
      BY <2>1, <3>1, CopiedData
    <3>3. buf \in [Addr -> Byte] /\ slave.pos \in Addr /\ disk[AskedLba] \in [Addr -> Byte]
      BY <2>4, <3>1, SlaveFields DEF TypeOK
    <3>4. \A k \in Addr : k < slave.pos => buf[k] = disk[AskedLba][k]
      BY <1>2, <2>1, <2>4, <3>1 DEF InvFetching
    <3>5. \A k \in Addr : k < slave.pos + 1 => buf'[k] = disk'[AskedLba'][k]
      <4> TAKE k \in Addr
      <4> HAVE k < slave.pos + 1
      <4>1. CASE k = slave.pos
        BY <1>4, <2>4, <3>1, <3>3, <4>1
      <4>2. CASE k # slave.pos
        <5>1. k < slave.pos  BY <3>3, <4>2 DEF Addr
        <5>2. buf'[k] = buf[k]  BY <3>1, <3>3, <4>2
        <5> QED  BY <1>4, <3>1, <3>4, <5>1, <5>2
      <4> QED  BY <4>1, <4>2
    <3>6. CASE slave'.pc = "COPY" /\ slave'.pos = slave.pos + 1
      <4>1. InvFetching'
        BY <1>2, <2>1, <2>3, <2>4, <2>5, <3>1, <3>2, <3>5, <3>6 DEF InvFetching, Unmoved
      <4> QED  BY <1>3, <2>2, <4>1 DEF DataInv
    <3>7. CASE slave'.pc = "ANSWER" /\ slave.pos = SectorSize - 1
      <4>1. \A k \in Addr : buf'[k] = disk'[AskedLba'][k]
        BY <3>3, <3>5, <3>7, SectorSizeAssumption DEF Addr
      <4>2. buf' \in [Addr -> Byte] /\ disk'[AskedLba'] \in [Addr -> Byte]
        BY <1>4, <2>4, <3>1, <3>3 DEF TypeOK
      <4>3. buf' = disk'[AskedLba']
        BY <4>1, <4>2
      <4>4. Fetched'
        BY <1>1, <2>4, <3>1, <4>3 DEF Fetched
      <4>5. InvFetching'
        BY <2>3, <3>2, <3>7, <4>4 DEF InvFetching, Unmoved, Transfers
      <4> QED  BY <1>3, <2>2, <4>5 DEF DataInv
    <3> QED  BY <3>2, <3>6, <3>7
  <2>7. CASE WriteByte
    <3>1. Copied /\ slave.cmd.op = "WRITE"
      BY <2>7 DEF WriteByte, Moves
    <3>2. /\ Unmoved /\ slave'.result = slave.result /\ slave'.pc \in {"COPY", "ANSWER"}
      BY <2>1, <3>1, CopiedData
    <3>3. InvFetching'
      BY <2>3, <3>1, <3>2 DEF InvFetching, Unmoved
    <3> QED  BY <1>3, <2>2, <3>3 DEF DataInv
  <2>8. CASE Outside
    <3>1. /\ slave'.pc = "ANSWER" /\ Unmoved /\ slave.cmd.op \in {"READ", "WRITE"} /\ Here \notin Lbas
      BY <2>8, OutsideData
    <3>2. slave.cmd.op # "WRITE" => Fetched'
      BY <1>1, <1>4, <2>4, <3>1 DEF Fetched, Lbas
    <3>3. InvFetching'
      BY <3>1, <3>2 DEF InvFetching, Unmoved
    <3> QED  BY <1>3, <2>2, <3>3 DEF DataInv
  <2>9. CASE CopyFails
    <3>1. /\ slave'.pc = "ANSWER" /\ Unmoved /\ slave'.result = "RW_ERROR"
          /\ slave.cmd.op \in {"READ", "WRITE"}
      BY <2>9, FailsData
    <3>2. InvFetching'
      BY <3>1 DEF InvFetching, Unmoved
    <3> QED  BY <1>3, <2>2, <3>2 DEF DataInv
  <2>10. CASE AddressMark
    <3>1. /\ slave'.pc = "ANSWER" /\ Unmoved /\ slave.cmd.op = "READADDR"
          /\ buf' = [k \in Addr |-> IF k < AddrSize THEN AddressField(k) ELSE buf[k]]
      BY <2>10, MarkData
    <3>2. \A k \in 0 .. AddrSize - 1 : buf'[k] = Mark'[k + 1]
      <4> TAKE k \in 0 .. AddrSize - 1
      <4>1. k \in Addr /\ k \in 0 .. 5 /\ k < AddrSize
        BY AddrSizeAssumption, SectorSizeAssumption DEF Addr
      <4>2. Mark' = Mark  BY <1>1 DEF Mark
      <4>3. AddressField(k) = Mark[k + 1]
        BY <2>4, <3>1, <4>1, MarkFields
      <4>4. buf'[k] = AddressField(k)
        BY <3>1, <4>1
      <4> QED  BY <4>2, <4>3, <4>4
    <3>3. asked'.op = "READADDR" /\ asked'.drive = 0
      BY <1>1, <2>4, <3>1
    <3>4. Fetched'
      BY <3>2, <3>3 DEF Fetched
    <3>5. InvFetching'
      BY <3>1, <3>4 DEF InvFetching, Unmoved
    <3> QED  BY <1>3, <2>2, <3>5 DEF DataInv
  <2> QED  BY <1>8, <2>6, <2>7, <2>8, <2>9, <2>10
<1>9. CASE Answer
  <2>1. /\ slave.pc = "ANSWER" /\ BackToLoop /\ status' = Verdict /\ buf' = buf /\ disk' = disk
    BY <1>9 DEF Answer, At, Post
  <2>2. slave'.pc = "LOOP"
    BY <2>1, BackToLoopFacts
  <2>3. Fetched => Fetched'
    BY <1>1, <2>1, FetchedSame
  <2>4. "SUCCESS" \in status' => slave.result = "OK"
    BY <2>1 DEF Verdict
  <2>5. Size' = Size /\ wd.state \in Waiting /\ wd.state # "WAIT_CPU"
    <3>1. slave.cmd = wd.request /\ wd.state = Waits(wd.request.op) /\ wd.state \in Waiting
      BY <2>1, WorkingWaits
    <3>2. slave.cmd.op \in Transfers
      BY <1>2, <2>1 DEF InvFetching, Transfers
    <3> QED  BY <1>1, <3>1, <3>2 DEF Size, Waits, Transfers
  <2>6. wd.state = "WAIT_CPUREAD" => slave.cmd.op # "WRITE"
    BY <2>1, WriteIsWaitedFor DEF Serves
  <2>7. wd.state = "WAIT_CPUREAD" /\ "SUCCESS" \in status' => Fetched'
    BY <1>2, <2>1, <2>3, <2>4, <2>6 DEF InvFetching
  <2>8. InvSent'
    BY <1>1, <1>2, <2>1, <2>3, <2>5, <2>7 DEF InvSent, Waiting, Reading
  <2>9. InvNoticed' /\ InvFetching'
    BY <1>1, <2>2, <2>5 DEF InvNoticed, InvFetching, Waiting
  <2> QED  BY <1>3, <2>8, <2>9 DEF DataInv
<1> QED
  <2>1. slave.pc \in Serves => \/ Raise \/ SeekImage \/ Answer
                               \/ ReadByte \/ WriteByte \/ Outside \/ CopyFails \/ AddressMark
    BY <1>1 DEF Workhorse, At, Serves, Boot, Start, MountOk, MountFails, Insert, Enter, LoopEnds,
                NoCard, Sample, Acked, NopBusy, NopDone, Blink, Leave, Fail
  <2> QED  BY <1>5, <1>6, <1>7, <1>8, <1>9, <2>1

-----------------------------------------------------------------------------
(* A WRITE, with a host that leaves the registers alone until it has ended. *)

\* The meek host is patient, and silent from the command to its end.
LEMMA MeekIsPatient == ASSUME Meek PROVE Patient /\ (wd.state # "READY" => ~Quiet)
BY DEF Meek, Patient, Quiet

\* A tick of the controller does not disturb a sector being stored.
LEMMA StoringTick ==
  ASSUME TypeOK, Handshake, InvSent, InvStoring, NEW op, Tick(op)
  PROVE  InvStoring'
<1>1. slave' = slave /\ disk' = disk  BY DEF Tick
<1>2. CASE slave.pc \notin Serves
  BY <1>1, <1>2 DEF InvStoring, WriteStored, Serves
<1>3. CASE slave.pc \in Serves
  <2>1. wd.state \in Waiting  BY <1>3, WorkingWaits DEF Serves
  <2>2. buf' = buf /\ asked' = asked /\ given' = given
    BY <2>1 DEF InvSent, Tick, BufferWrite, Remember, Record, Waiting
  <2>3. AskedLba' = AskedLba
    BY <2>2 DEF AskedLba
  <2> QED  BY <1>1, <2>2, <2>3 DEF InvStoring, WriteStored, AtAsked
<1> QED  BY <1>2, <1>3

\* A tick collects bytes in the order in which they were given.
LEMMA CollectTick ==
  ASSUME TypeOK, NoUnderrun, Meek, Handshake, DataInv, InvCollected, NEW op \in HostOps, Tick(op)
  PROVE  InvCollected'
<1>1. Patient /\ (wd.state # "READY" => ~Quiet)
  BY MeekIsPatient
<1>2. /\ wd.state # "READY" => asked' = asked
      /\ wd.state # "WRITE_2" => buf' = buf
      /\ wd.state # "WRITESECT" => given' = given
  BY TickFrame DEF DataInv, Tick, Record
<1>3. wd.state \notin {"ABORT", "DEAD"} /\ Machine(op)
  BY DEF Handshake, InvCourse, Tick
<1>4. wd.state \in {"WAIT_CPUREAD"} \union Reading => wd.busy /\ wd.command # "WRITE"
  <2>1. wd.state \in {"WAIT_CPUREAD"} \union Reading => wd.request.op \in {"READ", "READADDR"}
    BY DEF Handshake, InvRequest
  <2> QED  BY <2>1 DEF InvNamed, DataInv
<1>5. SectorSize \in Nat \ {0} /\ wd.len \in Nat /\ wd.addr \in Addr
  BY SectorSizeAssumption, WdFields
<1>6. CASE Idle(op)
  <2>1. wd'.state = "READY"
    BY <1>1, <1>6, HostOpsType, BusData, PatientCourse DEF Idle
  <2> QED  BY <2>1 DEF InvCollected, Writing
<1>7. CASE Accept(op)
  <2>0. wd.state = "READY"
    BY <1>7 DEF Accept, Restore, Seek, Step, StepU, Read, ReadAddress, WriteSector, TrackCommand, Takes
  <2>1. wd.pending /\ Takings
    BY <1>1, <1>7, AcceptData
  <2>2. asked' = [op |-> wd.command, drive |-> wd.drive, side |-> wd.side,
                  track |-> wd.diskTrack, sector |-> wd.sector]
    BY <2>0, <2>1 DEF Tick, Remember
  <2>3. CASE Collects
    <3>1. \A k \in Addr : ~(k < 0)  BY DEF Addr
    <3> QED  BY <1>5, <2>2, <2>3, <3>1 DEF Collects, Counts, InvCollected, Writing
  <2>4. CASE wd'.state \in {"WAIT_CPU", "READY", "WAIT_CPUREAD"}
    BY <2>4 DEF InvCollected, Writing
  <2> QED  BY <2>1, <2>3, <2>4 DEF Takings, Asks
<1>8. CASE Send(op)
  <2>1. wd.state \in Reading
    BY <1>8 DEF Send, Read1, Read2, Read3Wait, Read3Byte, ReadSectWait, ReadSectNext,
                ReadSectLast, Reading
  <2>2. SendsByte
    BY <1>1, <1>4, <1>8, <2>1, SendData
  <2>3. wd'.state \in Reading \union {"ENDCOMMAND"}
    BY <2>2 DEF SendsByte, Counts, Reading
  <2> QED  BY <2>3 DEF InvCollected, Reading, Writing
<1>9. CASE Receive(op)
  <2>1. wd.state \in Writing /\ wd.state # "READY"
    BY <1>1, <1>9, ReceiveState DEF Writing
  <2>2. Still /\ ReceivesByte(op)
    BY <1>1, <1>9, <2>1, ReceiveData
  <2>3. /\ asked' = asked /\ asked.op = "WRITE" /\ wd'.side = asked.side
        /\ wd'.diskTrack = asked.track /\ wd'.sector = asked.sector
    BY <1>2, <2>1, <2>2 DEF Still, InvCollected
  <2>4. /\ wd.addr + wd.len = SectorSize /\ wd.len >= 1
        /\ \A k \in Addr : k < wd.addr => buf[k] = given[k]
    BY <2>1 DEF InvCollected, NoUnderrun
  <2>5. CASE wd.state = "WRITESECT" /\ op.port # "DATA" /\ Counts("WRITESECT", wd.addr, wd.len)
    <3>1. buf' = buf /\ given' = given
      BY <1>2, <2>5 DEF Tick, Record
    <3> QED  BY <2>3, <2>4, <2>5, <3>1 DEF Counts, InvCollected, Writing
  <2>6. CASE /\ wd.state = "WRITESECT" /\ op.port = "DATA" /\ Counts("WRITE_1", wd.addr, wd.len)
             /\ wd'.datareg = op.data /\ wd'.drq = FALSE
    <3>1. SectorSize - wd.len = wd.addr
      BY <1>5, <2>4 DEF Addr
    <3>2. given' = [given EXCEPT ![wd.addr] = op.data] /\ buf' = buf
      BY <1>2, <2>6, <3>1 DEF Tick, Record
    <3>3. given'[wd.addr] = op.data /\ \A k \in Addr : k < wd.addr => given'[k] = given[k]
      BY <1>5, <3>2 DEF TypeOK, Addr
    <3> QED  BY <2>3, <2>4, <2>6, <3>2, <3>3 DEF Counts, InvCollected, Writing
  <2>7. CASE /\ wd.state = "WRITE_1" /\ Counts("WRITE_2", wd.addr, wd.len)
             /\ wd'.bufWr /\ wd'.drq = wd.drq /\ (~wd.drq => wd'.datareg = wd.datareg)
    <3>1. buf' = buf /\ given' = given
      BY <1>2, <2>7
    <3>2. wd'.datareg = given'[wd'.addr] /\ ~wd'.drq
      BY <2>7, <3>1 DEF InvCollected, Counts
    <3> QED  BY <2>3, <2>4, <2>7, <3>1, <3>2 DEF Counts, InvCollected, Writing
  <2>8. ASSUME wd.state = "WRITE_2"
        PROVE  given' = given /\ \A k \in Addr : k < wd.addr + 1 => buf'[k] = given'[k]
    <3>1. wd.bufWr /\ wd.datareg = given[wd.addr] /\ given' = given
      BY <1>2, <2>8 DEF InvCollected
    <3>2. buf' = [buf EXCEPT ![wd.addr] = given[wd.addr]]
      BY <3>1 DEF Tick, BufferWrite
    <3>3. ASSUME NEW k \in Addr, k < wd.addr + 1
          PROVE  buf'[k] = given[k]
      <4>1. CASE k = wd.addr
        BY <3>2, <4>1 DEF TypeOK
      <4>2. CASE k # wd.addr
        <5>1. k < wd.addr  BY <1>5, <3>3, <4>2 DEF Addr
        <5> QED  BY <2>4, <3>2, <4>2, <5>1 DEF TypeOK
      <4> QED  BY <4>1, <4>2
    <3> QED  BY <3>1, <3>3
  <2>9. CASE wd.state = "WRITE_2" /\ wd.len # 1 /\ Counts("WRITESECT", NextAddr, wd.len - 1)
    <3>1. wd.addr + 1 < SectorSize
      BY <1>5, <2>4, <2>9 DEF Addr
    <3>2. NextAddr = wd.addr + 1
      BY <3>1, NextIs
    <3>3. wd'.addr + wd'.len = SectorSize
      BY <1>5, <2>4, <2>9, <3>2 DEF Counts, Addr
    <3> QED  BY <2>3, <2>8, <2>9, <3>2, <3>3 DEF Counts, InvCollected, Writing
  <2>10. CASE /\ wd.state = "WRITE_2" /\ wd.len = 1 /\ wd'.state = "WAIT_CPUWRITE"
              /\ wd'.request = FlushRequest
    <3>1. \A k \in Addr : buf'[k] = given'[k]
      <4>1. wd.addr + 1 = SectorSize
        BY <2>4, <2>10
      <4>2. \A k \in Addr : k < wd.addr + 1
        BY <1>5, <4>1 DEF Addr
      <4> QED  BY <2>8, <2>10, <4>2
    <3>2. buf' \in [Addr -> Byte] /\ given' \in [Addr -> Byte]
      <4>1. TypeOK'
        BY TypeStep DEF Next, Clock
      <4> QED  BY <4>1 DEF TypeOK
    <3>3. buf' = given'
      BY <3>1, <3>2
    <3>4. wd'.request.side = asked.side
      BY <2>1, <2>10 DEF FlushRequest, InvCollected
    <3> QED  BY <2>3, <2>10, <3>3, <3>4 DEF InvCollected, Writing
  <2> QED  BY <2>2, <2>5, <2>6, <2>7, <2>9, <2>10 DEF ReceivesByte
<1>10. CASE Finish(op)
  <2>1. Endings
    BY <1>1, <1>3, <1>4, <1>10, FinishData
  <2>2. CASE wd.state = "WAIT_CPUWRITE" /\ wd'.state = "WAIT_CPUWRITE"
    <3>1. Still /\ wd'.request = wd.request
      BY <1>1, <2>1, <2>2 DEF Endings
    <3>2. asked' = asked /\ buf' = buf /\ given' = given
      BY <1>2, <2>2
    <3> QED  BY <2>2, <3>1, <3>2 DEF InvCollected, Still, Writing
  <2>3. CASE wd'.state \notin Writing \union {"WAIT_CPUWRITE"}
    BY <2>3 DEF InvCollected, Writing
  <2> QED  BY <2>1, <2>2, <2>3 DEF Endings, Kept, Writing
<1>11. CASE Dead
  BY <1>3, <1>11 DEF Dead
<1> QED  BY <1>3, <1>6, <1>7, <1>8, <1>9, <1>10, <1>11 DEF Machine

\* What the request says of a WRITE is what was asked.
LEMMA WriteIsAsked ==
  ASSUME Handshake, InvCollected, slave.pc \in Serves, slave.cmd.op = "WRITE"
  PROVE  /\ asked.op = "WRITE" /\ buf = given
         /\ slave.cmd.side = asked.side /\ wd.diskTrack = asked.track /\ wd.sector = asked.sector
BY WriteIsWaitedFor DEF InvCollected

\* A byte of the sector that was asked for, and of no other.
LEMMA WriteByteData ==
  ASSUME TypeOK, Handshake, DataInv, StoreInv, WriteByte
  PROVE  /\ slave.pc = "COPY" /\ slave.cmd.op = "WRITE" /\ asked.op = "WRITE"
         /\ AskedLba \in Lbas /\ buf' = buf
         /\ disk' = [disk EXCEPT ![AskedLba][slave.pos] = buf[slave.pos]]
<1>1. /\ slave.pc = "COPY" /\ slave.cmd.op = "WRITE" /\ Here \in Lbas /\ buf' = buf
      /\ disk' = [disk EXCEPT ![Here][slave.pos] = buf[slave.pos]]
  BY DEF WriteByte, Moves, At
<1>2. Here = AskedLba
  BY <1>1 DEF StoreInv, InvStoring, AtAsked, Here, AskedLba
<1>3. asked.op = "WRITE"
  BY <1>1, WriteIsAsked DEF StoreInv, Serves
<1> QED  BY <1>1, <1>2, <1>3

\* No step of the workhorse loses a byte of the sector it stores.
LEMMA StoreServe ==
  ASSUME TypeOK, Handshake, DataInv, StoreInv, Serve, TypeOK'
  PROVE  StoreInv'
<1>1. Workhorse /\ wd' = wd /\ asked' = asked /\ given' = given
  BY DEF Serve
<1>2. AskedLba' = AskedLba
  BY <1>1 DEF AskedLba
<1>3. ASSUME buf' = buf \/ wd.state = "WAIT_CPUREAD"
      PROVE  InvCollected'
  BY <1>1, <1>3 DEF StoreInv, InvCollected, Writing
<1>4. InvStoring /\ InvFetching
  BY DEF StoreInv, DataInv
<1>5. CASE slave.pc \notin Serves
  <2>1. buf' = buf /\ slave'.pc \notin {"SEEK", "COPY", "ANSWER"}
    BY <1>1, <1>5, OutsideServe
  <2> QED  BY <1>3, <2>1 DEF StoreInv, InvStoring, WriteStored
<1>6. CASE Raise
  <2>1. buf' = buf /\ (slave'.pc = "SEEK" \/ (slave'.result = "INVALID_DRIVE" /\ slave'.pc = "ANSWER"))
    BY <1>6, RaiseData
  <2> QED  BY <1>3, <2>1 DEF StoreInv, InvStoring, WriteStored
<1>7. CASE SeekImage
  <2>1. /\ slave.pc = "SEEK" /\ slave'.pc = "COPY" /\ slave'.pos = 0
        /\ slave'.cmd = slave.cmd /\ slave'.result = slave.result
        /\ slave'.side = slave.cmd.side /\ slave'.track = wd.diskTrack /\ slave'.sector = wd.sector
        /\ status' = status /\ buf' = buf /\ disk' = disk
    BY <1>7, SeekData
  <2>2. slave.cmd.op = "WRITE" => AtAsked'
    BY <1>1, <2>1, WriteIsAsked DEF AtAsked, Serves, StoreInv
  <2>3. \A k \in Addr : ~(k < slave'.pos)
    BY <2>1 DEF Addr
  <2> QED  BY <1>3, <2>1, <2>2, <2>3 DEF StoreInv, InvStoring, WriteStored
<1>8. CASE ReadByte \/ AddressMark
  <2>1. slave.pc = "COPY" /\ slave.cmd.op # "WRITE"
    BY <1>8 DEF ReadByte, AddressMark, Moves, At
  <2>2. slave'.cmd = slave.cmd
    <3>1. CASE ReadByte
      BY <2>1, <3>1, CopiedData DEF ReadByte, Unmoved
    <3>2. CASE AddressMark
      BY <3>2, MarkData DEF Unmoved
    <3> QED  BY <1>8, <3>1, <3>2
  <2>3. wd.state = "WAIT_CPUREAD"
    BY <2>1, ServedIsAsked DEF DataInv, Serves
  <2> QED  BY <1>3, <2>1, <2>2, <2>3 DEF StoreInv, InvStoring, WriteStored
<1>9. CASE WriteByte
  <2>1. /\ slave.pc = "COPY" /\ slave.cmd.op = "WRITE" /\ AskedLba \in Lbas /\ buf' = buf
        /\ disk' = [disk EXCEPT ![AskedLba][slave.pos] = buf[slave.pos]]
    BY <1>9, WriteByteData
  <2>2. /\ Unmoved /\ slave'.result = slave.result
        /\ \/ slave'.pc = "COPY" /\ slave'.pos = slave.pos + 1 /\ slave.pos # SectorSize - 1
           \/ slave'.pc = "ANSWER" /\ slave.pos = SectorSize - 1
    BY <1>9, <2>1, CopiedData DEF WriteByte
  <2>3. slave.pos \in Addr /\ disk \in [Lbas -> [Addr -> Byte]] /\ buf = given
    BY <2>1, SlaveFields, WriteIsAsked DEF TypeOK, StoreInv, Serves
  <2>4. AtAsked /\ \A k \in Addr : k < slave.pos => disk[AskedLba][k] = buf[k]
    BY <1>4, <2>1 DEF InvStoring
  <2>5. AtAsked'
    BY <1>1, <2>2, <2>4 DEF Unmoved, AtAsked
  <2>6. disk'[AskedLba] = [disk[AskedLba] EXCEPT ![slave.pos] = buf[slave.pos]]
    BY <2>1, <2>3
  <2>7. \A k \in Addr : k < slave.pos + 1 => disk'[AskedLba][k] = buf[k]
    <3> TAKE k \in Addr
    <3> HAVE k < slave.pos + 1
    <3>1. disk[AskedLba] \in [Addr -> Byte]  BY <2>1, <2>3
    <3>2. CASE k = slave.pos
      BY <2>3, <2>6, <3>1, <3>2
    <3>3. CASE k # slave.pos
      <4>1. k < slave.pos  BY <2>3, <3>3 DEF Addr
      <4> QED  BY <2>3, <2>4, <2>6, <3>1, <3>3, <4>1
    <3> QED  BY <3>2, <3>3
  <2>8. CASE slave'.pc = "COPY" /\ slave'.pos = slave.pos + 1
    BY <1>2, <1>3, <2>1, <2>5, <2>7, <2>8 DEF StoreInv, InvStoring, WriteStored
  <2>9. CASE slave'.pc = "ANSWER" /\ slave.pos = SectorSize - 1
    <3>1. \A k \in Addr : disk'[AskedLba][k] = given[k]
      BY <2>3, <2>7, <2>9, SectorSizeAssumption DEF Addr
    <3>2. disk'[AskedLba] \in [Addr -> Byte] /\ given \in [Addr -> Byte]
      BY <2>1 DEF TypeOK
    <3>3. disk'[AskedLba'] = given'
      BY <1>1, <1>2, <3>1, <3>2
    <3> QED  BY <1>3, <2>1, <2>9, <3>3 DEF StoreInv, InvStoring, WriteStored
  <2> QED  BY <2>2, <2>8, <2>9
<1>10. CASE Outside
  <2>1. /\ slave.pc = "COPY" /\ slave'.pc = "ANSWER" /\ Unmoved /\ Here \notin Lbas /\ buf' = buf
    BY <1>10, OutsideData
  <2>2. slave.cmd.op = "WRITE" => Here = AskedLba
    BY <1>4, <2>1 DEF InvStoring, AtAsked, Here, AskedLba
  <2>3. slave'.cmd = slave.cmd /\ Lbas' = Lbas
    BY <2>1 DEF Unmoved, Lbas
  <2> QED  BY <1>2, <1>3, <2>1, <2>2, <2>3 DEF StoreInv, InvStoring, WriteStored
<1>11. CASE CopyFails
  <2>1. slave'.pc = "ANSWER" /\ slave'.result = "RW_ERROR" /\ buf' = buf
    BY <1>11, FailsData
  <2> QED  BY <1>3, <2>1 DEF StoreInv, InvStoring, WriteStored
<1>12. CASE Answer
  <2>1. BackToLoop /\ buf' = buf
    BY <1>12 DEF Answer
  <2>2. slave'.pc = "LOOP"
    BY <2>1, BackToLoopFacts
  <2> QED  BY <1>3, <2>1, <2>2 DEF StoreInv, InvStoring, WriteStored
<1> QED
  <2>1. slave.pc \in Serves => \/ Raise \/ SeekImage \/ Answer
                               \/ ReadByte \/ WriteByte \/ Outside \/ CopyFails \/ AddressMark
    BY <1>1 DEF Workhorse, At, Serves, Boot, Start, MountOk, MountFails, Insert, Enter, LoopEnds,
                NoCard, Sample, Acked, NopBusy, NopDone, Blink, Leave, Fail
  <2> QED  BY <1>5, <1>6, <1>7, <1>8, <1>9, <1>10, <1>11, <1>12, <2>1

-----------------------------------------------------------------------------
(* The theorems.                                                           *)

\* After reset nothing is under way.
LEMMA DataInit == Init => DataInv /\ StoreInv
BY DEF Init, WdReset, SlaveReset, DataInv, StoreInv, InvNamed, InvSent, InvFetching, InvNoticed,
       InvCollected, InvStoring, WriteStored, Reading, Writing

\* The hand at the slot, and no step at all.
LEMMA DataIdle ==
  ASSUME Slot \/ UNCHANGED vars
  PROVE  (DataInv => DataInv') /\ (StoreInv => StoreInv')
<1>1. /\ wd' = wd /\ status' = status /\ buf' = buf /\ slave' = slave /\ disk' = disk
      /\ asked' = asked /\ given' = given
  BY DEF Slot, vars
<1>2. Fetched => Fetched'
  BY <1>1, FetchedSame
<1>3. AskedLba' = AskedLba /\ Size' = Size /\ (AtAsked => AtAsked')
  BY <1>1 DEF AskedLba, Size, AtAsked
<1>4. DataInv => DataInv'
  BY <1>1, <1>2, <1>3 DEF DataInv, InvNamed, InvSent, InvFetching, InvNoticed
<1>5. StoreInv => StoreInv'
  BY <1>1, <1>3 DEF StoreInv, InvCollected, InvStoring, WriteStored
<1> QED  BY <1>4, <1>5

Base == TypeOK /\ NoUnderrun /\ (Patient => Handshake /\ DataInv) /\ (Meek => StoreInv)

\* All the invariants together are kept by every step.
LEMMA BaseStep == Base /\ [Next]_vars => Base'
<1> SUFFICES ASSUME Base, [Next]_vars PROVE Base'
  OBVIOUS
<1>1. TypeOK /\ NoUnderrun /\ TypeOK' /\ NoUnderrun'
  BY TypeStep DEF Base
<1>2. ASSUME Patient PROVE Handshake' /\ DataInv'
  <2>0. Handshake /\ DataInv  BY <1>2 DEF Base
  <2>1. Handshake'
    BY <1>1, <1>2, <2>0, HandshakeStep
  <2>2. CASE Clock
    <3>1. PICK op \in HostOps : Tick(op)  BY <2>2 DEF Clock
    <3> QED  BY <1>1, <1>2, <2>0, <2>1, <3>1, DataTick
  <2>3. CASE Serve
    BY <1>1, <2>0, <2>1, <2>3, DataServe
  <2>4. CASE Slot \/ UNCHANGED vars
    BY <2>0, <2>1, <2>4, DataIdle
  <2> QED  BY <2>2, <2>3, <2>4 DEF Next
<1>3. ASSUME Meek PROVE StoreInv'
  <2>0. Patient /\ Handshake /\ DataInv /\ StoreInv
    BY <1>3, MeekIsPatient DEF Base
  <2>1. CASE Clock
    <3>1. PICK op \in HostOps : Tick(op)  BY <2>1 DEF Clock
    <3>2. InvCollected'
      BY <1>1, <1>3, <2>0, <3>1, CollectTick DEF StoreInv
    <3>3. InvStoring'
      BY <1>1, <2>0, <3>1, StoringTick DEF StoreInv, DataInv
    <3> QED  BY <3>2, <3>3 DEF StoreInv
  <2>2. CASE Serve
    BY <1>1, <2>0, <2>2, StoreServe
  <2>3. CASE Slot \/ UNCHANGED vars
    BY <2>0, <2>3, DataIdle
  <2> QED  BY <2>1, <2>2, <2>3 DEF Next
<1> QED  BY <1>1, <1>2, <1>3 DEF Base, Patient, Meek

\* They hold in every behaviour.
LEMMA BaseCorrect == Spec => []Base
<1>1. Init => Base
  BY TypeInit, HandshakeInit, DataInit DEF Base
<1> QED  BY <1>1, BaseStep, PTL DEF Spec

\* Whatever the host does short of aborting and barging, the n-th byte that a READ
\* delivers is the n-th byte of the sector that the registers named when it was
\* taken, and drive 1 delivers none.
THEOREM ReadDeliversCorrect == Spec => [](Patient => ReadDelivers)
<1>1. Base => (Patient => ReadDelivers)
  <2> SUFFICES ASSUME Base, Patient, wd.state = "READSECT", asked.op = "READ", AskedLba \in Lbas
               PROVE  asked.drive = 0 /\ wd.datareg = disk[AskedLba][SectorSize - wd.len]
    BY DEF ReadDelivers
  <2>1. Fetched /\ wd.addr + wd.len = Size /\ wd.datareg = buf[wd.addr]
    BY DEF Base, DataInv, InvSent, Reading
  <2>2. wd.addr = SectorSize - wd.len
    <3>1. wd.addr \in Nat /\ wd.len \in Nat /\ SectorSize \in Nat
      BY WdFields, SectorSizeAssumption DEF Base, Addr
    <3> QED  BY <2>1, <3>1 DEF Size
  <2> QED  BY <2>1, <2>2 DEF Fetched
<1> QED  BY <1>1, BaseCorrect, PTL

\* With the same hosts READ ADDRESS tells the track, side and sector the registers
\* named when it was taken.
THEOREM AddressDeliveredCorrect == Spec => [](Patient => AddressDelivered)
<1>1. Base => (Patient => AddressDelivered)
  <2> SUFFICES ASSUME Base, Patient, wd.state = "READSECT", asked.op = "READADDR"
               PROVE  asked.drive = 0 /\ wd.datareg = Mark[AddrSize - wd.len + 1]
    BY DEF AddressDelivered, Mark
  <2>1. Fetched /\ wd.addr + wd.len = Size /\ wd.datareg = buf[wd.addr] /\ wd.len >= 1
    BY DEF Base, DataInv, InvSent, Reading, NoUnderrun
  <2>2. /\ wd.addr = AddrSize - wd.len /\ wd.addr \in 0 .. AddrSize - 1
        /\ wd.addr + 1 = AddrSize - wd.len + 1
    <3>1. wd.addr \in Nat /\ wd.len \in Nat /\ AddrSize \in Nat
      BY WdFields, AddrSizeAssumption DEF Base, Addr
    <3> QED  BY <2>1, <3>1 DEF Size
  <2> QED  BY <2>1, <2>2 DEF Fetched
<1> QED  BY <1>1, BaseCorrect, PTL

\* With the same hosts the verdict "card error" is not wiped off the port before the
\* controller has turned it into an error bit.
THEOREM FailureNoticedCorrect == Spec => [](Patient => FailureNoticed)
<1>1. Base => (Patient => FailureNoticed)
  <2> SUFFICES ASSUME Base, Patient, slave.pc = "LEAVE", "CRC" \in status
               PROVE  wd.crcErr \/ wd.wrFault
    BY DEF FailureNoticed
  <2>1. status \in Standing
    BY DEF Base, Handshake, InvStatus
  <2>2. "COMPLETE" \in status
    BY <2>1 DEF Standing
  <2>3. wd.state \in {"ENDCOMMAND", "ENDCOMMAND2"}
    BY <2>2 DEF Base, Handshake, InvSettling
  <2> QED  BY <2>3 DEF Base, DataInv, InvNoticed
<1> QED  BY <1>1, BaseCorrect, PTL

\* With a host that leaves the registers alone until a command has ended, a WRITE
\* that is about to be reported as done has stored what the host sent, in the
\* sector that the registers named when it was taken.
THEOREM WriteStoredCorrect == Spec => [](Meek => WriteStored)
<1>1. Base => (Meek => WriteStored)
  BY DEF Base, StoreInv, InvStoring
<1> QED  BY <1>1, BaseCorrect, PTL

\* With such a host nothing else on the card is changed.
THEOREM OnlyAskedSectorCorrect == Meek => (Spec => OnlyAskedSector)
<1> SUFFICES ASSUME Meek PROVE Spec => OnlyAskedSector
  OBVIOUS
<1>1. Base /\ [Next]_vars
        => [\A s \in Lbas : disk'[s] # disk[s] => asked.op = "WRITE" /\ s = AskedLba]_vars
  <2> SUFFICES ASSUME Base, Next, NEW s \in Lbas, disk'[s] # disk[s]
               PROVE  asked.op = "WRITE" /\ s = AskedLba
    OBVIOUS
  <2>1. WriteByte
    BY StoresKept DEF Next, Clock, Tick, Serve, Slot, ReadByte, AddressMark
  <2>2. TypeOK /\ Handshake /\ DataInv /\ StoreInv
    BY MeekIsPatient DEF Base
  <2> QED  BY <2>1, <2>2, WriteByteData DEF TypeOK
<1> QED  BY <1>1, BaseCorrect, PTL DEF Spec, OnlyAskedSector
=============================================================================
