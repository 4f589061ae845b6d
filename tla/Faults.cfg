SPECIFICATION Spec
CONSTANTS
  ByteMod = 2
  SectorSize = 2
  AddrSize = 2
  ReadTicks = 1
  DogTicks = 1
  PollTicks = 3
  NSectors = 1
  ImageSectors = 2
  Faults = {"eject","error","menu","stack"}
  HostCommands = {"RESTORE","STEP","READ","WRITE","READADDR"}
  HostData = {0}
  HostRegs <- MCSector1
  HostDrives = {0}
  HostSides = {0}
  HostMay = {"early"}
INVARIANTS
  TypeOK
  Handshake
  FailureNoticed
  NotDead
  AddressDelivered
