SPECIFICATION Spec
CONSTANTS
  ByteMod = 2
  SectorSize = 2
  AddrSize = 2
  ReadTicks = 1
  DogTicks = 1
  PollTicks = 3
  NSectors = 1
  ImageSectors = 2
  Faults = {}
  HostCommands = {"READ","WRITE","SEEK","STEP"}
  HostData = {1}
  HostRegs = {}
  HostDrives = {0}
  HostSides = {0}
  HostMay = {"abort","barge"}
INVARIANTS
  StopsOnlyWhenDead
  NoUnderrun
