SPECIFICATION FairSpec
CONSTANTS
  ByteMod = 3
  SectorSize = 2
  AddrSize = 2
  ReadTicks = 1
  DogTicks = 1
  PollTicks = 3
  NSectors = 1
  ImageSectors = 2
  Faults = {}
  HostCommands = {"READ"}
  HostData = {0}
  HostRegs = {}
  HostDrives = {0}
  HostSides = {0}
  HostMay = {"abort"}
PROPERTIES
  AbortEnds
