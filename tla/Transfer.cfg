SPECIFICATION Spec
CONSTANTS
  ByteMod = 3
  SectorSize = 2
  AddrSize = 2
  ReadTicks = 1
  DogTicks = 1
  PollTicks = 3
  NSectors = 1
  ImageSectors = 2
  Faults = {}
  HostCommands = {"RESTORE","READ","WRITE"}
  HostData = {0,2}
  HostRegs <- MCSectors
  HostDrives = {0}
  HostSides = {0,1}
  HostMay = {}
INVARIANTS
  ServesCurrent
  ReadDelivers
  WriteStored
PROPERTIES
  OnlyAskedSector
