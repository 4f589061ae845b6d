SPECIFICATION FairSpec
CONSTANTS
  ByteMod = 2
  SectorSize = 2
  AddrSize = 2
  ReadTicks = 1
  DogTicks = 1
  PollTicks = 3
  NSectors = 1
  ImageSectors = 2
  Faults = {"eject","menu"}
  HostCommands = {"RESTORE","STEPU","READ","WRITE","READADDR","TRACK"}
  HostData = {0}
  HostRegs = {}
  HostDrives = {0}
  HostSides = {0}
  HostMay = {"early"}
PROPERTIES
  CommandEnds
