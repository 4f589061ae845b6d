SPECIFICATION Spec
CONSTANTS
  SectorSize = 2
  PerSector = 4
  NameLen = 2
  ExtLen = 1
  Fat12Max = 8
  OffsetMod = 64
  IdMod = 2
  NSectors = 1
  part12 = part12
  plain16 = plain16
  blank = blank
  NoCard = NoCard
  NoImage = NoImage
  NoRequest = NoRequest
  Cards = {part12, plain16, blank}
  Volume <- MCVolume
  Files <- MCFiles
  DirName <- MCDirName
  NoName <- MCNoName
  Odd <- MCOdd
  Requests <- MCRequests
  HostBlock <- MCHostBlock
  Faults = {"swap","bad","browse"}
INVARIANTS
  WindowTrue
  FilCoherent
  OpenListed
  ListsAll
PROPERTIES
  OnlyOwnSectors
  IsDrive
  EventuallyServes
