SPECIFICATION Spec
CHECK_DEADLOCK FALSE
CONSTANTS
  SectorSize = 4
  PerSector = 4
  Units = 2
  SectsClust = 2
  SectsFat = 3
  NFats = 2
  RootSects = 1
  MaxClust = 6
  Faults = {"cut"}
  Paths <- MCPaths
  Dirs <- MCDirs
  Renames <- MCRenames
  Modes = {"write","always","create","new"}
  Lengths = {1, 5}
  Offsets = {0, 5}
  MaxSize = 6
  MaxCalls = 5
  Cuts = 1
  Volumes <- MCVolumes
INVARIANTS
  Consistent
  Kept
  Accounted
