SPECIFICATION Spec
CONSTANTS
  ByteMod = 256
  Cells = 2
  CpuSpace <- MCCpuSpace
  PpuSpace <- MCPpuSpace
  PpuCtrl = 8192
  PpuMask = 8193
  RegSels = {0, 1}
  LinkFaults = {"stick"}
  InitString <- MCString
  Strings <- MCStrings
  Addrs = {0}
  Counts = {0, 3}
  Sels = {0}
  Programs <- MCPrograms
  Roms <- MCRoms
  Texts <- MCTexts
  PrgBank = 4
  ChrBank = 2
  Block = 2
  RomBase = 32768
  MaxDown = 0
  MaxScripts = 1
  Builds = {"debug", "release"}
  HostFaults = {"late", "cut"}
  MaxUpset = 1
INVARIANTS
  InStep
PROPERTIES
  HaltSeen
  RomRuns
  CallsReturn
