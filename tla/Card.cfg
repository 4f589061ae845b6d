SPECIFICATION Spec
CONSTANTS
  mmc = mmc
  sd1 = sd1
  sd2 = sd2
  sdhc = sdhc
  Cards = {mmc, sd1, sd2, sdhc}
  NoCard = NoCard
  Kind <- MCKind
  NBlocks = 3
  BlockLen = 2
  AddrMod = 8
  Calls <- MCCalls
  WaitTime = 2
  TokenTime = 2
  InitTime = 3
  Faults = {"swap", "bad"}
INVARIANTS
  TypeMatches
  Delivers
  Stored
  Serves
  Heard
PROPERTIES
  CallsReturn
