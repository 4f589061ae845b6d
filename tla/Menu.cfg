SPECIFICATION Spec
CONSTANTS
  few = few
  many = many
  Cards = {few, many}
  NoCard = NoCard
  NFiles <- MCNFiles
  NLines = 2
  ByteMod = 16
  Inactivity = 2
  Glitches = {1}
  Sticks <- MCSticks
  Faults = {"swap", "bad"}
INVARIANTS
  EndSeesAll
PROPERTIES
  PicksLit
  OncePerPress
  SelectorLeft
