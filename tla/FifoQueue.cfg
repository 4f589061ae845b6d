SPECIFICATION Spec
CONSTANTS
  Data = {a, b}
  Unknown = Unknown
  Size = 8
INVARIANTS
  FlagsCautious
PROPERTIES
  IsQueue
