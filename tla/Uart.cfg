SPECIFICATION FairSpec
CONSTANTS
  Data = {a, b}
  Unknown = Unknown
  Size = 4
  MaxBytes = 6
INVARIANTS
  SentOnce
PROPERTIES
  AllButOneSent
