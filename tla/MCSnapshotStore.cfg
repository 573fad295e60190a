\* Captures that fail and are killed anywhere, under a reader and an operator.
CONSTANTS
  w1 = w1
  w2 = w2
  r1 = r1
  plain = plain
  packed = packed
  NoFile = NoFile
  Torn = Torn
  Writers <- Captures
  Readers <- OneReader
  Names <- Paths
  Target <- Targets
  GzipNames <- Packed
  Chunks = 2
  Others <- Found
SPECIFICATION Spec
INVARIANTS
  TypeOK
  ReadersGetWhatTheNameHeld
  LitterIsExplained
PROPERTIES
  ImplementsAtomicFiles
