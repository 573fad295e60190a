\* Readings, failures and reports: every interleaving with the directory and
\* the connection, over two overlapping search bases.  No interrupt is sent.
CONSTANTS
  user = user
  group = group
  d1 = d1
  d2 = d2
  d3 = d3
  same = same
  other = other
  Absent = Absent
  Unreadable = Unreadable
  Objects <- BothObjects
  Descriptors <- ThreeDescriptors
  Meanings <- TwoMeanings
  Meaning <- MeaningOfThree
  SearchBases <- OverlappingBases
  MaxWrites = 2
  MaxSignals = 0
SYMMETRY Serializations
SPECIFICATION Spec
INVARIANTS
  TypeOK
  NothingLostNothingInvented
  ReadingIsOfItsOwnTime
PROPERTIES
  EveryReportIsNews
  FailedReadingsLeaveNoTrace
  ImplementsChangeFeed
