\* Interrupts at every point of the run, and what fairness makes of it.
CONSTANTS
  user = user
  group = group
  d1 = d1
  d2 = d2
  d3 = d3
  same = same
  other = other
  Absent = Absent
  Unreadable = Unreadable
  Objects <- BothObjects
  Descriptors <- TwoDescriptors
  Meanings <- TwoMeanings
  Meaning <- MeaningOfTwo
  SearchBases <- OverlappingBases
  MaxWrites = 1
  MaxSignals = 2
SPECIFICATION FairSpec
INVARIANTS
  BoundedWorkAfterStop
  StopLeavesTheProcessKillable
  CleanEndLeavesNothingPending
PROPERTIES
  InterruptEndsTheRun
  QuietDirectoryIsReported
