\* An object whose descriptor stops being readable.
CONSTANTS
  user = user
  group = group
  d1 = d1
  d2 = d2
  d3 = d3
  same = same
  other = other
  Absent = Absent
  Unreadable = Unreadable
  Objects <- BothObjects
  Descriptors <- TwoDescriptors
  Meanings <- TwoMeanings
  Meaning <- MeaningOfTwo
  SearchBases <- OneBase
  MaxWrites = 1
  MaxSignals = 2
SPECIFICATION Spec
INVARIANT OnlyGoneObjectsDisappear
