\* Every comparison of two lists of up to three entries.
CONSTANTS
  direct = direct
  fromParent = fromParent
  read = read
  write = write
  Keys <- TwoKeys
  Inherited <- FromParent
  Rights <- TwoRights
  Lists <- ShortLists
SPECIFICATION Spec
INVARIANTS
  TypeOK
  ReportExplainsTheNewList
  NothingBothGoneAndCome
  EveryMaskChangeMovesARight
  EveryEntryToldOnce
  ReportIsOfAMatching
