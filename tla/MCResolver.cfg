\* Names asked for while accounts change and the connection comes and goes.
CONSTANTS
  staff = staff
  foreign = foreign
  everyone = everyone
  garbled = garbled
  ann = ann
  bob = bob
  NoAccount = NoAccount
  Unresolvable = Unresolvable
  NotCached = NotCached
  Nobody = Nobody
  SIDs <- FourSIDs
  WellKnown <- Everyone
  Unparseable <- Garbled
  InScope <- Enumerated
  Accounts <- TwoAccounts
  Holders <- SomeHolders
  Home <- TwoHomes
  Bases = 2
SPECIFICATION FairSpec
INVARIANTS
  TypeOK
  OneLookupPerSID
  AnswersFollowTheLastReading
  OneAnswerPerCycle
PROPERTIES
  LookupsEnd
