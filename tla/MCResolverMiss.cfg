\* A miss cached although a query of its lookup failed.
CONSTANTS
  staff = staff
  foreign = foreign
  everyone = everyone
  garbled = garbled
  ann = ann
  bob = bob
  NoAccount = NoAccount
  Unresolvable = Unresolvable
  NotCached = NotCached
  Nobody = Nobody
  SIDs <- FourSIDs
  WellKnown <- Everyone
  Unparseable <- Garbled
  InScope <- Enumerated
  Accounts <- TwoAccounts
  Holders <- SomeHolders
  Home <- TwoHomes
  Bases = 2
SPECIFICATION Spec
INVARIANT MissMeansNotFound
