\* Two captures of any scopes and accounts, compared.
CONSTANTS
  user = user
  group = group
  root = root
  unit = unit
  all = all
  users = users
  first = first
  second = second
  old = old
  new = new
  dacl1 = dacl1
  dacl2 = dacl2
  sacl1 = sacl1
  sacl2 = sacl2
  NoList = NoList
  Gone = Gone
  Nothing = Nothing
  EmptyFilter = EmptyFilter
  DefaultFilter = all
  BeforeFile = old
  AfterFile = new
  Objects <- SomeObjects
  Below <- Tree
  Filters <- SomeFilters
  Matching <- Matched
  Scopes <- SomeScopes
  Accounts <- SomeAccounts
  Contents <- SomeContents
  Captures <- TwoCaptures
  Names <- Paths
  Target <- Targets
  MaxWrites = 1
SPECIFICATION Spec
INVARIANTS
  TypeOK
  ChangesAreReal
  AppearancesAreWarnedOf
  NothingInScopeIsMissed
  SwappedFilesMirrorTheReport
