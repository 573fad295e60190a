\* What --only-notable lets through.
CONSTANTS
  alice = alice
  bob = bob
  ours = ours
  theirs = theirs
  down = down
  all = all
  write = write
  read = read
  sync = sync
  protected = protected
  present = present
  garbled = garbled
  damaged = damaged
  NoSID = NoSID
  Absent = Absent
  Gone = Gone
  None = None
  Protected = protected
  Keys <- AllKeys
  TrusteeOf <- Trustees
  Inherited <- FromAbove
  Rights <- Bits
  GenericAll = all
  FullControlMask <- Everything
  Scoped <- FromAbove
  Notable <- Marked
  SIDs <- People
  Matched <- OnlyAlice
  ControlFlags <- Fields
  Descriptors <- SomeDescriptors
  Unreadable <- Bytes
SPECIFICATION Spec
INVARIANT OnlyNotableKeepsOnlyNotable
