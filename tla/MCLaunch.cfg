\* Every way to connect with every secret, delays about the limits, and every
\* mode.  A run ends.
CONSTANTS
  CommandLines <- Lines
  Second = 4
  HalfRange = 32
CHECK_DEADLOCK FALSE
SPECIFICATION Spec
INVARIANTS
  TypeOK
  BindsAsAsked
  TalksOnlyWhenAsked
  NoTightLoop
