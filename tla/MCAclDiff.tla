------------------------------ MODULE MCAclDiff ------------------------------
(* An instance of AclDiff for TLC: an explicit and an inherited identity,   *)
(* two of the masks over two rights, every list of up to three entries.     *)
EXTENDS AclDiff

CONSTANTS direct, fromParent, read, write

TwoKeys == {direct, fromParent}
FromParent == {fromParent}
TwoRights == {read, write}

Entry(k, m) == [key |-> k, mask |-> m]
DirectEntries == {Entry(direct, m) : m \in {{read}, {write}, {read, write}}}
ShortLists ==
  UNION {[1 .. n -> DirectEntries \cup {Entry(fromParent, {read})}] : n \in 0 .. 3}
=============================================================================
