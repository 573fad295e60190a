--------------------------- MODULE MCOfflineDiff -----------------------------
(* An instance of OfflineDiff for TLC: a subtree and a unit below it, and    *)
(* two captures, the second to the newer file.                              *)
EXTENDS OfflineDiff

CONSTANTS user, group, root, unit, all, users, first, second, old, new,
          dacl1, dacl2, sacl1, sacl2

SomeObjects == {user, group}
Tree == [b \in {root, unit} |-> IF b = root THEN {user, group} ELSE {user}]
SomeFilters == {EmptyFilter, all, users}
Matched == [f \in SomeFilters |->
  CASE f = EmptyFilter -> {} [] f = all -> SomeObjects [] f = users -> {user}]

Scope(bases, filter, sacl) ==
  [searchBases |-> bases, ldapFilter |-> filter, includeSACL |-> sacl]
SomeScopes ==
  {Scope(<<root>>, EmptyFilter, FALSE), Scope(<<root>>, all, TRUE),
   Scope(<<unit>>, all, FALSE), Scope(<<root>>, users, FALSE),
   Scope(<<unit, root>>, EmptyFilter, TRUE), Scope(<<root, unit>>, all, TRUE)}
SomeAccounts ==
  {[blind |-> {}, privileged |-> TRUE], [blind |-> {group}, privileged |-> FALSE]}
SomeContents ==
  {[dacl |-> dacl1, sacl |-> sacl1], [dacl |-> dacl2, sacl |-> sacl1],
   [dacl |-> dacl1, sacl |-> NoList]}

TwoCaptures == {first, second}
Paths == {old, new}
Targets == [c \in TwoCaptures |-> IF c = first THEN old ELSE new]
=============================================================================
