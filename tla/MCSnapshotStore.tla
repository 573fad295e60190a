--------------------------- MODULE MCSnapshotStore ---------------------------
(* An instance of SnapshotStore for TLC: two captures to one compressed     *)
(* path, among files that were there before.                                *)
EXTENDS SnapshotStore, TLC

CONSTANTS w1, w2, r1, plain, packed

Captures == {w1, w2}
OneReader == {r1}
Paths == {plain, packed}
Packed == {packed}
Targets == [w \in Captures |-> packed]

Header(json, fits, tool, format) ==
  [gzip |-> FALSE, json |-> json, fits |-> fits, tool |-> tool, format |-> format]

(* An older snapshot, one of a later format, and two documents of another   *)
(* tool, of which one happens to fit the fields of a snapshot.              *)
Found ==
  {Header(TRUE, TRUE, "own", "known"), Header(TRUE, TRUE, "own", "unknown"),
   Header(TRUE, TRUE, "other", "known"), Header(TRUE, FALSE, "other", "known")}
=============================================================================
