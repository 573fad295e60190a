----------------------------- MODULE Rendering -------------------------------
(***************************************************************************)
(* What is printed of a change: Details of acls/render.go, and the reading *)
(* of access masks it rests on, DescribeMask of acls/interpret.go.         *)
(*                                                                         *)
(* A description is the right it is about: the texts of one table differ,  *)
(* and an unrecognized bit is a right like the others.  Full control alone *)
(* is a description that stands for several.  A line is a record of what   *)
(* it says; the directory's timestamp and the SDDL add lines that say      *)
(* nothing of what moved.                                                  *)
(***************************************************************************)
CONSTANTS
  Keys,            \* identity keys of ACEs
  Scoped,          \* the keys that name an object type
  Rights,          \* the bits of an access mask
  GenericAll,      \* RIGHT_GENERIC_ALL
  FullControlMask, \* fullControlMask
  Notable,         \* the pairs of a key and a right that the tables mark
  None             \* the nil pointer

FullControl == "Full control over the object"

ASSUME RightsAssumption ==
  /\ FullControl \notin Rights
  /\ Scoped \subseteq Keys /\ Notable \subseteq Keys \X Rights
  /\ GenericAll \in Rights /\ FullControlMask \subseteq Rights \ {GenericAll}
  /\ \A key \in Keys \ Scoped : \E r \in FullControlMask : <<key, r>> \in Notable

-----------------------------------------------------------------------------
(* interpret.go.  Definitions named Mutant... are wrong on purpose: with    *)
(* one in place of what follows it, a run must break a property.           *)

IsFullControl(key, mask) ==
  key \notin Scoped /\ (GenericAll \in mask \/ FullControlMask \subseteq mask)

(* The rest of the mask is forgotten.                                      *)
MutantDescribeFullControlOnly(key, mask) ==
  IF IsFullControl(key, mask) THEN {FullControl} ELSE mask

DescribeMask(key, mask) ==
  IF IsFullControl(key, mask)
  THEN {FullControl} \cup (mask \ (FullControlMask \cup {GenericAll}))
  ELSE mask

IsNotable(key, descriptions) ==
  \E d \in descriptions : d = FullControl \/ <<key, d>> \in Notable

-----------------------------------------------------------------------------
(* render.go.                                                              *)

(* Set when there was none, removed when there is none, else changed.      *)
DescribeIdentityChange(label, change) ==
  IF change = None THEN {} ELSE {[about |-> label, was |-> change[1], now |-> change[2]]}

DescribeFlagsChange(change) ==
  IF change = None THEN {}
  ELSE {[about |-> "control", flag |-> f, moved |-> "set"] : f \in change[2] \ change[1]}
    \cup {[about |-> "control", flag |-> f, moved |-> "cleared"] : f \in change[1] \ change[2]}

(* A whole entry: every right it carries goes the way the entry goes.      *)
DescribeWholeAce(list, says, p) ==
  LET rights == DescribeMask(p.ace.key, p.ace.mask)
  IN  [about |-> list, says |-> says, at |-> <<p>>, key |-> p.ace.key,
       granted |-> IF says = "added" THEN rights ELSE {},
       revoked |-> IF says = "removed" THEN rights ELSE {}]

DescribeMaskChange(list, was, is) ==
  [about |-> list, says |-> "changed", at |-> <<was, is>>, key |-> is.ace.key,
   granted |-> DescribeMask(is.ace.key, is.ace.mask \ was.ace.mask),
   revoked |-> DescribeMask(was.ace.key, was.ace.mask \ is.ace.mask)]

DescribeACLChanges(list, acl) ==
  {[about |-> list, presence |-> p] : p \in {acl.presence} \ {"same"}}
  \cup {DescribeWholeAce(list, "added", p) : p \in acl.added}
  \cup {DescribeMaskChange(list, p[1], p[2]) : p \in acl.changed}
  \cup {DescribeWholeAce(list, "removed", p) : p \in acl.removed}

Details(change) ==
  IF change.parseError THEN {[about |-> "error"]}
  ELSE DescribeIdentityChange("Owner", change.owner)
    \cup DescribeIdentityChange("Group", change.group)
    \cup DescribeFlagsChange(change.control)
    \cup DescribeACLChanges("DACL", change.dacl)
    \cup DescribeACLChanges("SACL", change.sacl)

(* Render: the headline, and the details of what changed.                  *)
Render(change) ==
  [headline |-> change.kind,
   details |-> IF change.kind = "changed" THEN Details(change) ELSE {}]

-----------------------------------------------------------------------------
(* What the lines mean to who reads them, and what is there to be known.   *)

Means(descriptions) ==
  UNION {IF d = FullControl THEN FullControlMask ELSE {d} : d \in descriptions}

Grants(key, mask) ==
  IF key \notin Scoped /\ GenericAll \in mask
  THEN FullControlMask \cup (mask \ {GenericAll}) ELSE mask

(* The rights a mask grants under both names: its own bit and GENERIC_ALL.  *)
GrantedTwice(key, mask) ==
  IF key \notin Scoped /\ GenericAll \in mask THEN mask \cap FullControlMask ELSE {}

(* The rights that the line of a mask change says have moved though they    *)
(* stay: one of their two names came or went, and the line, made of the     *)
(* bits that moved, does not tell it from the right.                       *)
SaidToMove(key, was, is) ==
  LET twiceBefore == GrantedTwice(key, was)
      twiceNow == GrantedTwice(key, is)
  IN  Grants(key, was) \cap Grants(key, is) \cap
        ((twiceBefore \ twiceNow) \cup (twiceNow \ twiceBefore))

EntryLines(lines, list) == {l \in lines : l.about = list /\ "key" \in DOMAIN l}
PresenceLines(lines, list) == {l \in lines : l.about = list /\ "presence" \in DOMAIN l}
=============================================================================
