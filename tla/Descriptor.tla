----------------------------- MODULE Descriptor ------------------------------
(***************************************************************************)
(* Two readings of one object: diffDescriptors of acls/diff.go, and what   *)
(* acls/filter.go leaves of the result and Rendering prints, cycle after   *)
(* cycle.                                                                  *)
(*                                                                         *)
(* An ACE is its identity key and its mask, as in AclDiff, and a pointer a *)
(* position in a list.  Comparison says what diffEntries may return of two *)
(* lists, and AclDiff that it does return that.                            *)
(***************************************************************************)
EXTENDS Integers, Sequences, FiniteSets, Rendering, Comparison

CONSTANTS
  TrusteeOf,    \* [Keys -> SIDs]: the trustee each names
  Inherited,    \* the keys whose flags say the ACE was inherited
  SIDs, NoSID,  \* owners, groups and trustees; a descriptor without one
  Matched,      \* the SIDs resolver.Matches the filter with
  ControlFlags, \* the bits of the control field
  Protected,    \* the one that breaks inheritance
  Absent,       \* no access control list at all
  Descriptors,  \* the readable descriptors: a bound on the inputs
  Unreadable,   \* bytes that do not unmarshal
  Gone          \* the object is in no reading

ACEs == [key : Keys, mask : SUBSET Rights]
Lists == Seq(ACEs) \cup {Absent}

ASSUME DescriptorsAssumption ==
  /\ TrusteeOf \in [Keys -> SIDs] /\ Inherited \subseteq Keys
  /\ Matched \subseteq SIDs /\ NoSID \notin SIDs /\ Protected \in ControlFlags
  /\ Absent # <<>> /\ Descriptors \cap Unreadable = {}
  /\ Gone \notin Descriptors \cup Unreadable
  /\ \A d \in Descriptors :
       /\ d.owner \in SIDs \cup {NoSID} /\ d.group \in SIDs \cup {NoSID}
       /\ d.control \in SUBSET ControlFlags
       /\ d.dacl \in Lists /\ d.sacl \in Lists

States == Descriptors \cup Unreadable \cup {Gone}

(* Change and ACLChanges of diff.go, with nil for None.                    *)
Entries == [at : Nat, ace : ACEs]
ACLChanges ==
  [presence : {"same", "removed", "added", "emptied"}, removed : SUBSET Entries,
   added : SUBSET Entries, changed : SUBSET (Entries \X Entries)]
Pairs(values) == {<<was, is>> : was \in values, is \in values}
Changes ==
  [kind : {"appeared", "disappeared", "changed"}, parseError : BOOLEAN,
   owner : Pairs(SIDs \cup {NoSID}) \cup {None}, group : Pairs(SIDs \cup {NoSID}) \cup {None},
   control : Pairs(SUBSET ControlFlags) \cup {None}, dacl : ACLChanges, sacl : ACLChanges]

ASSUME NoneAssumption ==
  /\ None \notin Pairs(SIDs \cup {NoSID}) \cup Pairs(SUBSET ControlFlags)
  /\ None \notin Changes

VARIABLES
  options,   \* DiffOptions and Reporting
  object,    \* what the directory holds
  previous,  \* what the last reading held
  shown,     \* the change the last cycle rendered
  known      \* history: what its reader can tell of the object

vars == <<options, object, previous, shown, known>>

Options == [ignoreInherited : BOOLEAN, includeSACL : BOOLEAN,
            onlyNotable : BOOLEAN, trustee : BOOLEAN]

-----------------------------------------------------------------------------
(* diff.go.  Definitions named Mutant... are wrong on purpose: with one in  *)
(* place of what follows it, a run must break a property.                  *)

(* selectEntries, over a list that may be nil.                             *)
Select(list) ==
  IF list = Absent THEN {}
  ELSE {[at |-> n, ace |-> list[n]] :
          n \in {k \in DOMAIN list : options.ignoreInherited => list[k].key \notin Inherited}}

(* describePresence: of the whole lists, whatever is ignored.              *)
Presence(was, is) ==
  CASE was # Absent /\ is = Absent -> "removed"
    [] was = Absent /\ is # Absent -> "added"
    [] was \notin {Absent, <<>>} /\ is = <<>> -> "emptied"
    [] OTHER -> "same"

NoACLChanges == [presence |-> "same", removed |-> {}, added |-> {}, changed |-> {}]

DiffACL(was, is) ==
  {[presence |-> Presence(was, is), removed |-> c.removed, added |-> c.added,
    changed |-> c.changed] : c \in DiffEntries(Select(was), Select(is))}

DiffValue(was, is) == IF was = is THEN None ELSE <<was, is>>

Whole(kind, parseError) ==
  [kind |-> kind, parseError |-> parseError, owner |-> None, group |-> None,
   control |-> None, dacl |-> NoACLChanges, sacl |-> NoACLChanges]

DiffDescriptors(was, is) ==
  IF {was, is} \cap Unreadable # {} THEN {Whole("changed", TRUE)}
  ELSE {[kind |-> "changed", parseError |-> FALSE,
         owner |-> DiffValue(was.owner, is.owner),
         group |-> DiffValue(was.group, is.group),
         control |-> DiffValue(was.control, is.control),
         dacl |-> dacl, sacl |-> sacl] :
          dacl \in DiffACL(was.dacl, is.dacl),
          sacl \in IF options.includeSACL THEN DiffACL(was.sacl, is.sacl)
                                          ELSE {NoACLChanges}}

HasDetail(change) ==
  \/ change.parseError
  \/ {change.owner, change.group, change.control} # {None}
  \/ {change.dacl, change.sacl} # {NoACLChanges}

(* Diff, as far as one object goes.                                        *)
Diff(was, is) ==
  IF was = is THEN {None}
  ELSE IF was = Gone THEN {Whole("appeared", FALSE)}
  ELSE IF is = Gone THEN {Whole("disappeared", FALSE)}
  ELSE {IF HasDetail(c) THEN c ELSE None : c \in DiffDescriptors(was, is)}

-----------------------------------------------------------------------------
(* filter.go.                                                              *)

HasNotable(key, mask) == IsNotable(key, DescribeMask(key, mask))

Matches(sid) == options.trustee => sid \in Matched

KeepsIdentity(change) ==
  IF change # None /\ (Matches(change[1]) \/ Matches(change[2])) THEN change ELSE None

KeepsEntry(ace) ==
  Matches(TrusteeOf[ace.key]) /\ (options.onlyNotable => HasNotable(ace.key, ace.mask))

MutantKeepsMaskChangeIfGranted(was, is) ==
  /\ Matches(TrusteeOf[is.key])
  /\ options.onlyNotable => HasNotable(is.key, is.mask \ was.mask)

(* Granted as the new entry reads, revoked as the old one does.            *)
KeepsMaskChange(was, is) ==
  /\ Matches(TrusteeOf[is.key])
  /\ options.onlyNotable =>
       \/ HasNotable(is.key, is.mask \ was.mask)
       \/ HasNotable(was.key, was.mask \ is.mask)

MutantFilterDropsAdded(acl) ==
  [acl EXCEPT !.added = {p \in @ : options.trustee /\ KeepsEntry(p.ace)}]

FilterACL(acl) ==
  [presence |-> IF options.trustee THEN "same" ELSE acl.presence,
   removed |-> {p \in acl.removed : KeepsEntry(p.ace)},
   added |-> {p \in acl.added : KeepsEntry(p.ace)},
   changed |-> {p \in acl.changed : KeepsMaskChange(p[1].ace, p[2].ace)}]

FilterChange(change) ==
  IF change.parseError THEN change
  ELSE [change EXCEPT !.owner = KeepsIdentity(@), !.group = KeepsIdentity(@),
                      !.control = IF options.trustee THEN None ELSE @,
                      !.dacl = FilterACL(@), !.sacl = FilterACL(@)]

IsActive == options.onlyNotable \/ options.trustee

MutantFilterKeepsEmptyChanges(change) ==
  IF change = None \/ ~IsActive \/ change.kind # "changed" THEN change
  ELSE FilterChange(change)

FilterChanges(change) ==
  IF change = None \/ ~IsActive \/ change.kind # "changed" THEN change
  ELSE IF HasDetail(FilterChange(change)) THEN FilterChange(change) ELSE None

-----------------------------------------------------------------------------
(* What a reader of the filtered reports is after: of each list, how many  *)
(* entries carry a right, and how many entries of a key there are unless   *)
(* only notable changes are shown.                                         *)

Visible ==
  {c \in Keys \X Rights :
     Matches(TrusteeOf[c[1]]) /\ (options.onlyNotable => c \in Notable)}

Counted == {key \in Keys : Matches(TrusteeOf[key]) /\ ~options.onlyNotable}

ListProfile(list) ==
  [present |-> list # Absent /\ ~options.trustee,
   entries |-> [key \in Counted |-> Cardinality({p \in Select(list) : p.ace.key = key})],
   rights |-> [c \in Visible |->
     Cardinality({p \in Select(list) :
                    p.ace.key = c[1] /\ c[2] \in Grants(p.ace.key, p.ace.mask)})]]

WhoIs(sid) == IF Matches(sid) THEN sid ELSE None

Profile(d) ==
  IF d \in Descriptors
  THEN [owner |-> WhoIs(d.owner), group |-> WhoIs(d.group),
        control |-> IF options.trustee THEN {} ELSE d.control,
        dacl |-> ListProfile(d.dacl),
        sacl |-> ListProfile(IF options.includeSACL THEN d.sacl ELSE Absent)]
  ELSE [is |-> d]

(* The reader applies the lines he is shown, and goes and looks at an      *)
(* object that appeared or could not be read, and for the rights a line    *)
(* says have moved though they stay, which nothing in it gives away.       *)
ApplyIdentity(lines, label, was) ==
  IF \E l \in lines : l.about = label
  THEN WhoIs((CHOOSE l \in lines : l.about = label).now) ELSE was

ApplyFlags(lines, was) ==
  LET Moved(how) == {l.flag : l \in {k \in lines : k.about = "control" /\ k.moved = how}}
  IN  (was \ Moved("cleared")) \cup Moved("set")

InDoubt(entries, c) ==
  \E l \in entries :
    /\ l.says = "changed" /\ l.key = c[1]
    /\ c[2] \in SaidToMove(l.key, l.at[1].ace.mask, l.at[2].ace.mask)

ApplyList(lines, list, was, now) ==
  LET entries == EntryLines(lines, list)
      Saying(says, key) == Cardinality({l \in entries : l.says = says /\ l.key = key})
      Granting(c) == Cardinality({l \in entries : l.key = c[1] /\ c[2] \in Means(l.granted)})
      Revoking(c) == Cardinality({l \in entries : l.key = c[1] /\ c[2] \in Means(l.revoked)})
  IN  [present |-> IF PresenceLines(lines, list) = {} THEN was.present
                   ELSE \A l \in PresenceLines(lines, list) : l.presence # "removed",
       entries |-> [key \in Counted |->
         was.entries[key] + Saying("added", key) - Saying("removed", key)],
       rights |-> [c \in Visible |->
         IF InDoubt(entries, c) THEN now.rights[c]
         ELSE was.rights[c] + Granting(c) - Revoking(c)]]

Apply(printed) ==
  LET lines == printed.details
  IN  IF printed.headline # "changed" \/ [about |-> "error"] \in lines THEN Profile(object)
      ELSE [owner |-> ApplyIdentity(lines, "Owner", known.owner),
            group |-> ApplyIdentity(lines, "Group", known.group),
            control |-> ApplyFlags(lines, known.control),
            dacl |-> ApplyList(lines, "DACL", known.dacl, Profile(object).dacl),
            sacl |-> ApplyList(lines, "SACL", known.sacl, Profile(object).sacl)]

-----------------------------------------------------------------------------
Init ==
  /\ options \in Options
  /\ object \in States
  /\ previous = object
  /\ shown = None
  /\ known = Profile(object)

(* Of several writes between two readings only the last one is seen.  That *)
(* a quiet cycle goes before is a bound: no cycle looks at what was shown. *)
WriteObject ==
  /\ object = previous
  /\ shown = None
  /\ object' \in States \ {object}
  /\ UNCHANGED <<options, previous, shown, known>>

(* One cycle: compare, filter, render, and the reading becomes the old one. *)
Cycle ==
  /\ \E change \in Diff(previous, object) :
       /\ shown' = FilterChanges(change)
       /\ known' = IF shown' = None THEN known ELSE Apply(Render(shown'))
  /\ previous' = object
  /\ UNCHANGED <<options, object>>

Next == WriteObject \/ Cycle

Spec == Init /\ [][Next]_vars

-----------------------------------------------------------------------------
(* Every variable stays in its type: no reader is told to take away what he *)
(* was never told of, and no count he keeps goes below zero.                *)
Profiles ==
  LET lists == [present : BOOLEAN, entries : [Counted -> Nat], rights : [Visible -> Nat]]
      who == SIDs \cup {NoSID, None}
  IN  [owner : who, group : who, control : SUBSET ControlFlags, dacl : lists, sacl : lists]

TypeOK ==
  /\ options \in Options
  /\ object \in States /\ previous \in States
  /\ shown \in Changes \cup {None}
  /\ known \in Profiles \cup [is : Unreadable \cup {Gone}]

(* Whatever the filters drop and the rendering sums up, cycle after cycle,  *)
(* nothing of what was asked for gets lost: a reader who adds the lines     *)
(* printed, full control being all the rights it stands for, to what he saw *)
(* first has the matching trustees, the rights of every identity and the    *)
(* presence of both lists as they were read last.  A dropped change may not *)
(* leave a later one without what it starts from.  The lines of a mask      *)
(* change are wrong about the rights of SaidToMove, and about no others.    *)
FilteredReportsAddUp == known = Profile(previous)

(* diff.go:131: a change without anything to show below the object line "is *)
(* not printed"; nor is an entry without a right that moved, and with       *)
(* --only-notable each entry has a notable one among its lines.            *)
NoHollowLines ==
  shown # None /\ shown.kind = "changed" =>
    /\ Details(shown) # {}
    /\ \A l \in EntryLines(Details(shown), "DACL") \cup EntryLines(Details(shown), "SACL") :
         /\ l.says = "changed" => l.granted \cup l.revoked # {}
         /\ options.onlyNotable => IsNotable(l.key, l.granted \cup l.revoked)

(* Nothing is shown of an object whose descriptor says the same as before,  *)
(* in whatever order: with the property above and no option set, "nothing   *)
(* to report" is the same as "same content", which Monitor relies on.      *)
Tally(list) ==
  [present |-> list # Absent,
   counts |-> IF list = Absent THEN <<>>
              ELSE [ace \in {list[n] : n \in DOMAIN list} |->
                      Cardinality({n \in DOMAIN list : list[n] = ace})]]
SameContent(c, d) ==
  /\ {c, d} \subseteq Descriptors
  /\ <<c.owner, c.group, c.control>> = <<d.owner, d.group, d.control>>
  /\ Tally(c.dacl) = Tally(d.dacl) /\ Tally(c.sacl) = Tally(d.sacl)
NothingShownOfTheSameContent ==
  [][shown' # None => ~SameContent(previous, object)]_vars

-----------------------------------------------------------------------------
(* filter.go:11: OnlyNotable "keeps only the changes that move one of the   *)
(* rights the interpretation table marks as notable, plus the ones that    *)
(* are notable in themselves: a new owner, and inheritance being broken".  *)
OnlyNotableKeepsOnlyNotable ==
  options.onlyNotable /\ shown # None =>
    /\ shown.group = None
    /\ shown.control # None => Protected \in shown.control[2] \ shown.control[1]
=============================================================================
