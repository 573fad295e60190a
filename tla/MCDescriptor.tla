---------------------------- MODULE MCDescriptor -----------------------------
(* An instance of Descriptor for TLC: lists of up to two entries, of a       *)
(* trustee the filter matches and one it does not, one of them inherited    *)
(* and for one attribute only.  Two rights make up full control, which a     *)
(* mask may hold under either of its names, or under both in part.          *)
EXTENDS Descriptor

CONSTANTS alice, bob, ours, theirs, down, all, write, read, sync, protected, present,
          garbled, damaged

People == {alice, bob}
OnlyAlice == {alice}
AllKeys == {ours, theirs, down}
Trustees == [k \in AllKeys |-> IF k = theirs THEN bob ELSE alice]
FromAbove == {down}
Bits == {all, write, read, sync}
Everything == {write, read}
Marked == AllKeys \X {write}
Fields == {protected, present}
Bytes == {garbled, damaged}

Ace(key, mask) == [key |-> key, mask |-> mask]
SomeACEs ==
  {Ace(ours, mask) : mask \in {{write}, {read}, {write, read}, {all}, {all, sync}, {all, write}}}
  \cup {Ace(theirs, {write}), Ace(down, {write, read}), Ace(down, {all})}
ShortLists == UNION {[1 .. n -> SomeACEs] : n \in 0 .. 2} \cup {Absent}

Base == [owner |-> alice, group |-> bob, control |-> {present},
         dacl |-> <<>>, sacl |-> Absent]
SomeDescriptors ==
  {[Base EXCEPT !.dacl = list] : list \in ShortLists}
  \cup {[Base EXCEPT !.sacl = list] : list \in {<<>>, <<Ace(ours, {read})>>, <<Ace(down, {write})>>}}
  \cup {[Base EXCEPT !.owner = o, !.group = g, !.control = c] :
          o \in {alice, bob, NoSID}, g \in {alice, bob}, c \in {{present}, {}, Fields}}
=============================================================================
