----------------------------- MODULE Comparison ------------------------------
(***************************************************************************)
(* What diffEntries of acls/diff.go may return of two lists, whichever     *)
(* entries it pairs: what a matching of equal keys leaves out, and the     *)
(* matched entries that differ.  AclDiff implements it loop by loop, and   *)
(* Descriptor relies on no more.                                           *)
(*                                                                         *)
(* An entry is an ACE and the position it is at, which stands for the      *)
(* pointer; a list is the set of its entries.                              *)
(***************************************************************************)

Gaps(before, after, m) ==
  [removed |-> before \ {p[1] : p \in m}, added |-> after \ {p[2] : p \in m},
   changed |-> {p \in m : p[1].ace # p[2].ace}]

OneToOne(m) == \A p, q \in m : p[1] = q[1] <=> p[2] = q[2]

(* An ACE is told as gone or as come, not as both, and no entry is told as *)
(* gone and another of its identity as come.                               *)
Told(c, n) ==
  {p[n].ace : p \in c.changed} \cup {p.ace : p \in IF n = 1 THEN c.removed ELSE c.added}
AsDiffEntriesLeaves(c) ==
  /\ Told(c, 1) \cap Told(c, 2) = {}
  /\ \A p \in c.removed, q \in c.added : p.ace.key # q.ace.key

MutantEntriesInPlace(before, after) ==
  {Gaps(before, after,
        {p \in before \X after : p[1].at = p[2].at /\ p[1].ace.key = p[2].ace.key})}

DiffEntries(before, after) ==
  LET Alike == {p \in before \X after : p[1].ace.key = p[2].ace.key}
  IN  {c \in {Gaps(before, after, m) : m \in {s \in SUBSET Alike : OneToOne(s)}} :
         AsDiffEntriesLeaves(c)}
=============================================================================
