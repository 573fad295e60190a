--------------------------- MODULE DescriptorProofs ---------------------------
(***************************************************************************)
(* Theorems about Descriptor, for lists of every length over every set of  *)
(* identities, trustees and rights, and under every option.                *)
(***************************************************************************)
EXTENDS Descriptor, FiniteSetTheorems, TLAPS

-----------------------------------------------------------------------------
(* Lemmas about rights and what is said of them.                           *)

(* What is printed of a mask means what the mask grants.                   *)
LEMMA DescribedInFull ==
  ASSUME NEW key, NEW mask \in SUBSET Rights
  PROVE  Means(DescribeMask(key, mask)) = Grants(key, mask)
<1>1. FullControl \notin mask
  BY RightsAssumption
<1>2. CASE IsFullControl(key, mask)
  <2>1. DescribeMask(key, mask) = {FullControl} \cup (mask \ (FullControlMask \cup {GenericAll}))
    BY <1>2 DEF DescribeMask
  <2>2. Means(DescribeMask(key, mask)) = FullControlMask \cup (mask \ (FullControlMask \cup {GenericAll}))
    BY <1>1, <2>1 DEF Means
  <2>3. CASE GenericAll \in mask
    BY <1>2, <2>2, <2>3, RightsAssumption DEF IsFullControl, Grants
  <2>4. CASE GenericAll \notin mask
    BY <1>2, <2>2, <2>4 DEF IsFullControl, Grants
  <2> QED
    BY <2>3, <2>4
<1>3. CASE ~IsFullControl(key, mask)
  <2>1. DescribeMask(key, mask) = mask
    BY <1>3 DEF DescribeMask
  <2>2. Means(mask) = mask
    BY <1>1 DEF Means
  <2>3. Grants(key, mask) = mask
    BY <1>3 DEF IsFullControl, Grants
  <2> QED
    BY <2>1, <2>2, <2>3
<1> QED
  BY <1>2, <1>3

(* Nothing is granted by no right, and something is said of any.           *)
LEMMA NothingGranted == \A key : Grants(key, {}) = {} /\ Means({}) = {}
BY DEF Grants, Means

LEMMA SomethingSaid == \A key, mask : mask # {} => DescribeMask(key, mask) # {}
BY DEF DescribeMask

(* A notable right that a mask grants is among what is printed of it, or   *)
(* covered by full control, which is notable.                              *)
LEMMA NotableIsSaid ==
  ASSUME NEW key, NEW mask \in SUBSET Rights, NEW r \in Grants(key, mask),
         <<key, r>> \in Notable
  PROVE  HasNotable(key, mask)
<1>1. r \in Means(DescribeMask(key, mask))
  BY DescribedInFull
<1>2. PICK d \in DescribeMask(key, mask) :
        r \in IF d = FullControl THEN FullControlMask ELSE {d}
  BY <1>1 DEF Means
<1>3. d = FullControl \/ <<key, d>> \in Notable
  BY <1>2
<1> QED
  BY <1>2, <1>3 DEF HasNotable, IsNotable

(* A right that the bits set and the bits cleared of a mask give and take   *)
(* otherwise than it came and went is one SaidToMove names.  Either name   *)
(* of a right grants it, and what moved of a mask is what moved of each.   *)
Moves(key, was, is, r) ==
  /\ r \in Grants(key, is) /\ r \notin Grants(key, was)
       <=> r \in Grants(key, is \ was) /\ r \notin Grants(key, was \ is)
  /\ r \in Grants(key, was) /\ r \notin Grants(key, is)
       <=> r \in Grants(key, was \ is) /\ r \notin Grants(key, is \ was)

LEMMA EitherName ==
  ASSUME NEW key, NEW mask \in SUBSET Rights, NEW r
  PROVE  /\ key \in Scoped => r \in Grants(key, mask) <=> r \in mask
         /\ key \notin Scoped /\ r \in FullControlMask =>
              r \in Grants(key, mask) <=> r \in mask \/ GenericAll \in mask
         /\ key \notin Scoped /\ r \notin FullControlMask =>
              r \in Grants(key, mask) <=> r \in mask /\ r # GenericAll
         /\ r \in GrantedTwice(key, mask) <=>
              key \notin Scoped /\ r \in FullControlMask /\ r \in mask /\ GenericAll \in mask
<1>1. r \in FullControlMask => r # GenericAll
  BY RightsAssumption
<1> QED
  BY <1>1 DEF Grants, GrantedTwice

LEMMA MovedRights ==
  ASSUME NEW key, NEW was \in SUBSET Rights, NEW is \in SUBSET Rights, NEW r
  PROVE  r \notin SaidToMove(key, was, is) <=> Moves(key, was, is, r)
<1> DEFINE set == is \ was
           cleared == was \ is
<1>1. set \in SUBSET Rights /\ cleared \in SUBSET Rights
  OBVIOUS
<1>2. /\ r \in set <=> r \in is /\ r \notin was
      /\ r \in cleared <=> r \in was /\ r \notin is
      /\ GenericAll \in set <=> GenericAll \in is /\ GenericAll \notin was
      /\ GenericAll \in cleared <=> GenericAll \in was /\ GenericAll \notin is
  OBVIOUS
<1>3. r \in SaidToMove(key, was, is) <=>
        /\ r \in Grants(key, was) /\ r \in Grants(key, is)
        /\ ~(r \in GrantedTwice(key, was) <=> r \in GrantedTwice(key, is))
  BY DEF SaidToMove
<1> HIDE DEF set, cleared
<1>4. CASE key \in Scoped
  <2>1. r \notin GrantedTwice(key, was) /\ r \notin GrantedTwice(key, is)
    BY <1>4, EitherName
  <2>2. /\ r \in Grants(key, was) <=> r \in was
        /\ r \in Grants(key, is) <=> r \in is
        /\ r \in Grants(key, set) <=> r \in set
        /\ r \in Grants(key, cleared) <=> r \in cleared
    BY <1>1, <1>4, EitherName
  <2> QED
    BY <1>2, <1>3, <2>1, <2>2 DEF Moves, set, cleared
<1>5. CASE key \notin Scoped /\ r \notin FullControlMask
  <2>1. r \notin GrantedTwice(key, was) /\ r \notin GrantedTwice(key, is)
    BY <1>5, EitherName
  <2>2. /\ r \in Grants(key, was) <=> r \in was /\ r # GenericAll
        /\ r \in Grants(key, is) <=> r \in is /\ r # GenericAll
        /\ r \in Grants(key, set) <=> r \in set /\ r # GenericAll
        /\ r \in Grants(key, cleared) <=> r \in cleared /\ r # GenericAll
    BY <1>1, <1>5, EitherName
  <2> QED
    BY <1>2, <1>3, <2>1, <2>2 DEF Moves, set, cleared
<1>6. CASE key \notin Scoped /\ r \in FullControlMask
  <2>1. /\ r \in GrantedTwice(key, was) <=> r \in was /\ GenericAll \in was
        /\ r \in GrantedTwice(key, is) <=> r \in is /\ GenericAll \in is
    BY <1>6, EitherName
  <2>2. /\ r \in Grants(key, was) <=> r \in was \/ GenericAll \in was
        /\ r \in Grants(key, is) <=> r \in is \/ GenericAll \in is
        /\ r \in Grants(key, set) <=> r \in set \/ GenericAll \in set
        /\ r \in Grants(key, cleared) <=> r \in cleared \/ GenericAll \in cleared
    BY <1>1, <1>6, EitherName
  <2> QED
    BY <1>2, <1>3, <2>1, <2>2 DEF Moves, set, cleared
<1> QED
  BY <1>4, <1>5, <1>6

(* For any two masks of an entry, whichever names of full control they use: *)
(* what the lines of the change say was granted and revoked, taken          *)
(* together, is what came and what went, but for the rights of SaidToMove, *)
(* and of those it never is.                                               *)
THEOREM LinesTellWhatMoved ==
  ASSUME NEW key, NEW was \in SUBSET Rights, NEW is \in SUBSET Rights, NEW r
  PROVE  LET granted == Means(DescribeMask(key, is \ was))
             revoked == Means(DescribeMask(key, was \ is))
         IN  r \notin SaidToMove(key, was, is) <=>
               /\ r \in Grants(key, is) \ Grants(key, was) <=> r \in granted \ revoked
               /\ r \in Grants(key, was) \ Grants(key, is) <=> r \in revoked \ granted
<1>1. /\ Means(DescribeMask(key, is \ was)) = Grants(key, is \ was)
      /\ Means(DescribeMask(key, was \ is)) = Grants(key, was \ is)
  BY DescribedInFull
<1>2. r \notin SaidToMove(key, was, is) <=> Moves(key, was, is, r)
  BY MovedRights
<1> QED
  BY <1>1, <1>2 DEF Moves

-----------------------------------------------------------------------------
(* Lemmas about counting.                                                  *)

(* A set counts as much as its image under a function that keeps its       *)
(* elements apart.                                                         *)
LEMMA CountImage ==
  ASSUME NEW S, IsFiniteSet(S), NEW f, f = [x \in S |-> f[x]],
         \A x, y \in S : f[x] = f[y] => x = y
  PROVE  IsFiniteSet({f[x] : x \in S}) /\ Cardinality({f[x] : x \in S}) = Cardinality(S)
<1> DEFINE T == {f[x] : x \in S}
<1>1. f \in [S -> T]
  OBVIOUS
<1>2. f \in Bijection(S, T)
  BY <1>1 DEF Bijection, Injection, Surjection, IsInjective
<1>3. ExistsBijection(S, T)
  BY <1>2 DEF ExistsBijection
<1> HIDE DEF T
<1>4. IsFiniteSet(T) /\ Cardinality(T) = Cardinality(S)
  BY <1>3, FS_Bijection
<1> QED
  BY <1>4 DEF T

(* A set is counted in two parts.                                          *)
LEMMA CountParts ==
  ASSUME NEW S, NEW T, IsFiniteSet(S)
  PROVE  /\ Cardinality(S) \in Nat
         /\ Cardinality(S \cap T) \in Nat /\ Cardinality(S \ T) \in Nat
         /\ Cardinality(S) = Cardinality(S \cap T) + Cardinality(S \ T)
<1>1. IsFiniteSet(S \cap T) /\ IsFiniteSet(S \ T)
  BY FS_Intersection, FS_Difference
<1>2. /\ Cardinality(S) \in Nat /\ Cardinality(S \cap T) \in Nat
      /\ Cardinality(S \ T) \in Nat
  BY <1>1, FS_CardinalityType
<1>3. Cardinality(S \ T) = Cardinality(S) - Cardinality(S \cap T)
  BY FS_Difference
<1> QED
  BY <1>2, <1>3

LEMMA CountBoth ==
  ASSUME NEW S, NEW T, IsFiniteSet(S), IsFiniteSet(T), S \cap T = {}
  PROVE  /\ IsFiniteSet(S \cup T)
         /\ Cardinality(S) \in Nat /\ Cardinality(T) \in Nat
         /\ Cardinality(S \cup T) = Cardinality(S) + Cardinality(T)
<1>1. Cardinality(S) \in Nat /\ Cardinality(T) \in Nat
  BY FS_CardinalityType
<1>2. Cardinality(S \cap T) = 0
  BY FS_EmptySet
<1>3. /\ IsFiniteSet(S \cup T)
      /\ Cardinality(S \cup T) = Cardinality(S) + Cardinality(T) - Cardinality(S \cap T)
  BY FS_Union
<1> QED
  BY <1>1, <1>2, <1>3

(* Two sets whose differences are those of two others differ by as much.   *)
LEMMA SameDifference ==
  ASSUME NEW S, NEW T, NEW U, NEW V,
         IsFiniteSet(S), IsFiniteSet(T), IsFiniteSet(U), IsFiniteSet(V),
         S \ T = U \ V, T \ S = V \ U
  PROVE  /\ Cardinality(S) \in Nat /\ Cardinality(T) \in Nat
         /\ Cardinality(U) \in Nat /\ Cardinality(V) \in Nat
         /\ Cardinality(S) + Cardinality(V) = Cardinality(T) + Cardinality(U)
<1>1. S \cap T = T \cap S /\ U \cap V = V \cap U
  OBVIOUS
<1>2. /\ Cardinality(S) \in Nat /\ Cardinality(S \cap T) \in Nat /\ Cardinality(S \ T) \in Nat
      /\ Cardinality(S) = Cardinality(S \cap T) + Cardinality(S \ T)
  BY CountParts
<1>3. /\ Cardinality(T) \in Nat /\ Cardinality(T \ S) \in Nat
      /\ Cardinality(T) = Cardinality(S \cap T) + Cardinality(T \ S)
  BY <1>1, CountParts
<1>4. /\ Cardinality(U) \in Nat /\ Cardinality(U \cap V) \in Nat
      /\ Cardinality(U) = Cardinality(U \cap V) + Cardinality(S \ T)
  <2>1. /\ Cardinality(U) \in Nat /\ Cardinality(U \cap V) \in Nat
        /\ Cardinality(U) = Cardinality(U \cap V) + Cardinality(U \ V)
    BY CountParts
  <2> QED
    BY <2>1
<1>5. /\ Cardinality(V) \in Nat
      /\ Cardinality(V) = Cardinality(U \cap V) + Cardinality(T \ S)
  <2>1. /\ Cardinality(V) \in Nat
        /\ Cardinality(V) = Cardinality(V \cap U) + Cardinality(V \ U)
    BY CountParts
  <2> QED
    BY <1>1, <2>1
<1> QED
  BY <1>2, <1>3, <1>4, <1>5

-----------------------------------------------------------------------------
(* Lemmas about the entries of two lists and their matchings.              *)

(* What is selected from a list is finitely many entries.                  *)
LEMMA SelectType ==
  ASSUME NEW list \in Lists
  PROVE  IsFiniteSet(Select(list)) /\ Select(list) \in SUBSET Entries
<1>1. CASE list = Absent
  BY <1>1, FS_EmptySet DEF Select
<1>2. CASE list # Absent
  <2> DEFINE kept == {k \in DOMAIN list : options.ignoreInherited => list[k].key \notin Inherited}
             f == [n \in kept |-> [at |-> n, ace |-> list[n]]]
  <2>1. list \in Seq(ACEs)
    BY <1>2 DEF Lists
  <2>2. Len(list) \in Nat /\ DOMAIN list = 1 .. Len(list) /\ \A n \in 1 .. Len(list) : list[n] \in ACEs
    BY <2>1
  <2>3. IsFiniteSet(1 .. Len(list))
    BY <2>2, FS_Interval
  <2>4. IsFiniteSet(kept)
    BY <2>2, <2>3, FS_Subset
  <2>5. \A x, y \in kept : f[x] = f[y] => x = y
    OBVIOUS
  <2>6. Select(list) = {f[n] : n \in kept}
    BY <1>2 DEF Select
  <2>7. Select(list) \in SUBSET Entries
    <3>1. \A n \in kept : n \in Nat /\ list[n] \in ACEs
      BY <2>2
    <3>2. \A n \in kept : [at |-> n, ace |-> list[n]] \in Entries
      BY <3>1 DEF Entries
    <3>3. \A n \in kept : f[n] = [at |-> n, ace |-> list[n]]
      OBVIOUS
    <3> HIDE DEF f
    <3> QED
      BY <2>6, <3>2, <3>3
  <2>8. f = [n \in kept |-> f[n]]
    OBVIOUS
  <2> HIDE DEF kept, f
  <2> QED
    BY <2>4, <2>5, <2>6, <2>7, <2>8, CountImage
<1> QED
  BY <1>1, <1>2

(* A matching of two finite sets, and what is matched on either side.      *)
Matching(before, after, m) == m \in SUBSET (before \X after) /\ OneToOne(m)
Firsts(m) == {p[1] : p \in m}
Seconds(m) == {p[2] : p \in m}
FirstIn(m, Q) == {p \in m : p[1] \in Q}
SecondIn(m, Q) == {p \in m : p[2] \in Q}

(* What is matched of a set counts as many pairs.                          *)
LEMMA CountMatchedWas ==
  ASSUME NEW before, NEW after, IsFiniteSet(before), IsFiniteSet(after),
         NEW m, Matching(before, after, m), NEW Q \in SUBSET before
  PROVE  /\ IsFiniteSet(FirstIn(m, Q))
         /\ Cardinality(FirstIn(m, Q)) \in Nat
         /\ Cardinality(Q \ Firsts(m)) \in Nat
         /\ Cardinality(Q) = Cardinality(Q \ Firsts(m)) + Cardinality(FirstIn(m, Q))
<1> DEFINE M == FirstIn(m, Q)
           f == [p \in M |-> p[1]]
           firsts == Firsts(m)
<1>1. IsFiniteSet(before \X after)
  BY FS_Product
<1>2. M \in SUBSET (before \X after)
  BY DEF Matching, FirstIn, Firsts
<1>3. IsFiniteSet(M) /\ IsFiniteSet(Q)
  BY <1>1, <1>2, FS_Subset
<1>4. \A p, q \in M : f[p] = f[q] => p = q
  <2>1. \A p, q \in M : p[1] = q[1] => p[2] = q[2]
    BY DEF Matching, OneToOne, FirstIn, Firsts
  <2>2. \A p \in M : p = <<p[1], p[2]>>
    BY <1>2
  <2> QED
    BY <2>1, <2>2
<1>5. {f[p] : p \in M} = Q \cap firsts
  BY DEF FirstIn, Firsts
<1>6. f = [p \in M |-> f[p]]
  OBVIOUS
<1> HIDE DEF f, M, firsts
<1>7. Cardinality(Q \cap firsts) = Cardinality(M)
  <2>1. Cardinality({f[p] : p \in M}) = Cardinality(M)
    BY <1>3, <1>4, <1>6, CountImage
  <2> QED
    BY <1>5, <2>1
<1>8. /\ Cardinality(Q \cap firsts) \in Nat /\ Cardinality(Q \ firsts) \in Nat
      /\ Cardinality(Q) = Cardinality(Q \cap firsts) + Cardinality(Q \ firsts)
  BY <1>3, CountParts
<1>9. /\ IsFiniteSet(M) /\ Cardinality(M) \in Nat /\ Cardinality(Q \ firsts) \in Nat
      /\ Cardinality(Q) = Cardinality(Q \ firsts) + Cardinality(M)
  BY <1>3, <1>7, <1>8
<1> QED
  BY <1>9 DEF M, firsts

LEMMA CountMatchedIs ==
  ASSUME NEW before, NEW after, IsFiniteSet(before), IsFiniteSet(after),
         NEW m, Matching(before, after, m), NEW Q \in SUBSET after
  PROVE  /\ IsFiniteSet(SecondIn(m, Q))
         /\ Cardinality(SecondIn(m, Q)) \in Nat
         /\ Cardinality(Q \ Seconds(m)) \in Nat
         /\ Cardinality(Q) = Cardinality(Q \ Seconds(m)) + Cardinality(SecondIn(m, Q))
<1> DEFINE M == SecondIn(m, Q)
           f == [p \in M |-> p[2]]
           seconds == Seconds(m)
<1>1. IsFiniteSet(before \X after)
  BY FS_Product
<1>2. M \in SUBSET (before \X after)
  BY DEF Matching, SecondIn, Seconds
<1>3. IsFiniteSet(M) /\ IsFiniteSet(Q)
  BY <1>1, <1>2, FS_Subset
<1>4. \A p, q \in M : f[p] = f[q] => p = q
  <2>1. \A p, q \in M : p[2] = q[2] => p[1] = q[1]
    BY DEF Matching, OneToOne, SecondIn, Seconds
  <2>2. \A p \in M : p = <<p[1], p[2]>>
    BY <1>2
  <2> QED
    BY <2>1, <2>2
<1>5. {f[p] : p \in M} = Q \cap seconds
  BY DEF SecondIn, Seconds
<1>6. f = [p \in M |-> f[p]]
  OBVIOUS
<1> HIDE DEF f, M, seconds
<1>7. Cardinality(Q \cap seconds) = Cardinality(M)
  <2>1. Cardinality({f[p] : p \in M}) = Cardinality(M)
    BY <1>3, <1>4, <1>6, CountImage
  <2> QED
    BY <1>5, <2>1
<1>8. /\ Cardinality(Q \cap seconds) \in Nat /\ Cardinality(Q \ seconds) \in Nat
      /\ Cardinality(Q) = Cardinality(Q \cap seconds) + Cardinality(Q \ seconds)
  BY <1>3, CountParts
<1>9. /\ IsFiniteSet(M) /\ Cardinality(M) \in Nat /\ Cardinality(Q \ seconds) \in Nat
      /\ Cardinality(Q) = Cardinality(Q \ seconds) + Cardinality(M)
  BY <1>3, <1>7, <1>8
<1> QED
  BY <1>9 DEF M, seconds

(* A comparison of two lists is of some matching of equal keys.            *)
Alike(m) == \A p \in m : p[1].ace.key = p[2].ace.key
ComesOf(c, before, after, m) ==
  /\ Matching(before, after, m) /\ Alike(m)
  /\ c.removed = before \ Firsts(m)
  /\ c.added = after \ Seconds(m)
  /\ c.changed = {p \in m : p[1].ace # p[2].ace}
  /\ AsDiffEntriesLeaves(c)

LEMMA DiffIsMatching ==
  ASSUME NEW before, NEW after, NEW c \in DiffEntries(before, after)
  PROVE  \E m : ComesOf(c, before, after, m)
<1> DEFINE alike == {p \in before \X after : p[1].ace.key = p[2].ace.key}
<1>1. PICK m \in SUBSET alike : OneToOne(m) /\ c = Gaps(before, after, m) /\ AsDiffEntriesLeaves(c)
  BY DEF DiffEntries
<1>2. Matching(before, after, m) /\ Alike(m)
  BY <1>1 DEF Matching, Alike
<1>3. /\ c.removed = before \ Firsts(m)
      /\ c.added = after \ Seconds(m)
      /\ c.changed = {p \in m : p[1].ace # p[2].ace}
  BY <1>1 DEF Gaps, Firsts, Seconds
<1> QED
  BY <1>1, <1>2, <1>3 DEF ComesOf

-----------------------------------------------------------------------------
(* Lemmas about the comparison of two lists: its result, as Gaps has it,   *)
(* accounts for the difference of what was and what is counted.            *)

(* The entries of a key, those that carry a right, and the pairs whose     *)
(* second mask grants a right anew or no longer does.                      *)
OfKey(S, key) == {p \in S : p.ace.key = key}
Carrying(S, key, r) == {p \in S : p.ace.key = key /\ r \in Grants(p.ace.key, p.ace.mask)}
Gaining(P, key, r) ==
  {p \in P : p[2].ace.key = key /\ r \in Grants(key, p[2].ace.mask \ p[1].ace.mask)}
Losing(P, key, r) ==
  {p \in P : p[2].ace.key = key /\ r \in Grants(key, p[1].ace.mask \ p[2].ace.mask)}

(* No line of these mask changes is wrong about the right.                 *)
NothingSaidToMove(P, key, r) ==
  \A p \in P : p[2].ace.key = key => r \notin SaidToMove(key, p[1].ace.mask, p[2].ace.mask)

(* Two finite sets of entries.                                             *)
TwoSelections(before, after) ==
  /\ IsFiniteSet(before) /\ IsFiniteSet(after)
  /\ before \in SUBSET Entries /\ after \in SUBSET Entries

LEMMA EntriesAddUp ==
  ASSUME NEW before, NEW after, TwoSelections(before, after),
         NEW c, NEW m, ComesOf(c, before, after, m), NEW key
  PROVE  /\ Cardinality(OfKey(before, key)) \in Nat /\ Cardinality(OfKey(after, key)) \in Nat
         /\ Cardinality(OfKey(c.added, key)) \in Nat /\ Cardinality(OfKey(c.removed, key)) \in Nat
         /\ Cardinality(OfKey(before, key)) + Cardinality(OfKey(c.added, key))
              = Cardinality(OfKey(after, key)) + Cardinality(OfKey(c.removed, key))
<1>1. /\ Matching(before, after, m) /\ Alike(m)
      /\ c.removed = before \ Firsts(m)
      /\ c.added = after \ Seconds(m)
  BY DEF ComesOf
<1> DEFINE Q == OfKey(before, key)
           R == OfKey(after, key)
<1>2. Q \in SUBSET before /\ R \in SUBSET after
  BY DEF OfKey
<1>3. FirstIn(m, Q) = SecondIn(m, R)
  <2>1. \A p \in m : p[1] \in before /\ p[2] \in after
    BY <1>1 DEF Matching
  <2> QED
    BY <1>1, <2>1 DEF Alike, OfKey, FirstIn, SecondIn
<1>4. /\ OfKey(c.removed, key) = Q \ Firsts(m)
      /\ OfKey(c.added, key) = R \ Seconds(m)
  BY <1>1 DEF OfKey
<1> DEFINE M == FirstIn(m, Q)
<1> HIDE DEF Q, R
<1>5. /\ Cardinality(M) \in Nat /\ Cardinality(OfKey(c.removed, key)) \in Nat
      /\ Cardinality(Q) = Cardinality(OfKey(c.removed, key)) + Cardinality(M)
  <2>1. IsFiniteSet(before) /\ IsFiniteSet(after)
    BY DEF TwoSelections
  <2>2. /\ Cardinality(FirstIn(m, Q)) \in Nat /\ Cardinality(Q \ Firsts(m)) \in Nat
        /\ Cardinality(Q) = Cardinality(Q \ Firsts(m)) + Cardinality(FirstIn(m, Q))
    BY <1>1, <1>2, <2>1, CountMatchedWas
  <2> QED
    BY <1>4, <2>2
<1>6. /\ Cardinality(OfKey(c.added, key)) \in Nat
      /\ Cardinality(R) = Cardinality(OfKey(c.added, key)) + Cardinality(M)
  <2>1. IsFiniteSet(before) /\ IsFiniteSet(after)
    BY DEF TwoSelections
  <2>2. SecondIn(m, R) = M
    BY <1>3
  <2>3. /\ Cardinality(SecondIn(m, R)) \in Nat /\ Cardinality(R \ Seconds(m)) \in Nat
        /\ Cardinality(R) = Cardinality(R \ Seconds(m)) + Cardinality(SecondIn(m, R))
    BY <1>1, <1>2, <2>1, CountMatchedIs
  <2> HIDE DEF M
  <2> QED
    BY <1>4, <2>2, <2>3
<1> HIDE DEF M
<1>7. /\ Cardinality(Q) \in Nat /\ Cardinality(R) \in Nat
      /\ Cardinality(Q) + Cardinality(OfKey(c.added, key))
           = Cardinality(R) + Cardinality(OfKey(c.removed, key))
  BY <1>5, <1>6
<1> QED
  BY <1>5, <1>6, <1>7 DEF Q, R

LEMMA RightsAddUp ==
  ASSUME NEW before, NEW after, TwoSelections(before, after),
         NEW c, NEW m, ComesOf(c, before, after, m), NEW key, NEW r,
         NothingSaidToMove(c.changed, key, r)
  PROVE  /\ Cardinality(Carrying(before, key, r)) \in Nat
         /\ Cardinality(Carrying(after, key, r)) \in Nat
         /\ Cardinality(Carrying(c.added, key, r)) \in Nat
         /\ Cardinality(Carrying(c.removed, key, r)) \in Nat
         /\ Cardinality(Gaining(c.changed, key, r)) \in Nat
         /\ Cardinality(Losing(c.changed, key, r)) \in Nat
         /\ Cardinality(Carrying(before, key, r)) + Cardinality(Carrying(c.added, key, r))
                + Cardinality(Gaining(c.changed, key, r))
              = Cardinality(Carrying(after, key, r)) + Cardinality(Carrying(c.removed, key, r))
                + Cardinality(Losing(c.changed, key, r))
<1>1. /\ Matching(before, after, m) /\ Alike(m)
      /\ c.removed = before \ Firsts(m)
      /\ c.added = after \ Seconds(m)
      /\ c.changed = {p \in m : p[1].ace # p[2].ace}
  BY DEF ComesOf
<1> DEFINE Q == Carrying(before, key, r)
           R == Carrying(after, key, r)
           S == FirstIn(m, Q)
           T == SecondIn(m, R)
           U == Gaining(c.changed, key, r)
           V == Losing(c.changed, key, r)
<1>2. Q \in SUBSET before /\ R \in SUBSET after
  BY DEF Carrying
<1>3. /\ Carrying(c.removed, key, r) = Q \ Firsts(m)
      /\ Carrying(c.added, key, r) = R \ Seconds(m)
  BY <1>1 DEF Carrying
<1>4. \A p \in m : /\ p[1] \in before /\ p[2] \in after /\ p[1].ace.key = p[2].ace.key
                   /\ p[1].ace.mask \in SUBSET Rights /\ p[2].ace.mask \in SUBSET Rights
  <2>1. \A p \in m : p[1] \in before /\ p[2] \in after /\ p[1].ace.key = p[2].ace.key
    BY <1>1 DEF Matching, Alike
  <2>2. \A e \in before \cup after : e.ace.mask \in SUBSET Rights
    BY DEF TwoSelections, Entries, ACEs
  <2> QED
    BY <2>1, <2>2
<1>5. \A p \in m :
        /\ p \in S <=> p[1].ace.key = key /\ r \in Grants(key, p[1].ace.mask)
        /\ p \in T <=> p[1].ace.key = key /\ r \in Grants(key, p[2].ace.mask)
        /\ p \in U <=> p[1].ace.key = key /\ r \in Grants(key, p[2].ace.mask \ p[1].ace.mask)
        /\ p \in V <=> p[1].ace.key = key /\ r \in Grants(key, p[1].ace.mask \ p[2].ace.mask)
  <2> SUFFICES ASSUME NEW p \in m
               PROVE  /\ p \in S <=> p[1].ace.key = key /\ r \in Grants(key, p[1].ace.mask)
                      /\ p \in T <=> p[1].ace.key = key /\ r \in Grants(key, p[2].ace.mask)
                      /\ p \in U <=> p[1].ace.key = key
                                     /\ r \in Grants(key, p[2].ace.mask \ p[1].ace.mask)
                      /\ p \in V <=> p[1].ace.key = key
                                     /\ r \in Grants(key, p[1].ace.mask \ p[2].ace.mask)
    OBVIOUS
  <2>1. p[1] \in before /\ p[2] \in after /\ p[2].ace.key = p[1].ace.key
    BY <1>4
  <2>2. p \in S <=> p[1].ace.key = key /\ r \in Grants(key, p[1].ace.mask)
    BY <2>1 DEF Carrying, FirstIn
  <2>3. p \in T <=> p[1].ace.key = key /\ r \in Grants(key, p[2].ace.mask)
    BY <2>1 DEF Carrying, SecondIn
  <2>4. CASE p[1].ace # p[2].ace
    <3>1. p \in c.changed
      BY <1>1, <2>4
    <3> QED
      BY <2>1, <2>2, <2>3, <3>1 DEF Gaining, Losing
  <2>5. CASE p[1].ace = p[2].ace
    <3>1. p \notin U /\ p \notin V
      BY <1>1, <2>5 DEF Gaining, Losing
    <3>2. p[2].ace.mask \ p[1].ace.mask = {} /\ p[1].ace.mask \ p[2].ace.mask = {}
      BY <2>5
    <3> QED
      BY <2>2, <2>3, <3>1, <3>2, NothingGranted
  <2> QED
    BY <2>4, <2>5
<1>6. ASSUME NEW p \in m, p[1].ace.key = key
      PROVE  Moves(key, p[1].ace.mask, p[2].ace.mask, r)
  <2>1. p[1].ace.mask \in SUBSET Rights /\ p[2].ace.mask \in SUBSET Rights /\ p[2].ace.key = key
    BY <1>4, <1>6
  <2>2. r \notin SaidToMove(key, p[1].ace.mask, p[2].ace.mask)
    <3>1. CASE p[1].ace # p[2].ace
      BY <1>1, <2>1, <3>1 DEF NothingSaidToMove
    <3>2. CASE p[1].ace = p[2].ace
      BY <3>2 DEF SaidToMove
    <3> QED
      BY <3>1, <3>2
  <2> QED
    BY <2>1, <2>2, MovedRights
<1>7. S \in SUBSET m /\ T \in SUBSET m /\ U \in SUBSET m /\ V \in SUBSET m
  BY <1>1 DEF Gaining, Losing, FirstIn, SecondIn
<1>8. IsFiniteSet(m)
  <2>1. IsFiniteSet(before \X after) /\ m \in SUBSET (before \X after)
    BY <1>1, FS_Product DEF TwoSelections, Matching
  <2> QED
    BY <2>1, FS_Subset
<1>9. /\ Cardinality(S) \in Nat /\ Cardinality(Carrying(c.removed, key, r)) \in Nat
      /\ Cardinality(Q) = Cardinality(Carrying(c.removed, key, r)) + Cardinality(S)
  <2>1. IsFiniteSet(before) /\ IsFiniteSet(after)
    BY DEF TwoSelections
  <2> HIDE DEF Q
  <2>2. /\ Cardinality(FirstIn(m, Q)) \in Nat /\ Cardinality(Q \ Firsts(m)) \in Nat
        /\ Cardinality(Q) = Cardinality(Q \ Firsts(m)) + Cardinality(FirstIn(m, Q))
    BY <1>1, <1>2, <2>1, CountMatchedWas
  <2> QED
    BY <1>3, <2>2
<1>10. /\ Cardinality(T) \in Nat /\ Cardinality(Carrying(c.added, key, r)) \in Nat
       /\ Cardinality(R) = Cardinality(Carrying(c.added, key, r)) + Cardinality(T)
  <2>1. IsFiniteSet(before) /\ IsFiniteSet(after)
    BY DEF TwoSelections
  <2> HIDE DEF R
  <2>2. /\ Cardinality(SecondIn(m, R)) \in Nat /\ Cardinality(R \ Seconds(m)) \in Nat
        /\ Cardinality(R) = Cardinality(R \ Seconds(m)) + Cardinality(SecondIn(m, R))
    BY <1>1, <1>2, <2>1, CountMatchedIs
  <2> QED
    BY <1>3, <2>2
<1> HIDE DEF S, T, U, V, Q, R
<1>11. T \ S = U \ V /\ S \ T = V \ U
  <2>1. ASSUME NEW p \in m
        PROVE  /\ (p \in T /\ p \notin S) <=> (p \in U /\ p \notin V)
               /\ (p \in S /\ p \notin T) <=> (p \in V /\ p \notin U)
    <3> DEFINE s == Grants(key, p[1].ace.mask)
               t == Grants(key, p[2].ace.mask)
               u == Grants(key, p[2].ace.mask \ p[1].ace.mask)
               v == Grants(key, p[1].ace.mask \ p[2].ace.mask)
    <3>1. p[1].ace.key = key => /\ r \in t /\ r \notin s <=> r \in u /\ r \notin v
                                /\ r \in s /\ r \notin t <=> r \in v /\ r \notin u
      BY <1>6 DEF Moves
    <3>2. /\ p \in S <=> p[1].ace.key = key /\ r \in s
          /\ p \in T <=> p[1].ace.key = key /\ r \in t
          /\ p \in U <=> p[1].ace.key = key /\ r \in u
          /\ p \in V <=> p[1].ace.key = key /\ r \in v
      BY <1>5
    <3> HIDE DEF s, t, u, v
    <3> QED
      BY <3>1, <3>2
  <2>2. T \ S = U \ V
    BY <1>7, <2>1
  <2>3. S \ T = V \ U
    BY <1>7, <2>1
  <2> QED
    BY <2>2, <2>3
<1>12. IsFiniteSet(S) /\ IsFiniteSet(T) /\ IsFiniteSet(U) /\ IsFiniteSet(V)
  BY <1>7, <1>8, FS_Subset
<1>13. /\ Cardinality(U) \in Nat /\ Cardinality(V) \in Nat
       /\ Cardinality(T) + Cardinality(V) = Cardinality(S) + Cardinality(U)
  BY <1>11, <1>12, SameDifference
<1>14. /\ Cardinality(Q) \in Nat /\ Cardinality(R) \in Nat
       /\ Cardinality(Q) + Cardinality(Carrying(c.added, key, r)) + Cardinality(U)
            = Cardinality(R) + Cardinality(Carrying(c.removed, key, r)) + Cardinality(V)
  BY <1>9, <1>10, <1>13
<1> QED
  BY <1>9, <1>10, <1>13, <1>14 DEF Q, R, U, V

(* Two lists that hold every ACE equally often differ in nothing: an entry *)
(* left over on one side would be told of on the other too.                *)
SameCounts(before, after) ==
  \A a \in ACEs : Cardinality({p \in before : p.ace = a}) = Cardinality({p \in after : p.ace = a})
LEMMA SameACEs ==
  ASSUME NEW before, NEW after, TwoSelections(before, after),
         NEW c, NEW m, ComesOf(c, before, after, m),
         SameCounts(before, after)
  PROVE  c.removed = {} /\ c.added = {} /\ c.changed = {}
<1>1. /\ Matching(before, after, m)
      /\ c.removed = before \ Firsts(m)
      /\ c.added = after \ Seconds(m)
      /\ c.changed = {p \in m : p[1].ace # p[2].ace}
      /\ AsDiffEntriesLeaves(c)
  BY DEF ComesOf
<1>2. \A p \in m : p[1] \in before /\ p[2] \in after
  BY <1>1 DEF Matching
<1>3. \A e \in before \cup after : e.ace \in ACEs
  BY DEF TwoSelections, Entries
<1>4. ASSUME NEW a \in ACEs PROVE a \in Told(c, 1) <=> a \in Told(c, 2)
  <2> DEFINE Q == {p \in before : p.ace = a}
             R == {p \in after : p.ace = a}
             S == FirstIn(m, Q)
             T == SecondIn(m, R)
             Left == Q \ Firsts(m)
             Over == R \ Seconds(m)
  <2>1. Q \in SUBSET before /\ R \in SUBSET after /\ Cardinality(Q) = Cardinality(R)
    BY DEF SameCounts
  <2>2. a \in Told(c, 1) <=> Left # {} \/ S \ T # {}
    BY <1>1, <1>2 DEF Told, FirstIn, SecondIn, Firsts, Seconds
  <2>3. a \in Told(c, 2) <=> Over # {} \/ T \ S # {}
    BY <1>1, <1>2 DEF Told, FirstIn, SecondIn, Firsts, Seconds
  <2>4. IsFiniteSet(Left) /\ IsFiniteSet(Over)
    BY FS_Subset DEF TwoSelections
  <2>5. /\ IsFiniteSet(S) /\ Cardinality(S) \in Nat /\ Cardinality(Left) \in Nat
        /\ Cardinality(Q) = Cardinality(Left) + Cardinality(S)
    <3>1. IsFiniteSet(before) /\ IsFiniteSet(after)
      BY DEF TwoSelections
    <3> HIDE DEF Q, R
    <3>2. /\ IsFiniteSet(FirstIn(m, Q))
          /\ Cardinality(FirstIn(m, Q)) \in Nat /\ Cardinality(Q \ Firsts(m)) \in Nat
          /\ Cardinality(Q) = Cardinality(Q \ Firsts(m)) + Cardinality(FirstIn(m, Q))
      <4>1. Matching(before, after, m) /\ Q \in SUBSET before
        BY <1>1, <2>1
      <4> QED
        BY <3>1, <4>1, CountMatchedWas
    <3> QED
      BY <3>2
  <2>6. /\ IsFiniteSet(T) /\ Cardinality(T) \in Nat /\ Cardinality(Over) \in Nat
        /\ Cardinality(R) = Cardinality(Over) + Cardinality(T)
    <3>1. IsFiniteSet(before) /\ IsFiniteSet(after)
      BY DEF TwoSelections
    <3> HIDE DEF R
    <3>2. /\ IsFiniteSet(SecondIn(m, R))
          /\ Cardinality(SecondIn(m, R)) \in Nat /\ Cardinality(R \ Seconds(m)) \in Nat
          /\ Cardinality(R) = Cardinality(R \ Seconds(m)) + Cardinality(SecondIn(m, R))
      BY <1>1, <2>1, <3>1, CountMatchedIs
    <3> QED
      BY <3>2
  <2>7. Told(c, 1) \cap Told(c, 2) = {}
    BY <1>1 DEF AsDiffEntriesLeaves
  <2> HIDE DEF Q, R, S, T, Left, Over
  <2>8. S \cap T = T \cap S
    OBVIOUS
  <2>9. /\ Cardinality(S \cap T) \in Nat /\ Cardinality(S \ T) \in Nat
        /\ Cardinality(S) = Cardinality(S \cap T) + Cardinality(S \ T)
    BY <2>5, CountParts
  <2>10. /\ Cardinality(T \ S) \in Nat
         /\ Cardinality(T) = Cardinality(S \cap T) + Cardinality(T \ S)
    BY <2>6, <2>8, CountParts
  <2>11. Cardinality(Left) + Cardinality(S \ T) = Cardinality(Over) + Cardinality(T \ S)
    <3>1. Cardinality(Left) + Cardinality(S) = Cardinality(Over) + Cardinality(T)
      BY <2>1, <2>5, <2>6
    <3> QED
      BY <2>5, <2>6, <2>9, <2>10, <3>1
  <2>12. IsFiniteSet(S \ T) /\ IsFiniteSet(T \ S)
    BY <2>5, <2>6, FS_Difference
  <2>13. /\ Cardinality(Left) = 0 <=> Left = {}
         /\ Cardinality(Over) = 0 <=> Over = {}
         /\ Cardinality(S \ T) = 0 <=> S \ T = {}
         /\ Cardinality(T \ S) = 0 <=> T \ S = {}
    BY <2>4, <2>12, FS_EmptySet
  <2> QED
    BY <2>2, <2>3, <2>5, <2>6, <2>9, <2>10, <2>11, <2>13
<1>5. Told(c, 1) \in SUBSET ACEs /\ Told(c, 2) \in SUBSET ACEs
  <2>1. Told(c, 1) = {p[1].ace : p \in c.changed} \cup {p.ace : p \in c.removed}
        /\ Told(c, 2) = {p[2].ace : p \in c.changed} \cup {p.ace : p \in c.added}
    BY DEF Told
  <2> QED
    BY <1>1, <1>2, <1>3, <2>1
<1>6. Told(c, 1) = {} /\ Told(c, 2) = {}
  <2>1. Told(c, 1) \cap Told(c, 2) = {}
    BY <1>1 DEF AsDiffEntriesLeaves
  <2> QED
    BY <1>4, <1>5, <2>1
<1>7. /\ Told(c, 1) = {p[1].ace : p \in c.changed} \cup {p.ace : p \in c.removed}
      /\ Told(c, 2) = {p[2].ace : p \in c.changed} \cup {p.ace : p \in c.added}
  BY DEF Told
<1> QED
  BY <1>6, <1>7

(* Two lists compared: the result comes of a matching of what is selected. *)
LEMMA DiffACLComesOf ==
  ASSUME NEW was, NEW is, NEW acl \in DiffACL(was, is)
  PROVE  /\ \E m : ComesOf(acl, Select(was), Select(is), m)
         /\ acl.presence = Presence(was, is)
<1>1. PICK c \in DiffEntries(Select(was), Select(is)) :
        acl = [presence |-> Presence(was, is), removed |-> c.removed, added |-> c.added,
               changed |-> c.changed]
  BY DEF DiffACL
<1>2. PICK m : ComesOf(c, Select(was), Select(is), m)
  BY DiffIsMatching
<1>3. /\ acl.removed = c.removed /\ acl.added = c.added /\ acl.changed = c.changed
      /\ acl.presence = Presence(was, is)
  BY <1>1
<1>4. AsDiffEntriesLeaves(acl)
  <2>1. Told(acl, 1) = Told(c, 1) /\ Told(acl, 2) = Told(c, 2)
    BY <1>3 DEF Told
  <2> QED
    BY <1>2, <1>3, <2>1 DEF AsDiffEntriesLeaves, ComesOf
<1>5. ComesOf(acl, Select(was), Select(is), m)
  BY <1>2, <1>3, <1>4 DEF ComesOf
<1> QED
  BY <1>3, <1>5

(* Nothing but lists that are not there compare to nothing.                *)
LEMMA NoACLChangesOfNothing == NoACLChanges \in DiffACL(Absent, Absent)
<1> DEFINE none == [removed |-> {}, added |-> {}, changed |-> {}]
<1>1. Select(Absent) = {}
  BY DEF Select
<1>2. Gaps({}, {}, {}) = none /\ OneToOne({}) /\ {} \in SUBSET {}
  BY DEF Gaps, OneToOne
<1>3. AsDiffEntriesLeaves(none)
  <2>1. Told(none, 1) = {} /\ Told(none, 2) = {}
    BY DEF Told
  <2> QED
    BY <2>1 DEF AsDiffEntriesLeaves
<1>4. none \in DiffEntries({}, {})
  <2>1. {p \in {} \X {} : p[1].ace.key = p[2].ace.key} = {}
    OBVIOUS
  <2> HIDE DEF none
  <2> QED
    BY <1>2, <1>3, <2>1 DEF DiffEntries
<1>5. Presence(Absent, Absent) = "same"
  BY Zenon DEF Presence
<1>6. NoACLChanges = [presence |-> Presence(Absent, Absent), removed |-> none.removed,
                      added |-> none.added, changed |-> none.changed]
  BY <1>5 DEF NoACLChanges
<1> HIDE DEF none
<1> QED
  BY <1>1, <1>4, <1>6 DEF DiffACL

-----------------------------------------------------------------------------
(* Lemmas about the lines printed of a change.                             *)

AceLines(list, acl) ==
  {DescribeWholeAce(list, "added", p) : p \in acl.added}
  \cup {DescribeMaskChange(list, p[1], p[2]) : p \in acl.changed}
  \cup {DescribeWholeAce(list, "removed", p) : p \in acl.removed}

PresenceOf(list, acl) == {[about |-> list, presence |-> p] : p \in {acl.presence} \ {"same"}}

(* Every line is about what it says it is about.                           *)
LEMMA LinesAreAbout ==
  /\ \A label, change : \A l \in DescribeIdentityChange(label, change) : l.about = label
  /\ \A change : \A l \in DescribeFlagsChange(change) : l.about = "control"
  /\ \A list, acl : \A l \in AceLines(list, acl) :
       l.about = list /\ "key" \in DOMAIN l /\ "presence" \notin DOMAIN l
  /\ \A list, acl : \A l \in PresenceOf(list, acl) :
       l.about = list /\ "key" \notin DOMAIN l /\ "presence" \in DOMAIN l
<1>1. \A label, change : \A l \in DescribeIdentityChange(label, change) : l.about = label
  BY DEF DescribeIdentityChange
<1>2. \A change : \A l \in DescribeFlagsChange(change) : l.about = "control"
  BY DEF DescribeFlagsChange
<1>3. \A list, acl : \A l \in PresenceOf(list, acl) :
        l.about = list /\ "key" \notin DOMAIN l /\ "presence" \in DOMAIN l
  BY DEF PresenceOf
<1>4. \A list, acl : \A l \in AceLines(list, acl) :
        l.about = list /\ "key" \in DOMAIN l /\ "presence" \notin DOMAIN l
  <2>1. \A list, says, p : LET l == DescribeWholeAce(list, says, p) IN
          l.about = list /\ "key" \in DOMAIN l /\ "presence" \notin DOMAIN l
    BY DEF DescribeWholeAce
  <2>2. \A list, was, is : LET l == DescribeMaskChange(list, was, is) IN
          l.about = list /\ "key" \in DOMAIN l /\ "presence" \notin DOMAIN l
    BY DEF DescribeMaskChange
  <2> QED
    BY <2>1, <2>2 DEF AceLines
<1> QED
  BY <1>1, <1>2, <1>3, <1>4

(* The lines of a change that could be read, each found where it is sought. *)
LEMMA LinesOfChange ==
  ASSUME NEW change, ~change.parseError
  PROVE  /\ [about |-> "error"] \notin Details(change)
         /\ {l \in Details(change) : l.about = "Owner"}
              = DescribeIdentityChange("Owner", change.owner)
         /\ {l \in Details(change) : l.about = "Group"}
              = DescribeIdentityChange("Group", change.group)
         /\ {l \in Details(change) : l.about = "control"} = DescribeFlagsChange(change.control)
         /\ EntryLines(Details(change), "DACL") = AceLines("DACL", change.dacl)
         /\ EntryLines(Details(change), "SACL") = AceLines("SACL", change.sacl)
         /\ PresenceLines(Details(change), "DACL") = PresenceOf("DACL", change.dacl)
         /\ PresenceLines(Details(change), "SACL") = PresenceOf("SACL", change.sacl)
<1> DEFINE owner == DescribeIdentityChange("Owner", change.owner)
           group == DescribeIdentityChange("Group", change.group)
           control == DescribeFlagsChange(change.control)
           dacl == AceLines("DACL", change.dacl)
           sacl == AceLines("SACL", change.sacl)
           hasD == PresenceOf("DACL", change.dacl)
           hasS == PresenceOf("SACL", change.sacl)
<1>1. Details(change) = owner \cup group \cup control \cup dacl \cup sacl \cup hasD \cup hasS
  <2>1. /\ DescribeACLChanges("DACL", change.dacl) = hasD \cup dacl
        /\ DescribeACLChanges("SACL", change.sacl) = hasS \cup sacl
    BY DEF DescribeACLChanges, AceLines, PresenceOf
  <2> HIDE DEF owner, group, control, dacl, sacl, hasD, hasS
  <2>2. Details(change) = owner \cup group \cup control
          \cup DescribeACLChanges("DACL", change.dacl) \cup DescribeACLChanges("SACL", change.sacl)
    BY DEF Details, owner, group, control
  <2> QED
    BY <2>1, <2>2
<1>2. /\ \A l \in owner : l.about = "Owner"
      /\ \A l \in group : l.about = "Group"
      /\ \A l \in control : l.about = "control"
      /\ \A l \in dacl : l.about = "DACL" /\ "key" \in DOMAIN l /\ "presence" \notin DOMAIN l
      /\ \A l \in sacl : l.about = "SACL" /\ "key" \in DOMAIN l /\ "presence" \notin DOMAIN l
      /\ \A l \in hasD : l.about = "DACL" /\ "key" \notin DOMAIN l /\ "presence" \in DOMAIN l
      /\ \A l \in hasS : l.about = "SACL" /\ "key" \notin DOMAIN l /\ "presence" \in DOMAIN l
  BY LinesAreAbout
<1> HIDE DEF owner, group, control, dacl, sacl, hasD, hasS
<1>3. [about |-> "error"] \notin Details(change)
  BY <1>1, <1>2
<1>4. /\ {l \in Details(change) : l.about = "Owner"} = owner
      /\ {l \in Details(change) : l.about = "Group"} = group
      /\ {l \in Details(change) : l.about = "control"} = control
  BY <1>1, <1>2
<1>5. /\ EntryLines(Details(change), "DACL") = dacl
      /\ EntryLines(Details(change), "SACL") = sacl
  BY <1>1, <1>2 DEF EntryLines
<1>6. /\ PresenceLines(Details(change), "DACL") = hasD
      /\ PresenceLines(Details(change), "SACL") = hasS
  BY <1>1, <1>2 DEF PresenceLines
<1> QED
  BY <1>3, <1>4, <1>5, <1>6 DEF owner, group, control, dacl, sacl, hasD, hasS

-----------------------------------------------------------------------------
(* Lemmas about what the lines of a list add up to.                        *)

(* What a comparison of two lists and the filters leave.                   *)
SoundACL(acl) ==
  /\ IsFiniteSet(acl.added) /\ IsFiniteSet(acl.removed) /\ IsFiniteSet(acl.changed)
  /\ acl.added \in SUBSET Entries /\ acl.removed \in SUBSET Entries
  /\ acl.changed \in SUBSET (Entries \X Entries)
  /\ \A p \in acl.changed : p[1].ace.key = p[2].ace.key

LEMMA EntryParts ==
  \A p \in Entries : p.ace \in ACEs /\ p.ace.key \in Keys /\ p.ace.mask \in SUBSET Rights
BY DEF Entries, ACEs

(* The entries an operator describes, one line each.                       *)
LEMMA CountWholeAces ==
  ASSUME NEW list, NEW says, NEW S, IsFiniteSet(S)
  PROVE  /\ IsFiniteSet({DescribeWholeAce(list, says, p) : p \in S})
         /\ Cardinality({DescribeWholeAce(list, says, p) : p \in S}) = Cardinality(S)
<1> DEFINE f == [p \in S |-> DescribeWholeAce(list, says, p)]
<1>1. \A p, q \in S : f[p] = f[q] => p = q
  <2>1. \A p \in S : f[p].at = <<p>>
    BY DEF DescribeWholeAce
  <2> HIDE DEF f
  <2>2. \A p, q : <<p>> = <<q>> => p = q
    OBVIOUS
  <2> QED
    BY <2>1, <2>2
<1>2. f = [p \in S |-> f[p]] /\ {f[p] : p \in S} = {DescribeWholeAce(list, says, p) : p \in S}
  OBVIOUS
<1> HIDE DEF f
<1>3. IsFiniteSet({f[p] : p \in S}) /\ Cardinality({f[p] : p \in S}) = Cardinality(S)
  BY <1>1, <1>2, CountImage
<1> QED
  BY <1>2, <1>3

LEMMA CountMaskChanges ==
  ASSUME NEW list, NEW S \in SUBSET (Entries \X Entries), IsFiniteSet(S)
  PROVE  /\ IsFiniteSet({DescribeMaskChange(list, p[1], p[2]) : p \in S})
         /\ Cardinality({DescribeMaskChange(list, p[1], p[2]) : p \in S}) = Cardinality(S)
<1> DEFINE f == [p \in S |-> DescribeMaskChange(list, p[1], p[2])]
<1>1. \A p, q \in S : f[p] = f[q] => p = q
  <2>1. \A p \in S : f[p].at = <<p[1], p[2]>>
    BY DEF DescribeMaskChange
  <2>2. \A p \in S : p = <<p[1], p[2]>>
    OBVIOUS
  <2> HIDE DEF f
  <2> QED
    BY <2>1, <2>2
<1>2. f = [p \in S |-> f[p]]
      /\ {f[p] : p \in S} = {DescribeMaskChange(list, p[1], p[2]) : p \in S}
  OBVIOUS
<1> HIDE DEF f
<1>3. IsFiniteSet({f[p] : p \in S}) /\ Cardinality({f[p] : p \in S}) = Cardinality(S)
  BY <1>1, <1>2, CountImage
<1> QED
  BY <1>2, <1>3

(* The lines that say added and removed of a key are as many as the        *)
(* entries.                                                                *)
LEMMA LinesOfKey ==
  ASSUME NEW list, NEW acl, SoundACL(acl), NEW key
  PROVE  /\ Cardinality({l \in AceLines(list, acl) : l.says = "added" /\ l.key = key})
              = Cardinality(OfKey(acl.added, key))
         /\ Cardinality({l \in AceLines(list, acl) : l.says = "removed" /\ l.key = key})
              = Cardinality(OfKey(acl.removed, key))
<1> DEFINE A == OfKey(acl.added, key)
           R == OfKey(acl.removed, key)
<1>1. /\ \A p : /\ DescribeWholeAce(list, "added", p).says = "added"
                /\ DescribeWholeAce(list, "added", p).key = p.ace.key
                /\ DescribeWholeAce(list, "removed", p).says = "removed"
                /\ DescribeWholeAce(list, "removed", p).key = p.ace.key
      /\ \A p, q : DescribeMaskChange(list, p, q).says = "changed"
  BY DEF DescribeWholeAce, DescribeMaskChange
<1>2. {l \in AceLines(list, acl) : l.says = "added" /\ l.key = key}
        = {DescribeWholeAce(list, "added", p) : p \in A}
  <2>1. \A p \in acl.added : p \in A <=> p.ace.key = key
    BY DEF OfKey
  <2>2. \A l \in AceLines(list, acl) : l.says = "added" =>
          \E p \in acl.added : l = DescribeWholeAce(list, "added", p)
    BY <1>1 DEF AceLines
  <2>3. \A p \in acl.added : DescribeWholeAce(list, "added", p) \in AceLines(list, acl)
    BY DEF AceLines
  <2>4. A \in SUBSET acl.added
    BY DEF OfKey
  <2> HIDE DEF A, R
  <2>5. ASSUME NEW l \in AceLines(list, acl), l.says = "added", l.key = key
        PROVE  \E p \in A : l = DescribeWholeAce(list, "added", p)
    <3>1. PICK p \in acl.added : l = DescribeWholeAce(list, "added", p)
      BY <2>2, <2>5
    <3>2. p \in A
      BY <1>1, <2>1, <2>5, <3>1
    <3> QED
      BY <3>1, <3>2
  <2>6. ASSUME NEW p \in A, NEW l, l = DescribeWholeAce(list, "added", p)
        PROVE  l \in AceLines(list, acl) /\ l.says = "added" /\ l.key = key
    BY <1>1, <2>1, <2>3, <2>4, <2>6
  <2> QED
    BY <2>5, <2>6
<1>3. {l \in AceLines(list, acl) : l.says = "removed" /\ l.key = key}
        = {DescribeWholeAce(list, "removed", p) : p \in R}
  <2>1. \A p \in acl.removed : p \in R <=> p.ace.key = key
    BY DEF OfKey
  <2>2. \A l \in AceLines(list, acl) : l.says = "removed" =>
          \E p \in acl.removed : l = DescribeWholeAce(list, "removed", p)
    BY <1>1 DEF AceLines
  <2>3. \A p \in acl.removed : DescribeWholeAce(list, "removed", p) \in AceLines(list, acl)
    BY DEF AceLines
  <2>4. R \in SUBSET acl.removed
    BY DEF OfKey
  <2> HIDE DEF A, R
  <2>5. ASSUME NEW l \in AceLines(list, acl), l.says = "removed", l.key = key
        PROVE  \E p \in R : l = DescribeWholeAce(list, "removed", p)
    <3>1. PICK p \in acl.removed : l = DescribeWholeAce(list, "removed", p)
      BY <2>2, <2>5
    <3>2. p \in R
      BY <1>1, <2>1, <2>5, <3>1
    <3> QED
      BY <3>1, <3>2
  <2>6. ASSUME NEW p \in R, NEW l, l = DescribeWholeAce(list, "removed", p)
        PROVE  l \in AceLines(list, acl) /\ l.says = "removed" /\ l.key = key
    BY <1>1, <2>1, <2>3, <2>4, <2>6
  <2> QED
    BY <2>5, <2>6
<1>4. IsFiniteSet(A) /\ IsFiniteSet(R)
  BY FS_Subset DEF SoundACL, OfKey
<1> HIDE DEF A, R
<1>5. /\ Cardinality({DescribeWholeAce(list, "added", p) : p \in A}) = Cardinality(A)
      /\ Cardinality({DescribeWholeAce(list, "removed", p) : p \in R}) = Cardinality(R)
  BY <1>4, CountWholeAces
<1> QED
  BY <1>2, <1>3, <1>5 DEF A, R

GrantingLines(lines, key, r) == {l \in lines : l.key = key /\ r \in Means(l.granted)}
RevokingLines(lines, key, r) == {l \in lines : l.key = key /\ r \in Means(l.revoked)}

(* And the lines that grant or revoke a right as many as the entries that  *)
(* carry it and the mask changes that move it.                             *)
LEMMA LinesGranting ==
  ASSUME NEW list, NEW acl, SoundACL(acl), NEW key, NEW r
  PROVE  Cardinality(GrantingLines(AceLines(list, acl), key, r))
           = Cardinality(Carrying(acl.added, key, r)) + Cardinality(Gaining(acl.changed, key, r))
<1> DEFINE A == Carrying(acl.added, key, r)
           C == Gaining(acl.changed, key, r)
           inA == {DescribeWholeAce(list, "added", p) : p \in A}
           inC == {DescribeMaskChange(list, p[1], p[2]) : p \in C}
           those == GrantingLines(AceLines(list, acl), key, r)
<1>1. ASSUME NEW p \in acl.added, NEW l, l = DescribeWholeAce(list, "added", p)
      PROVE  l \in those <=> p \in A
  <2>1. Means(DescribeMask(p.ace.key, p.ace.mask)) = Grants(p.ace.key, p.ace.mask)
    BY DescribedInFull, EntryParts DEF SoundACL
  <2>2. l.key = p.ace.key /\ l.granted = DescribeMask(p.ace.key, p.ace.mask)
    BY <1>1 DEF DescribeWholeAce
  <2>3. l \in AceLines(list, acl)
    BY <1>1 DEF AceLines
  <2> QED
    BY <2>1, <2>2, <2>3 DEF Carrying, GrantingLines
<1>2. ASSUME NEW p \in acl.changed, NEW l, l = DescribeMaskChange(list, p[1], p[2])
      PROVE  l \in those <=> p \in C
  <2>1. p[2] \in Entries /\ p[2].ace.mask \ p[1].ace.mask \in SUBSET Rights
    BY EntryParts DEF SoundACL
  <2>2. Means(DescribeMask(p[2].ace.key, p[2].ace.mask \ p[1].ace.mask))
          = Grants(p[2].ace.key, p[2].ace.mask \ p[1].ace.mask)
    BY <2>1, DescribedInFull
  <2>3. /\ l.key = p[2].ace.key
        /\ l.granted = DescribeMask(p[2].ace.key, p[2].ace.mask \ p[1].ace.mask)
    BY <1>2 DEF DescribeMaskChange
  <2>4. l \in AceLines(list, acl)
    BY <1>2 DEF AceLines
  <2> QED
    BY <2>2, <2>3, <2>4 DEF Gaining, GrantingLines
<1>3. ASSUME NEW p \in acl.removed, NEW l, l = DescribeWholeAce(list, "removed", p)
      PROVE  l \notin those
  <2>1. l.granted = {}
    BY <1>3 DEF DescribeWholeAce
  <2> QED
    BY <2>1, NothingGranted DEF GrantingLines
<1>4. those = inA \cup inC
  <2>1. A \in SUBSET acl.added /\ C \in SUBSET acl.changed
    BY DEF Carrying, Gaining
  <2>2. ASSUME NEW l \in those PROVE l \in inA \cup inC
    <3>1. \/ \E p \in acl.added : l = DescribeWholeAce(list, "added", p)
          \/ \E p \in acl.changed : l = DescribeMaskChange(list, p[1], p[2])
          \/ \E p \in acl.removed : l = DescribeWholeAce(list, "removed", p)
      BY DEF AceLines, GrantingLines
    <3> HIDE DEF those, A, C
    <3> QED
      BY <1>1, <1>2, <1>3, <2>2, <3>1
  <2> HIDE DEF those, A, C
  <2>3. ASSUME NEW l \in inA \cup inC PROVE l \in those
    BY <1>1, <1>2, <2>1
  <2> QED
    BY <2>2, <2>3
<1>5. inA \cap inC = {}
  <2> HIDE DEF A, C
  <2>1. \A l \in inA : l.says = "added"
    BY DEF DescribeWholeAce
  <2>2. \A l \in inC : l.says = "changed"
    <3>1. \A was, is : DescribeMaskChange(list, was, is).says = "changed"
      BY DEF DescribeMaskChange
    <3> QED
      BY <3>1
  <2> HIDE DEF inA, inC
  <2> QED
    BY <2>1, <2>2
<1>6. IsFiniteSet(A) /\ IsFiniteSet(C) /\ C \in SUBSET (Entries \X Entries)
  <2>1. A \in SUBSET acl.added /\ C \in SUBSET acl.changed
    BY DEF Carrying, Gaining
  <2> HIDE DEF A, C
  <2> QED
    BY <2>1, FS_Subset DEF SoundACL
<1> HIDE DEF A, C, those
<1>7. /\ IsFiniteSet(inA) /\ Cardinality(inA) = Cardinality(A)
      /\ IsFiniteSet(inC) /\ Cardinality(inC) = Cardinality(C)
  <2>1. IsFiniteSet(inA) /\ Cardinality(inA) = Cardinality(A)
    BY <1>6, CountWholeAces
  <2>2. IsFiniteSet(inC) /\ Cardinality(inC) = Cardinality(C)
    BY <1>6, CountMaskChanges
  <2> QED
    BY <2>1, <2>2
<1> HIDE DEF inA, inC
<1>8. Cardinality(inA \cup inC) = Cardinality(inA) + Cardinality(inC)
  BY <1>5, <1>7, CountBoth
<1>9. Cardinality(those) = Cardinality(A) + Cardinality(C)
  BY <1>4, <1>7, <1>8
<1> QED
  BY <1>9 DEF those, A, C

LEMMA LinesRevoking ==
  ASSUME NEW list, NEW acl, SoundACL(acl), NEW key, NEW r
  PROVE  Cardinality(RevokingLines(AceLines(list, acl), key, r))
           = Cardinality(Carrying(acl.removed, key, r)) + Cardinality(Losing(acl.changed, key, r))
<1> DEFINE A == Carrying(acl.removed, key, r)
           C == Losing(acl.changed, key, r)
           inA == {DescribeWholeAce(list, "removed", p) : p \in A}
           inC == {DescribeMaskChange(list, p[1], p[2]) : p \in C}
           those == RevokingLines(AceLines(list, acl), key, r)
<1>1. ASSUME NEW p \in acl.removed, NEW l, l = DescribeWholeAce(list, "removed", p)
      PROVE  l \in those <=> p \in A
  <2>1. Means(DescribeMask(p.ace.key, p.ace.mask)) = Grants(p.ace.key, p.ace.mask)
    BY DescribedInFull, EntryParts DEF SoundACL
  <2>2. l.key = p.ace.key /\ l.revoked = DescribeMask(p.ace.key, p.ace.mask)
    BY <1>1 DEF DescribeWholeAce
  <2>3. l \in AceLines(list, acl)
    BY <1>1 DEF AceLines
  <2> QED
    BY <2>1, <2>2, <2>3 DEF Carrying, RevokingLines
<1>2. ASSUME NEW p \in acl.changed, NEW l, l = DescribeMaskChange(list, p[1], p[2])
      PROVE  l \in those <=> p \in C
  <2>1. p[1].ace.key = p[2].ace.key /\ p[1].ace.mask \ p[2].ace.mask \in SUBSET Rights
    BY EntryParts DEF SoundACL
  <2>2. Means(DescribeMask(p[1].ace.key, p[1].ace.mask \ p[2].ace.mask))
          = Grants(p[1].ace.key, p[1].ace.mask \ p[2].ace.mask)
    BY <2>1, DescribedInFull
  <2>3. /\ l.key = p[2].ace.key
        /\ l.revoked = DescribeMask(p[1].ace.key, p[1].ace.mask \ p[2].ace.mask)
    BY <1>2 DEF DescribeMaskChange
  <2>4. l \in AceLines(list, acl)
    BY <1>2 DEF AceLines
  <2> QED
    BY <2>1, <2>2, <2>3, <2>4 DEF Losing, RevokingLines
<1>3. ASSUME NEW p \in acl.added, NEW l, l = DescribeWholeAce(list, "added", p)
      PROVE  l \notin those
  <2>1. l.revoked = {}
    BY <1>3 DEF DescribeWholeAce
  <2> QED
    BY <2>1, NothingGranted DEF RevokingLines
<1>4. those = inA \cup inC
  <2>1. A \in SUBSET acl.removed /\ C \in SUBSET acl.changed
    BY DEF Carrying, Losing
  <2>2. ASSUME NEW l \in those PROVE l \in inA \cup inC
    <3>1. \/ \E p \in acl.removed : l = DescribeWholeAce(list, "removed", p)
          \/ \E p \in acl.changed : l = DescribeMaskChange(list, p[1], p[2])
          \/ \E p \in acl.added : l = DescribeWholeAce(list, "added", p)
      BY DEF AceLines, RevokingLines
    <3> HIDE DEF those, A, C
    <3> QED
      BY <1>1, <1>2, <1>3, <2>2, <3>1
  <2> HIDE DEF those, A, C
  <2>3. ASSUME NEW l \in inA \cup inC PROVE l \in those
    BY <1>1, <1>2, <2>1
  <2> QED
    BY <2>2, <2>3
<1>5. inA \cap inC = {}
  <2> HIDE DEF A, C
  <2>1. \A l \in inA : l.says = "removed"
    BY DEF DescribeWholeAce
  <2>2. \A l \in inC : l.says = "changed"
    <3>1. \A was, is : DescribeMaskChange(list, was, is).says = "changed"
      BY DEF DescribeMaskChange
    <3> QED
      BY <3>1
  <2> HIDE DEF inA, inC
  <2> QED
    BY <2>1, <2>2
<1>6. IsFiniteSet(A) /\ IsFiniteSet(C) /\ C \in SUBSET (Entries \X Entries)
  <2>1. A \in SUBSET acl.removed /\ C \in SUBSET acl.changed
    BY DEF Carrying, Losing
  <2> HIDE DEF A, C
  <2> QED
    BY <2>1, FS_Subset DEF SoundACL
<1> HIDE DEF A, C, those
<1>7. /\ IsFiniteSet(inA) /\ Cardinality(inA) = Cardinality(A)
      /\ IsFiniteSet(inC) /\ Cardinality(inC) = Cardinality(C)
  <2>1. IsFiniteSet(inA) /\ Cardinality(inA) = Cardinality(A)
    BY <1>6, CountWholeAces
  <2>2. IsFiniteSet(inC) /\ Cardinality(inC) = Cardinality(C)
    BY <1>6, CountMaskChanges
  <2> QED
    BY <2>1, <2>2
<1> HIDE DEF inA, inC
<1>8. Cardinality(inA \cup inC) = Cardinality(inA) + Cardinality(inC)
  BY <1>5, <1>7, CountBoth
<1>9. Cardinality(those) = Cardinality(A) + Cardinality(C)
  BY <1>4, <1>7, <1>8
<1> QED
  BY <1>9 DEF those, A, C

-----------------------------------------------------------------------------
(* Lemmas about one list, compared, filtered and printed.                  *)

LEMMA SoundComparison ==
  ASSUME NEW was \in Lists, NEW is \in Lists, NEW acl \in DiffACL(was, is)
  PROVE  SoundACL(acl)
<1>1. PICK m : ComesOf(acl, Select(was), Select(is), m)
  BY DiffACLComesOf
<1> DEFINE before == Select(was)
           after == Select(is)
<1>2. /\ IsFiniteSet(before) /\ before \in SUBSET Entries
      /\ IsFiniteSet(after) /\ after \in SUBSET Entries
  BY SelectType
<1> HIDE DEF before, after
<1>3. /\ m \in SUBSET (before \X after) /\ \A p \in m : p[1].ace.key = p[2].ace.key
      /\ acl.removed = before \ Firsts(m) /\ acl.added = after \ Seconds(m)
      /\ acl.changed = {p \in m : p[1].ace # p[2].ace}
  BY <1>1 DEF ComesOf, Matching, Alike, before, after
<1>4. IsFiniteSet(acl.removed) /\ IsFiniteSet(acl.added)
  <2>1. acl.removed \in SUBSET before /\ acl.added \in SUBSET after
    BY <1>3
  <2> QED
    BY <1>2, <2>1, FS_Subset
<1>5. IsFiniteSet(before \X after)
  BY <1>2, FS_Product
<1>6. acl.changed \in SUBSET (before \X after)
  BY <1>3
<1>7. IsFiniteSet(acl.changed)
  BY <1>5, <1>6, FS_Subset
<1>8. acl.changed \in SUBSET (Entries \X Entries)
  BY <1>2, <1>6
<1> QED
  BY <1>2, <1>3, <1>4, <1>7, <1>8 DEF SoundACL

(* What the filters leave of a comparison of lists.                        *)
FiltersLeave(acl, left) == left = IF IsActive THEN FilterACL(acl) ELSE acl

LEMMA FilterSound ==
  ASSUME NEW acl, SoundACL(acl), NEW left, FiltersLeave(acl, left)
  PROVE  SoundACL(left)
<1>1. CASE left = FilterACL(acl)
  <2>1. /\ left.added \in SUBSET acl.added /\ left.removed \in SUBSET acl.removed
        /\ left.changed \in SUBSET acl.changed
    BY <1>1 DEF FilterACL
  <2>2. IsFiniteSet(left.added) /\ IsFiniteSet(left.removed) /\ IsFiniteSet(left.changed)
    BY <2>1, FS_Subset DEF SoundACL
  <2> QED
    BY <2>1, <2>2 DEF SoundACL
<1> QED
  BY <1>1 DEF FiltersLeave

(* They drop nothing that a reader counts.                                 *)
LEMMA FilterKeepsEntries ==
  ASSUME NEW acl, NEW left, FiltersLeave(acl, left), NEW key \in Counted
  PROVE  /\ OfKey(left.added, key) = OfKey(acl.added, key)
         /\ OfKey(left.removed, key) = OfKey(acl.removed, key)
<1>1. CASE left = FilterACL(acl)
  <2>1. \A p : p.ace.key = key => KeepsEntry(p.ace)
    BY DEF Counted, KeepsEntry
  <2> QED
    BY <1>1, <2>1 DEF FilterACL, OfKey
<1> QED
  BY <1>1 DEF FiltersLeave

LEMMA FilterKeepsRights ==
  ASSUME NEW acl, SoundACL(acl), NEW left, FiltersLeave(acl, left), NEW c \in Visible
  PROVE  /\ Carrying(left.added, c[1], c[2]) = Carrying(acl.added, c[1], c[2])
         /\ Carrying(left.removed, c[1], c[2]) = Carrying(acl.removed, c[1], c[2])
         /\ Gaining(left.changed, c[1], c[2]) = Gaining(acl.changed, c[1], c[2])
         /\ Losing(left.changed, c[1], c[2]) = Losing(acl.changed, c[1], c[2])
<1>1. CASE left = FilterACL(acl)
  <2>1. /\ Matches(TrusteeOf[c[1]])
        /\ options.onlyNotable => <<c[1], c[2]>> \in Notable
    <3>1. c = <<c[1], c[2]>>
      BY DEF Visible
    <3> QED
      BY <3>1 DEF Visible
  <2> DEFINE key == c[1]
             r == c[2]
  <2> HIDE DEF key, r
  <2>2. \A mask \in SUBSET Rights : r \in Grants(key, mask) =>
          (options.onlyNotable => HasNotable(key, mask))
    BY <2>1, NotableIsSaid DEF key, r
  <2>3. ASSUME NEW p \in Entries, p.ace.key = key, r \in Grants(p.ace.key, p.ace.mask)
        PROVE  KeepsEntry(p.ace)
    BY <2>1, <2>2, <2>3, EntryParts DEF KeepsEntry, key
  <2>4. ASSUME NEW p \in acl.changed, p[2].ace.key = key,
               \/ r \in Grants(key, p[2].ace.mask \ p[1].ace.mask)
               \/ r \in Grants(key, p[1].ace.mask \ p[2].ace.mask)
        PROVE  KeepsMaskChange(p[1].ace, p[2].ace)
    <3>1. /\ p[1].ace.key = key
          /\ p[2].ace.mask \ p[1].ace.mask \in SUBSET Rights
          /\ p[1].ace.mask \ p[2].ace.mask \in SUBSET Rights
      BY <2>4, EntryParts DEF SoundACL
    <3>2. options.onlyNotable => \/ HasNotable(key, p[2].ace.mask \ p[1].ace.mask)
                                 \/ HasNotable(key, p[1].ace.mask \ p[2].ace.mask)
      BY <2>2, <2>4, <3>1
    <3> QED
      BY <2>1, <2>4, <3>1, <3>2 DEF KeepsMaskChange, key
  <2>5. /\ left.added = {p \in acl.added : KeepsEntry(p.ace)}
        /\ left.removed = {p \in acl.removed : KeepsEntry(p.ace)}
        /\ left.changed = {p \in acl.changed : KeepsMaskChange(p[1].ace, p[2].ace)}
    BY <1>1 DEF FilterACL
  <2>6. acl.added \in SUBSET Entries /\ acl.removed \in SUBSET Entries
    BY DEF SoundACL
  <2>7. Carrying(left.added, key, r) = Carrying(acl.added, key, r)
    BY <2>3, <2>5, <2>6 DEF Carrying
  <2>8. Carrying(left.removed, key, r) = Carrying(acl.removed, key, r)
    BY <2>3, <2>5, <2>6 DEF Carrying
  <2>9. Gaining(left.changed, key, r) = Gaining(acl.changed, key, r)
    BY <2>4, <2>5 DEF Gaining
  <2>10. Losing(left.changed, key, r) = Losing(acl.changed, key, r)
    BY <2>4, <2>5 DEF Losing
  <2> QED
    BY <2>7, <2>8, <2>9, <2>10 DEF key, r
<1> QED
  BY <1>1 DEF FiltersLeave

(* A reader who adds up the lines of a list has what it holds now.         *)
LEMMA EntriesApplied ==
  ASSUME NEW was \in Lists, NEW is \in Lists, NEW acl \in DiffACL(was, is),
         NEW left, FiltersLeave(acl, left), NEW key \in Counted
  PROVE  /\ Cardinality(OfKey(Select(was), key)) \in Nat
         /\ Cardinality(OfKey(Select(was), key)) + Cardinality(OfKey(left.added, key))
              - Cardinality(OfKey(left.removed, key)) = Cardinality(OfKey(Select(is), key))
<1> DEFINE before == Select(was)
           after == Select(is)
<1>1. PICK m : ComesOf(acl, before, after, m)
  BY DiffACLComesOf
<1>2. TwoSelections(before, after)
  BY SelectType DEF TwoSelections
<1> HIDE DEF before, after
<1>3. /\ Cardinality(OfKey(before, key)) \in Nat /\ Cardinality(OfKey(after, key)) \in Nat
      /\ Cardinality(OfKey(acl.added, key)) \in Nat
      /\ Cardinality(OfKey(acl.removed, key)) \in Nat
      /\ Cardinality(OfKey(before, key)) + Cardinality(OfKey(acl.added, key))
           = Cardinality(OfKey(after, key)) + Cardinality(OfKey(acl.removed, key))
  BY <1>1, <1>2, EntriesAddUp
<1>4. OfKey(left.added, key) = OfKey(acl.added, key) /\ OfKey(left.removed, key) = OfKey(acl.removed, key)
  BY FilterKeepsEntries
<1>5. /\ Cardinality(OfKey(before, key)) \in Nat
      /\ Cardinality(OfKey(before, key)) + Cardinality(OfKey(left.added, key))
           - Cardinality(OfKey(left.removed, key)) = Cardinality(OfKey(after, key))
  BY <1>3, <1>4
<1> QED
  BY <1>5 DEF before, after

(* Of what a reader counts, the lines the filters leave are wrong about the *)
(* rights all of the lines are: the name that moved is a right that moved. *)
LEMMA FilterKeepsDoubts ==
  ASSUME NEW acl, SoundACL(acl), NEW left, FiltersLeave(acl, left), NEW c \in Visible,
         NothingSaidToMove(left.changed, c[1], c[2])
  PROVE  NothingSaidToMove(acl.changed, c[1], c[2])
<1> DEFINE key == c[1]
           r == c[2]
<1>1. /\ Gaining(left.changed, key, r) = Gaining(acl.changed, key, r)
      /\ Losing(left.changed, key, r) = Losing(acl.changed, key, r)
  BY FilterKeepsRights
<1> HIDE DEF key, r
<1>2. ASSUME NEW p \in acl.changed, p[2].ace.key = key,
             r \in SaidToMove(key, p[1].ace.mask, p[2].ace.mask)
      PROVE  FALSE
  <2> DEFINE was == p[1].ace.mask
             is == p[2].ace.mask
  <2>1. was \in SUBSET Rights /\ is \in SUBSET Rights
    BY <1>2, EntryParts DEF SoundACL
  <2>2. r \in SaidToMove(key, was, is)
    BY <1>2
  <2> HIDE DEF was, is
  <2>3. r \in Grants(key, is \ was) \/ r \in Grants(key, was \ is)
    <3>1. ~Moves(key, was, is, r)
      BY <2>1, <2>2, MovedRights
    <3>2. r \in Grants(key, was) /\ r \in Grants(key, is)
      BY <2>2 DEF SaidToMove
    <3> QED
      BY <3>1, <3>2 DEF Moves
  <2>4. p \in Gaining(acl.changed, key, r) \/ p \in Losing(acl.changed, key, r)
    BY <1>2, <2>3 DEF Gaining, Losing, was, is
  <2>5. p \in left.changed
    BY <1>1, <2>4 DEF Gaining, Losing
  <2> QED
    BY <1>2, <2>5 DEF NothingSaidToMove, key, r
<1> QED
  BY <1>2 DEF NothingSaidToMove, key, r

LEMMA RightsApplied ==
  ASSUME NEW was \in Lists, NEW is \in Lists, NEW acl \in DiffACL(was, is),
         NEW left, FiltersLeave(acl, left), NEW c \in Visible,
         NothingSaidToMove(left.changed, c[1], c[2])
  PROVE  /\ Cardinality(Carrying(Select(was), c[1], c[2])) \in Nat
         /\ Cardinality(Carrying(Select(was), c[1], c[2]))
              + (Cardinality(Carrying(left.added, c[1], c[2]))
                 + Cardinality(Gaining(left.changed, c[1], c[2])))
              - (Cardinality(Carrying(left.removed, c[1], c[2]))
                 + Cardinality(Losing(left.changed, c[1], c[2])))
              = Cardinality(Carrying(Select(is), c[1], c[2]))
<1> DEFINE before == Select(was)
           after == Select(is)
           key == c[1]
           r == c[2]
<1>1. PICK m : ComesOf(acl, before, after, m)
  BY DiffACLComesOf
<1>2. TwoSelections(before, after)
  BY SelectType DEF TwoSelections
<1>3. SoundACL(acl)
  BY SoundComparison
<1>4. NothingSaidToMove(acl.changed, key, r)
  BY <1>3, FilterKeepsDoubts
<1>5. /\ Carrying(left.added, key, r) = Carrying(acl.added, key, r)
      /\ Carrying(left.removed, key, r) = Carrying(acl.removed, key, r)
      /\ Gaining(left.changed, key, r) = Gaining(acl.changed, key, r)
      /\ Losing(left.changed, key, r) = Losing(acl.changed, key, r)
  BY <1>3, FilterKeepsRights
<1> HIDE DEF before, after, key, r
<1>6. /\ Cardinality(Carrying(before, key, r)) \in Nat
      /\ Cardinality(Carrying(after, key, r)) \in Nat
      /\ Cardinality(Carrying(acl.added, key, r)) \in Nat
      /\ Cardinality(Carrying(acl.removed, key, r)) \in Nat
      /\ Cardinality(Gaining(acl.changed, key, r)) \in Nat
      /\ Cardinality(Losing(acl.changed, key, r)) \in Nat
      /\ Cardinality(Carrying(before, key, r)) + Cardinality(Carrying(acl.added, key, r))
           + Cardinality(Gaining(acl.changed, key, r))
         = Cardinality(Carrying(after, key, r)) + Cardinality(Carrying(acl.removed, key, r))
           + Cardinality(Losing(acl.changed, key, r))
  BY <1>1, <1>2, <1>4, RightsAddUp
<1>7. /\ Cardinality(Carrying(before, key, r)) \in Nat
      /\ Cardinality(Carrying(before, key, r))
           + (Cardinality(Carrying(left.added, key, r)) + Cardinality(Gaining(left.changed, key, r)))
           - (Cardinality(Carrying(left.removed, key, r)) + Cardinality(Losing(left.changed, key, r)))
         = Cardinality(Carrying(after, key, r))
  BY <1>5, <1>6
<1> QED
  BY <1>7 DEF before, after, key, r

LEMMA PresenceApplied ==
  ASSUME options \in Options, NEW was, NEW is, NEW acl, acl.presence = Presence(was, is),
         NEW left, FiltersLeave(acl, left), NEW list
  PROVE  (IF PresenceOf(list, left) = {} THEN ListProfile(was).present
          ELSE \A l \in PresenceOf(list, left) : l.presence # "removed")
           = ListProfile(is).present
<1>1. /\ ListProfile(was).present = (was # Absent /\ ~options.trustee)
      /\ ListProfile(is).present = (is # Absent /\ ~options.trustee)
  BY DEF ListProfile
<1>2. /\ left.presence = "same" => PresenceOf(list, left) = {}
      /\ left.presence # "same" => PresenceOf(list, left) = {[about |-> list, presence |-> left.presence]}
  BY DEF PresenceOf
<1>3. /\ Presence(was, is) = "removed" => was # Absent /\ is = Absent
      /\ Presence(was, is) \in {"added", "emptied"} => is # Absent
      /\ Presence(was, is) = "same" => (was = Absent <=> is = Absent)
      /\ Presence(was, is) \in {"removed", "added", "emptied", "same"}
  <2>1. CASE was # Absent /\ is = Absent
    <3>1. Presence(was, is) = "removed"
      BY <2>1, DescriptorsAssumption, Zenon DEF Presence
    <3> QED
      BY <2>1, <3>1
  <2>2. CASE was = Absent /\ is # Absent
    <3>1. Presence(was, is) = "added"
      BY <2>2, Zenon DEF Presence
    <3> QED
      BY <2>2, <3>1
  <2>3. CASE was \notin {Absent, <<>>} /\ is = <<>>
    <3>1. is # Absent
      BY <2>3, DescriptorsAssumption
    <3>2. Presence(was, is) = "emptied"
      BY <2>3, <3>1, Zenon DEF Presence
    <3> QED
      BY <2>3, <3>1, <3>2
  <2>4. CASE ~(was # Absent /\ is = Absent) /\ ~(was = Absent /\ is # Absent)
             /\ ~(was \notin {Absent, <<>>} /\ is = <<>>)
    <3>1. Presence(was, is) = "same"
      BY <2>4, Zenon DEF Presence
    <3> QED
      BY <2>4, <3>1
  <2> QED
    BY <2>1, <2>2, <2>3, <2>4
<1>4. CASE options.trustee
  <2>1. left.presence = "same"
    BY <1>4 DEF FiltersLeave, FilterACL, IsActive
  <2> QED
    BY <1>1, <1>2, <1>4, <2>1
<1>5. CASE ~options.trustee
  <2>1. left.presence = Presence(was, is)
    BY <1>5 DEF FiltersLeave, FilterACL
  <2>2. CASE left.presence = "same"
    BY <1>1, <1>2, <1>3, <2>1, <2>2
  <2>3. CASE left.presence # "same"
    <3>1. (\A l \in PresenceOf(list, left) : l.presence # "removed") <=> left.presence # "removed"
      <4> DEFINE only == [about |-> list, presence |-> left.presence]
      <4>1. PresenceOf(list, left) = {only} /\ only.presence = left.presence
        BY <1>2, <2>3
      <4> HIDE DEF only
      <4> QED
        BY <4>1
    <3>2. PresenceOf(list, left) # {}
      BY <1>2, <2>3
    <3>3. left.presence # "removed" <=> is # Absent
      BY <1>3, <2>1, <2>3
    <3> QED
      BY <1>1, <1>5, <3>1, <3>2, <3>3
  <2> QED
    BY <2>2, <2>3
<1> QED
  BY <1>4, <1>5 DEF Options

(* What is not in doubt among the lines is in no mask change wrong.        *)
LEMMA NothingInDoubt ==
  ASSUME NEW list, NEW acl, NEW c, ~InDoubt(AceLines(list, acl), c)
  PROVE  NothingSaidToMove(acl.changed, c[1], c[2])
<1> SUFFICES ASSUME NEW p \in acl.changed, p[2].ace.key = c[1]
             PROVE  c[2] \notin SaidToMove(c[1], p[1].ace.mask, p[2].ace.mask)
  BY DEF NothingSaidToMove
<1> DEFINE l == DescribeMaskChange(list, p[1], p[2])
<1>1. l \in AceLines(list, acl)
  BY DEF AceLines
<1>2. l.says = "changed" /\ l.key = c[1] /\ l.at[1] = p[1] /\ l.at[2] = p[2]
  BY DEF DescribeMaskChange
<1> HIDE DEF l
<1> QED
  BY <1>1, <1>2 DEF InDoubt

LEMMA ListApplied ==
  ASSUME options \in Options, NEW was \in Lists, NEW is \in Lists,
         NEW acl \in DiffACL(was, is), NEW left, FiltersLeave(acl, left), NEW list, NEW lines,
         EntryLines(lines, list) = AceLines(list, left),
         PresenceLines(lines, list) = PresenceOf(list, left)
  PROVE  ApplyList(lines, list, ListProfile(was), ListProfile(is)) = ListProfile(is)
<1>1. SoundACL(left)
  BY SoundComparison, FilterSound
<1>2. \A key : /\ Cardinality({l \in AceLines(list, left) : l.says = "added" /\ l.key = key})
                   = Cardinality(OfKey(left.added, key))
              /\ Cardinality({l \in AceLines(list, left) : l.says = "removed" /\ l.key = key})
                   = Cardinality(OfKey(left.removed, key))
  BY <1>1, LinesOfKey
<1> DEFINE entries == AceLines(list, left)
           Saying(says, key) == Cardinality({l \in entries : l.says = says /\ l.key = key})
           Granting(c) == Cardinality(GrantingLines(entries, c[1], c[2]))
           Revoking(c) == Cardinality(RevokingLines(entries, c[1], c[2]))
           present == IF PresenceOf(list, left) = {} THEN ListProfile(was).present
                      ELSE \A l \in PresenceOf(list, left) : l.presence # "removed"
           wasE == ListProfile(was).entries
           wasR == ListProfile(was).rights
           isR == ListProfile(is).rights
           told(c) == IF InDoubt(entries, c) THEN isR[c] ELSE wasR[c] + Granting(c) - Revoking(c)
<1>3. ApplyList(lines, list, ListProfile(was), ListProfile(is))
        = [present |-> present,
           entries |-> [key \in Counted |-> wasE[key] + Saying("added", key) - Saying("removed", key)],
           rights |-> [c \in Visible |-> told(c)]]
  BY DEF ApplyList, GrantingLines, RevokingLines
<1>4. ListProfile(is)
        = [present |-> ListProfile(is).present,
           entries |-> [key \in Counted |-> Cardinality(OfKey(Select(is), key))],
           rights |-> [c \in Visible |-> Cardinality(Carrying(Select(is), c[1], c[2]))]]
  BY DEF ListProfile, OfKey, Carrying
<1>5. /\ \A key \in Counted : wasE[key] = Cardinality(OfKey(Select(was), key))
      /\ \A c \in Visible : wasR[c] = Cardinality(Carrying(Select(was), c[1], c[2]))
      /\ \A c \in Visible : isR[c] = Cardinality(Carrying(Select(is), c[1], c[2]))
  BY DEF ListProfile, OfKey, Carrying
<1>6. present = ListProfile(is).present
  BY DiffACLComesOf, PresenceApplied
<1>7. \A key \in Counted : wasE[key] + Saying("added", key) - Saying("removed", key)
                             = Cardinality(OfKey(Select(is), key))
  <2> TAKE key \in Counted
  <2>1. /\ Saying("added", key) = Cardinality(OfKey(left.added, key))
        /\ Saying("removed", key) = Cardinality(OfKey(left.removed, key))
    BY <1>2
  <2>2. Cardinality(OfKey(Select(was), key)) + Cardinality(OfKey(left.added, key))
          - Cardinality(OfKey(left.removed, key)) = Cardinality(OfKey(Select(is), key))
    BY EntriesApplied
  <2> HIDE DEF Saying, wasE
  <2> QED
    BY <1>5, <2>1, <2>2
<1>8. ASSUME NEW c \in Visible, ~InDoubt(entries, c)
      PROVE  wasR[c] + Granting(c) - Revoking(c) = Cardinality(Carrying(Select(is), c[1], c[2]))
  <2>1. NothingSaidToMove(left.changed, c[1], c[2])
    BY <1>8, NothingInDoubt
  <2>2. Granting(c) = Cardinality(Carrying(left.added, c[1], c[2]))
                        + Cardinality(Gaining(left.changed, c[1], c[2]))
    BY <1>1, LinesGranting
  <2>3. Revoking(c) = Cardinality(Carrying(left.removed, c[1], c[2]))
                        + Cardinality(Losing(left.changed, c[1], c[2]))
    BY <1>1, LinesRevoking
  <2>4. Cardinality(Carrying(Select(was), c[1], c[2]))
          + (Cardinality(Carrying(left.added, c[1], c[2]))
             + Cardinality(Gaining(left.changed, c[1], c[2])))
          - (Cardinality(Carrying(left.removed, c[1], c[2]))
             + Cardinality(Losing(left.changed, c[1], c[2])))
          = Cardinality(Carrying(Select(is), c[1], c[2]))
    BY <2>1, RightsApplied
  <2> HIDE DEF Granting, Revoking, wasR
  <2> QED
    BY <1>5, <2>2, <2>3, <2>4
<1>9. \A c \in Visible : told(c) = Cardinality(Carrying(Select(is), c[1], c[2]))
  <2> HIDE DEF Granting, Revoking, wasR, isR, entries
  <2> QED
    BY <1>5, <1>8
<1> HIDE DEF Saying, told, present, wasE
<1> QED
  BY <1>3, <1>4, <1>6, <1>7, <1>9

-----------------------------------------------------------------------------
(* Lemmas about a descriptor, compared, filtered and printed.              *)

SaclOf(d) == IF options.includeSACL THEN d.sacl ELSE Absent

LEMMA Readable ==
  ASSUME NEW d \in Descriptors
  PROVE  /\ d.owner \in SIDs \cup {NoSID} /\ d.group \in SIDs \cup {NoSID}
         /\ d.control \in SUBSET ControlFlags
         /\ d.dacl \in Lists /\ SaclOf(d) \in Lists
         /\ Profile(d) = [owner |-> WhoIs(d.owner), group |-> WhoIs(d.group),
                          control |-> IF options.trustee THEN {} ELSE d.control,
                          dacl |-> ListProfile(d.dacl), sacl |-> ListProfile(SaclOf(d))]
<1>1. /\ d.owner \in SIDs \cup {NoSID} /\ d.group \in SIDs \cup {NoSID}
      /\ d.control \in SUBSET ControlFlags /\ d.dacl \in Lists /\ d.sacl \in Lists
  BY DescriptorsAssumption
<1>2. Absent \in Lists
  BY DEF Lists
<1> QED
  BY <1>1, <1>2 DEF SaclOf, Profile

LEMMA Compared ==
  ASSUME NEW was \in Descriptors, NEW is \in Descriptors, NEW c \in DiffDescriptors(was, is)
  PROVE  /\ c.kind = "changed" /\ c.parseError = FALSE
         /\ c.owner = DiffValue(was.owner, is.owner) /\ c.group = DiffValue(was.group, is.group)
         /\ c.control = DiffValue(was.control, is.control)
         /\ c.dacl \in DiffACL(was.dacl, is.dacl) /\ c.sacl \in DiffACL(SaclOf(was), SaclOf(is))
         /\ c = [kind |-> c.kind, parseError |-> c.parseError, owner |-> c.owner,
                 group |-> c.group, control |-> c.control, dacl |-> c.dacl, sacl |-> c.sacl]
<1>1. {was, is} \cap Unreadable = {}
  BY DescriptorsAssumption
<1> DEFINE dacls == DiffACL(was.dacl, is.dacl)
           sacls == IF options.includeSACL THEN DiffACL(was.sacl, is.sacl) ELSE {NoACLChanges}
           change(dacl, sacl) ==
             [kind |-> "changed", parseError |-> FALSE,
              owner |-> DiffValue(was.owner, is.owner), group |-> DiffValue(was.group, is.group),
              control |-> DiffValue(was.control, is.control), dacl |-> dacl, sacl |-> sacl]
<1>2. \E dacl \in dacls, sacl \in sacls : c = change(dacl, sacl)
  <2> DEFINE unread == {was, is} \cap Unreadable
             all == {change(dacl, sacl) : dacl \in dacls, sacl \in sacls}
  <2>1. DiffDescriptors(was, is) = IF unread # {} THEN {Whole("changed", TRUE)} ELSE all
    BY DEF DiffDescriptors
  <2>2. unread = {}
    BY <1>1
  <2> HIDE DEF unread
  <2>3. c \in all
    <3> HIDE DEF all
    <3> QED
      BY <2>1, <2>2
  <2> HIDE DEF change, dacls, sacls
  <2> QED
    BY <2>3
<1>3. PICK dacl \in dacls, sacl \in sacls : c = change(dacl, sacl)
  BY <1>2
<1> HIDE DEF change
<1>4. sacl \in DiffACL(SaclOf(was), SaclOf(is))
  BY <1>3, NoACLChangesOfNothing DEF SaclOf
<1> HIDE DEF dacls, sacls
<1>5. c = change(dacl, sacl) /\ dacl \in dacls
  BY <1>3
<1> QED
  BY <1>4, <1>5 DEF change, dacls

(* What the filters leave of a change, field by field.                     *)
IdentityLeft(change, left) == left = IF IsActive THEN KeepsIdentity(change) ELSE change

ChangeLeft(c) == IF IsActive THEN FilterChange(c) ELSE c

LEMMA FieldsLeft ==
  ASSUME NEW was \in Descriptors, NEW is \in Descriptors, NEW c \in DiffDescriptors(was, is)
  PROVE  /\ ChangeLeft(c).kind = "changed" /\ ChangeLeft(c).parseError = FALSE
         /\ IdentityLeft(c.owner, ChangeLeft(c).owner) /\ IdentityLeft(c.group, ChangeLeft(c).group)
         /\ ChangeLeft(c).control = IF options.trustee THEN None ELSE c.control
         /\ FiltersLeave(c.dacl, ChangeLeft(c).dacl) /\ FiltersLeave(c.sacl, ChangeLeft(c).sacl)
<1>1. /\ c.kind = "changed" /\ c.parseError = FALSE
      /\ c = [kind |-> c.kind, parseError |-> c.parseError, owner |-> c.owner,
              group |-> c.group, control |-> c.control, dacl |-> c.dacl, sacl |-> c.sacl]
  BY Compared
<1>2. CASE IsActive
  <2>1. ChangeLeft(c)
          = [c EXCEPT !.owner = KeepsIdentity(@), !.group = KeepsIdentity(@),
                      !.control = IF options.trustee THEN None ELSE @,
                      !.dacl = FilterACL(@), !.sacl = FilterACL(@)]
    BY <1>1, <1>2 DEF ChangeLeft, FilterChange
  <2>2. ChangeLeft(c)
          = [kind |-> c.kind, parseError |-> c.parseError, owner |-> KeepsIdentity(c.owner),
             group |-> KeepsIdentity(c.group),
             control |-> IF options.trustee THEN None ELSE c.control,
             dacl |-> FilterACL(c.dacl), sacl |-> FilterACL(c.sacl)]
    BY <1>1, <2>1
  <2> QED
    <3>1. /\ ChangeLeft(c).owner = KeepsIdentity(c.owner)
          /\ ChangeLeft(c).group = KeepsIdentity(c.group)
          /\ ChangeLeft(c).control = IF options.trustee THEN None ELSE c.control
          /\ ChangeLeft(c).dacl = FilterACL(c.dacl) /\ ChangeLeft(c).sacl = FilterACL(c.sacl)
          /\ ChangeLeft(c).kind = c.kind /\ ChangeLeft(c).parseError = c.parseError
      BY <2>2
    <3> QED
      <4>1. IdentityLeft(c.owner, ChangeLeft(c).owner) /\ IdentityLeft(c.group, ChangeLeft(c).group)
        BY <1>2, <3>1 DEF IdentityLeft
      <4>2. FiltersLeave(c.dacl, ChangeLeft(c).dacl) /\ FiltersLeave(c.sacl, ChangeLeft(c).sacl)
        BY <1>2, <3>1 DEF FiltersLeave
      <4>3. ChangeLeft(c).kind = "changed" /\ ChangeLeft(c).parseError = FALSE
        BY <1>1, <3>1
      <4> QED
        BY <3>1, <4>1, <4>2, <4>3
<1>3. CASE ~IsActive
  BY <1>1, <1>3 DEF ChangeLeft, IdentityLeft, FiltersLeave, IsActive
<1> QED
  BY <1>2, <1>3

LEMMA PairsAreNotNone ==
  /\ \A was, is \in SIDs \cup {NoSID} : <<was, is>> # None
  /\ \A was, is \in SUBSET ControlFlags : <<was, is>> # None
BY NoneAssumption DEF Pairs

LEMMA IdentityApplied ==
  ASSUME NEW was \in SIDs \cup {NoSID}, NEW is \in SIDs \cup {NoSID},
         NEW left, IdentityLeft(DiffValue(was, is), left), NEW label, NEW lines,
         {l \in lines : l.about = label} = DescribeIdentityChange(label, left)
  PROVE  ApplyIdentity(lines, label, WhoIs(was)) = WhoIs(is)
<1>1. <<was, is>> # None
  BY PairsAreNotNone
<1>2. CASE left = None
  <2>1. ~\E l \in lines : l.about = label
    BY <1>2 DEF DescribeIdentityChange
  <2>2. WhoIs(was) = WhoIs(is)
    <3>1. was = is \/ ~(Matches(was) \/ Matches(is))
      BY <1>1, <1>2 DEF IdentityLeft, KeepsIdentity, DiffValue
    <3> QED
      BY <3>1 DEF WhoIs
  <2> QED
    BY <2>1, <2>2 DEF ApplyIdentity
<1>3. CASE left # None
  <2>1. left = <<was, is>>
    BY <1>3 DEF IdentityLeft, KeepsIdentity, DiffValue
  <2> DEFINE only == [about |-> label, was |-> was, now |-> is]
  <2>2. DescribeIdentityChange(label, left) = {only}
    BY <1>3, <2>1 DEF DescribeIdentityChange
  <2>3. only.now = is
    OBVIOUS
  <2> HIDE DEF only
  <2>4. only \in lines /\ only.about = label /\ \A l \in lines : l.about = label => l = only
    BY <2>2
  <2>5. (CHOOSE l \in lines : l.about = label) = only
    BY <2>4
  <2> QED
    BY <2>3, <2>4, <2>5 DEF ApplyIdentity
<1> QED
  BY <1>2, <1>3

FlagsKnown(flags) == IF options.trustee THEN {} ELSE flags
FlagsLeft(change) == IF options.trustee THEN None ELSE change

LEMMA FlagsApplied ==
  ASSUME options \in Options,
         NEW was \in SUBSET ControlFlags, NEW is \in SUBSET ControlFlags, NEW left,
         left = FlagsLeft(DiffValue(was, is)), NEW lines,
         {l \in lines : l.about = "control"} = DescribeFlagsChange(left)
  PROVE  ApplyFlags(lines, FlagsKnown(was)) = FlagsKnown(is)
<1> DEFINE Moved(how) == {l.flag : l \in {k \in lines : k.about = "control" /\ k.moved = how}}
<1>1. <<was, is>> # None
  BY PairsAreNotNone
<1>2. \A how : Moved(how) = {l.flag : l \in {k \in DescribeFlagsChange(left) : k.moved = how}}
  OBVIOUS
<1>3. CASE left = None
  <2>1. DescribeFlagsChange(left) = {}
    BY <1>3 DEF DescribeFlagsChange
  <2>2. Moved("set") = {} /\ Moved("cleared") = {}
    BY <2>1
  <2>3. options.trustee \/ was = is
    BY <1>1, <1>3 DEF DiffValue, FlagsLeft
  <2> QED
    BY <2>2, <2>3 DEF ApplyFlags, FlagsKnown
<1>4. CASE left # None
  <2>1. ~options.trustee /\ left = <<was, is>>
    BY <1>4 DEF DiffValue, FlagsLeft
  <2>2. DescribeFlagsChange(left)
          = {[about |-> "control", flag |-> f, moved |-> "set"] : f \in is \ was}
            \cup {[about |-> "control", flag |-> f, moved |-> "cleared"] : f \in was \ is}
    BY <1>4, <2>1 DEF DescribeFlagsChange
  <2>3. \A l \in DescribeFlagsChange(left) :
          \/ l.moved = "set" /\ l.flag \in is \ was
          \/ l.moved = "cleared" /\ l.flag \in was \ is
    BY <2>2
  <2>4. ASSUME NEW f \in is \ was
        PROVE  \E l \in DescribeFlagsChange(left) : l.moved = "set" /\ l.flag = f
    <3>1. [about |-> "control", flag |-> f, moved |-> "set"] \in DescribeFlagsChange(left)
      BY <2>2
    <3> QED
      BY <3>1
  <2>5. ASSUME NEW f \in was \ is
        PROVE  \E l \in DescribeFlagsChange(left) : l.moved = "cleared" /\ l.flag = f
    <3>1. [about |-> "control", flag |-> f, moved |-> "cleared"] \in DescribeFlagsChange(left)
      BY <2>2
    <3> QED
      BY <3>1
  <2>6. Moved("set") = is \ was
    BY <1>2, <2>3, <2>4
  <2>7. Moved("cleared") = was \ is
    BY <1>2, <2>3, <2>5
  <2> QED
    BY <2>1, <2>6, <2>7 DEF ApplyFlags, FlagsKnown
<1> QED
  BY <1>3, <1>4

(* Applied to what the object was known to be, the lines of a change say   *)
(* what it is now.                                                         *)
Applied(lines, was, now) ==
  [owner |-> ApplyIdentity(lines, "Owner", was.owner),
   group |-> ApplyIdentity(lines, "Group", was.group),
   control |-> ApplyFlags(lines, was.control),
   dacl |-> ApplyList(lines, "DACL", was.dacl, now.dacl),
   sacl |-> ApplyList(lines, "SACL", was.sacl, now.sacl)]

LEMMA ChangeApplied ==
  ASSUME options \in Options, NEW was \in Descriptors, NEW is \in Descriptors,
         NEW c \in DiffDescriptors(was, is)
  PROVE  Applied(Details(ChangeLeft(c)), Profile(was), Profile(is)) = Profile(is)
<1> DEFINE left == ChangeLeft(c)
           lines == Details(ChangeLeft(c))
<1>1. /\ left.parseError = FALSE
      /\ IdentityLeft(c.owner, left.owner) /\ IdentityLeft(c.group, left.group)
      /\ left.control = IF options.trustee THEN None ELSE c.control
      /\ FiltersLeave(c.dacl, left.dacl) /\ FiltersLeave(c.sacl, left.sacl)
  BY FieldsLeft
<1>2. /\ c.owner = DiffValue(was.owner, is.owner) /\ c.group = DiffValue(was.group, is.group)
      /\ c.control = DiffValue(was.control, is.control)
      /\ c.dacl \in DiffACL(was.dacl, is.dacl) /\ c.sacl \in DiffACL(SaclOf(was), SaclOf(is))
  BY Compared
<1>3. /\ {l \in lines : l.about = "Owner"} = DescribeIdentityChange("Owner", left.owner)
      /\ {l \in lines : l.about = "Group"} = DescribeIdentityChange("Group", left.group)
      /\ {l \in lines : l.about = "control"} = DescribeFlagsChange(left.control)
      /\ EntryLines(lines, "DACL") = AceLines("DACL", left.dacl)
      /\ EntryLines(lines, "SACL") = AceLines("SACL", left.sacl)
      /\ PresenceLines(lines, "DACL") = PresenceOf("DACL", left.dacl)
      /\ PresenceLines(lines, "SACL") = PresenceOf("SACL", left.sacl)
  BY <1>1, LinesOfChange
<1> HIDE DEF left, lines
<1>4. /\ was.owner \in SIDs \cup {NoSID} /\ was.group \in SIDs \cup {NoSID}
      /\ was.control \in SUBSET ControlFlags /\ was.dacl \in Lists /\ SaclOf(was) \in Lists
      /\ is.owner \in SIDs \cup {NoSID} /\ is.group \in SIDs \cup {NoSID}
      /\ is.control \in SUBSET ControlFlags /\ is.dacl \in Lists /\ SaclOf(is) \in Lists
  BY Readable
<1>5. /\ ApplyIdentity(lines, "Owner", WhoIs(was.owner)) = WhoIs(is.owner)
      /\ ApplyIdentity(lines, "Group", WhoIs(was.group)) = WhoIs(is.group)
  <2>1. \A a, b \in SIDs \cup {NoSID} : \A ch, label :
          /\ IdentityLeft(DiffValue(a, b), ch)
          /\ {l \in lines : l.about = label} = DescribeIdentityChange(label, ch)
          => ApplyIdentity(lines, label, WhoIs(a)) = WhoIs(b)
    BY IdentityApplied
  <2> QED
    BY <1>1, <1>2, <1>3, <1>4, <2>1
<1>6. ApplyFlags(lines, FlagsKnown(was.control)) = FlagsKnown(is.control)
  <2>1. left.control = FlagsLeft(DiffValue(was.control, is.control))
    BY <1>1, <1>2 DEF FlagsLeft
  <2>2. {l \in lines : l.about = "control"} = DescribeFlagsChange(left.control)
    BY <1>3
  <2>3. was.control \in SUBSET ControlFlags /\ is.control \in SUBSET ControlFlags
    BY <1>4
  <2> QED
    BY <2>1, <2>2, <2>3, FlagsApplied
<1>7. ApplyList(lines, "DACL", ListProfile(was.dacl), ListProfile(is.dacl)) = ListProfile(is.dacl)
  BY <1>1, <1>2, <1>3, <1>4, ListApplied
<1>8. ApplyList(lines, "SACL", ListProfile(SaclOf(was)), ListProfile(SaclOf(is)))
        = ListProfile(SaclOf(is))
  BY <1>1, <1>2, <1>3, <1>4, ListApplied
<1> DEFINE control(d) == FlagsKnown(d.control)
<1>9. /\ Profile(was) = [owner |-> WhoIs(was.owner), group |-> WhoIs(was.group),
                         control |-> control(was), dacl |-> ListProfile(was.dacl),
                         sacl |-> ListProfile(SaclOf(was))]
      /\ Profile(is) = [owner |-> WhoIs(is.owner), group |-> WhoIs(is.group),
                        control |-> control(is), dacl |-> ListProfile(is.dacl),
                        sacl |-> ListProfile(SaclOf(is))]
  BY Readable DEF FlagsKnown
<1>10. ApplyFlags(lines, control(was)) = control(is)
  BY <1>6
<1> HIDE DEF control
<1>11. Applied(lines, Profile(was), Profile(is)) = Profile(is)
  BY <1>5, <1>7, <1>8, <1>9, <1>10 DEF Applied
<1> QED
  BY <1>11 DEF lines

(* A change without anything to show leaves what was known as it was.      *)
LEMMA NothingApplied ==
  ASSUME options \in Options, NEW was \in Descriptors, NEW is \in Descriptors,
         NEW c \in DiffDescriptors(was, is), ~HasDetail(ChangeLeft(c))
  PROVE  Profile(was) = Profile(is)
<1> DEFINE left == ChangeLeft(c)
           lines == Details(ChangeLeft(c))
<1>1. left.parseError = FALSE
  BY FieldsLeft
<1>2. /\ left.owner = None /\ left.group = None /\ left.control = None
      /\ left.dacl = NoACLChanges /\ left.sacl = NoACLChanges
  BY DEF HasDetail
<1>3. /\ {l \in lines : l.about = "Owner"} = {}
      /\ {l \in lines : l.about = "Group"} = {}
      /\ {l \in lines : l.about = "control"} = {}
      /\ EntryLines(lines, "DACL") = {} /\ EntryLines(lines, "SACL") = {}
      /\ PresenceLines(lines, "DACL") = {} /\ PresenceLines(lines, "SACL") = {}
  <2>1. /\ DescribeIdentityChange("Owner", None) = {} /\ DescribeIdentityChange("Group", None) = {}
        /\ DescribeFlagsChange(None) = {}
    BY DEF DescribeIdentityChange, DescribeFlagsChange
  <2>2. \A list : AceLines(list, NoACLChanges) = {} /\ PresenceOf(list, NoACLChanges) = {}
    BY DEF AceLines, PresenceOf, NoACLChanges
  <2>3. /\ {l \in lines : l.about = "Owner"} = DescribeIdentityChange("Owner", left.owner)
        /\ {l \in lines : l.about = "Group"} = DescribeIdentityChange("Group", left.group)
        /\ {l \in lines : l.about = "control"} = DescribeFlagsChange(left.control)
        /\ EntryLines(lines, "DACL") = AceLines("DACL", left.dacl)
        /\ EntryLines(lines, "SACL") = AceLines("SACL", left.sacl)
        /\ PresenceLines(lines, "DACL") = PresenceOf("DACL", left.dacl)
        /\ PresenceLines(lines, "SACL") = PresenceOf("SACL", left.sacl)
    BY <1>1, LinesOfChange
  <2> HIDE DEF left, lines
  <2> QED
    BY <1>2, <2>1, <2>2, <2>3
<1> HIDE DEF left, lines
<1>4. \A x : /\ ApplyIdentity(lines, "Owner", x) = x
             /\ ApplyIdentity(lines, "Group", x) = x
  BY <1>3 DEF ApplyIdentity
<1>5. ASSUME NEW x \in SUBSET ControlFlags PROVE ApplyFlags(lines, x) = x
  <2> DEFINE Moved(how) == {l.flag : l \in {k \in lines : k.about = "control" /\ k.moved = how}}
  <2>1. Moved("set") = {} /\ Moved("cleared") = {}
    BY <1>3
  <2> QED
    BY <2>1 DEF ApplyFlags
<1>6. ASSUME NEW list \in Lists, NEW label, EntryLines(lines, label) = {},
             PresenceLines(lines, label) = {}
      PROVE  \A now : ApplyList(lines, label, ListProfile(list), now) = ListProfile(list)
  <2> TAKE now
  <2> DEFINE entries == EntryLines(lines, label)
             Saying(says, key) == Cardinality({l \in entries : l.says = says /\ l.key = key})
             Granting(c_) == Cardinality({l \in entries : l.key = c_[1] /\ c_[2] \in Means(l.granted)})
             Revoking(c_) == Cardinality({l \in entries : l.key = c_[1] /\ c_[2] \in Means(l.revoked)})
             p == ListProfile(list)
  <2>1. ApplyList(lines, label, p, now)
          = [present |-> p.present,
             entries |-> [key \in Counted |->
                            p.entries[key] + Saying("added", key) - Saying("removed", key)],
             rights |-> [v \in Visible |-> p.rights[v] + Granting(v) - Revoking(v)]]
    <3>1. \A v : ~InDoubt(entries, v)
      BY <1>6 DEF InDoubt
    <3> QED
      BY <1>6, <3>1 DEF ApplyList
  <2>2. /\ \A says, key : Saying(says, key) = 0
        /\ \A v : Granting(v) = 0 /\ Revoking(v) = 0
    BY <1>6, FS_EmptySet
  <2>3. /\ p.entries = [key \in Counted |-> p.entries[key]]
        /\ p.rights = [v \in Visible |-> p.rights[v]]
        /\ p = [present |-> p.present, entries |-> p.entries, rights |-> p.rights]
    BY DEF ListProfile
  <2>4. /\ \A key \in Counted : p.entries[key] \in Nat
        /\ \A v \in Visible : p.rights[v] \in Nat
    <3>1. IsFiniteSet(Select(list))
      BY SelectType
    <3>2. \A S \in SUBSET Select(list) : Cardinality(S) \in Nat
      BY <3>1, FS_Subset, FS_CardinalityType
    <3> QED
      BY <3>2 DEF ListProfile
  <2> HIDE DEF Saying, Granting, Revoking, p
  <2>5. [key \in Counted |-> p.entries[key] + Saying("added", key) - Saying("removed", key)]
          = [key \in Counted |-> p.entries[key]]
    BY <2>2, <2>4
  <2>6. [v \in Visible |-> p.rights[v] + Granting(v) - Revoking(v)] = [v \in Visible |-> p.rights[v]]
    BY <2>2, <2>4
  <2>7. ApplyList(lines, label, p, now)
          = [present |-> p.present, entries |-> p.entries, rights |-> p.rights]
    BY <2>1, <2>3, <2>5, <2>6
  <2>8. ApplyList(lines, label, p, now) = p
    BY <2>3, <2>7
  <2> QED
    BY <2>8 DEF p
<1> DEFINE control(d) == FlagsKnown(d.control)
<1>7. /\ Profile(was) = [owner |-> WhoIs(was.owner), group |-> WhoIs(was.group),
                         control |-> control(was), dacl |-> ListProfile(was.dacl),
                         sacl |-> ListProfile(SaclOf(was))]
      /\ control(was) \in SUBSET ControlFlags /\ was.dacl \in Lists /\ SaclOf(was) \in Lists
  BY Readable DEF FlagsKnown
<1>8. Applied(lines, Profile(was), Profile(is)) = Profile(was)
  <2>1. \A now :
          /\ ApplyList(lines, "DACL", ListProfile(was.dacl), now) = ListProfile(was.dacl)
          /\ ApplyList(lines, "SACL", ListProfile(SaclOf(was)), now) = ListProfile(SaclOf(was))
    BY <1>3, <1>6, <1>7
  <2> HIDE DEF control
  <2> QED
    BY <1>4, <1>5, <1>7, <2>1 DEF Applied
<1> QED
  BY <1>8, ChangeApplied DEF lines

-----------------------------------------------------------------------------
(* Lemmas about types.                                                     *)

LEMMA ACLTypes ==
  ASSUME NEW was \in Lists, NEW is \in Lists, NEW acl \in DiffACL(was, is)
  PROVE  acl \in ACLChanges /\ FilterACL(acl) \in ACLChanges
<1>1. /\ acl.removed \in SUBSET Entries /\ acl.added \in SUBSET Entries
      /\ acl.changed \in SUBSET (Entries \X Entries)
  BY SoundComparison DEF SoundACL
<1>2. Presence(was, is) \in {"same", "removed", "added", "emptied"}
  BY Zenon DEF Presence
<1>3. acl = [presence |-> acl.presence, removed |-> acl.removed, added |-> acl.added,
             changed |-> acl.changed] /\ acl.presence = Presence(was, is)
  BY DEF DiffACL
<1>4. acl \in ACLChanges
  BY <1>1, <1>2, <1>3 DEF ACLChanges
<1>5. FilterACL(acl) \in ACLChanges
  <2>1. /\ {p \in acl.removed : KeepsEntry(p.ace)} \in SUBSET Entries
        /\ {p \in acl.added : KeepsEntry(p.ace)} \in SUBSET Entries
        /\ {p \in acl.changed : KeepsMaskChange(p[1].ace, p[2].ace)} \in SUBSET (Entries \X Entries)
        /\ (IF options.trustee THEN "same" ELSE acl.presence) \in {"same", "removed", "added", "emptied"}
    BY <1>1, <1>2, <1>3
  <2> QED
    BY <2>1 DEF FilterACL, ACLChanges
<1> QED
  BY <1>4, <1>5

LEMMA WholeTypes ==
  /\ \A kind \in {"appeared", "disappeared", "changed"}, parseError \in BOOLEAN :
       Whole(kind, parseError) \in Changes /\ Whole(kind, parseError) # None
<1>1. NoACLChanges \in ACLChanges
  BY DEF NoACLChanges, ACLChanges
<1>2. \A kind \in {"appeared", "disappeared", "changed"}, parseError \in BOOLEAN :
        Whole(kind, parseError) \in Changes
  BY <1>1 DEF Whole, Changes
<1> QED
  BY <1>2, NoneAssumption

LEMMA ChangeTypes ==
  ASSUME NEW was \in Descriptors, NEW is \in Descriptors, NEW c \in DiffDescriptors(was, is)
  PROVE  c \in Changes /\ ChangeLeft(c) \in Changes /\ c # None /\ ChangeLeft(c) # None
<1> DEFINE left == ChangeLeft(c)
<1>1. /\ c.kind = "changed" /\ c.parseError = FALSE
      /\ c.owner = DiffValue(was.owner, is.owner) /\ c.group = DiffValue(was.group, is.group)
      /\ c.control = DiffValue(was.control, is.control)
      /\ c.dacl \in DiffACL(was.dacl, is.dacl) /\ c.sacl \in DiffACL(SaclOf(was), SaclOf(is))
      /\ c = [kind |-> c.kind, parseError |-> c.parseError, owner |-> c.owner,
              group |-> c.group, control |-> c.control, dacl |-> c.dacl, sacl |-> c.sacl]
  BY Compared
<1>2. /\ was.owner \in SIDs \cup {NoSID} /\ is.owner \in SIDs \cup {NoSID}
      /\ was.group \in SIDs \cup {NoSID} /\ is.group \in SIDs \cup {NoSID}
      /\ was.control \in SUBSET ControlFlags /\ is.control \in SUBSET ControlFlags
      /\ was.dacl \in Lists /\ is.dacl \in Lists
      /\ SaclOf(was) \in Lists /\ SaclOf(is) \in Lists
  BY Readable
<1>3. /\ c.owner \in Pairs(SIDs \cup {NoSID}) \cup {None}
      /\ c.group \in Pairs(SIDs \cup {NoSID}) \cup {None}
      /\ c.control \in Pairs(SUBSET ControlFlags) \cup {None}
  BY <1>1, <1>2 DEF DiffValue, Pairs
<1>4. /\ c.dacl \in ACLChanges /\ FilterACL(c.dacl) \in ACLChanges
      /\ c.sacl \in ACLChanges /\ FilterACL(c.sacl) \in ACLChanges
  <2>1. \A a, b \in Lists : \A acl \in DiffACL(a, b) :
          acl \in ACLChanges /\ FilterACL(acl) \in ACLChanges
    BY ACLTypes
  <2> QED
    BY <1>1, <1>2, <2>1
<1>5. c \in Changes
  BY <1>1, <1>3, <1>4 DEF Changes
<1>6. CASE IsActive
  <2>1. FilterChange(c)
          = [c EXCEPT !.owner = KeepsIdentity(@), !.group = KeepsIdentity(@),
                      !.control = IF options.trustee THEN None ELSE @,
                      !.dacl = FilterACL(@), !.sacl = FilterACL(@)]
    BY <1>1 DEF FilterChange
  <2>2. FilterChange(c)
          = [kind |-> c.kind, parseError |-> c.parseError, owner |-> KeepsIdentity(c.owner),
             group |-> KeepsIdentity(c.group),
             control |-> FlagsLeft(c.control),
             dacl |-> FilterACL(c.dacl), sacl |-> FilterACL(c.sacl)]
    BY <1>1, <2>1 DEF FlagsLeft
  <2>3. /\ KeepsIdentity(c.owner) \in Pairs(SIDs \cup {NoSID}) \cup {None}
        /\ KeepsIdentity(c.group) \in Pairs(SIDs \cup {NoSID}) \cup {None}
        /\ FlagsLeft(c.control) \in Pairs(SUBSET ControlFlags) \cup {None}
    BY <1>3 DEF KeepsIdentity, FlagsLeft
  <2>4. FilterChange(c) \in Changes
    <3> DEFINE o == KeepsIdentity(c.owner)
               g == KeepsIdentity(c.group)
               f == FlagsLeft(c.control)
               d == FilterACL(c.dacl)
               s == FilterACL(c.sacl)
    <3>2. FilterChange(c) = [kind |-> "changed", parseError |-> FALSE, owner |-> o, group |-> g,
                             control |-> f, dacl |-> d, sacl |-> s]
      BY <1>1, <2>2
    <3>3. /\ o \in Pairs(SIDs \cup {NoSID}) \cup {None} /\ g \in Pairs(SIDs \cup {NoSID}) \cup {None}
          /\ f \in Pairs(SUBSET ControlFlags) \cup {None} /\ d \in ACLChanges /\ s \in ACLChanges
      BY <1>4, <2>3
    <3> HIDE DEF o, g, f, d, s
    <3> QED
      BY <3>2, <3>3 DEF Changes
  <2> QED
    BY <1>5, <1>6, <2>4, NoneAssumption DEF ChangeLeft
<1>7. CASE ~IsActive
  BY <1>5, <1>7, NoneAssumption DEF ChangeLeft
<1> QED
  BY <1>6, <1>7

(* What there is to be known of an object is of its type.                  *)
LEMMA ProfileTypes ==
  ASSUME options \in Options, NEW d \in States
  PROVE  Profile(d) \in Profiles \cup [is : Unreadable \cup {Gone}]
<1>1. CASE d \in Descriptors
  <2> DEFINE lists == [present : BOOLEAN, entries : [Counted -> Nat], rights : [Visible -> Nat]]
             who == SIDs \cup {NoSID, None}
  <2>1. /\ d.owner \in SIDs \cup {NoSID} /\ d.group \in SIDs \cup {NoSID}
        /\ d.control \in SUBSET ControlFlags
        /\ d.dacl \in Lists /\ SaclOf(d) \in Lists
        /\ Profile(d) = [owner |-> WhoIs(d.owner), group |-> WhoIs(d.group),
                         control |-> FlagsKnown(d.control),
                         dacl |-> ListProfile(d.dacl), sacl |-> ListProfile(SaclOf(d))]
    BY <1>1, Readable DEF FlagsKnown
  <2>2. ASSUME NEW list \in Lists PROVE ListProfile(list) \in lists
    <3>1. IsFiniteSet(Select(list))
      BY SelectType
    <3>2. \A S \in SUBSET Select(list) : Cardinality(S) \in Nat
      BY <3>1, FS_Subset, FS_CardinalityType
    <3>3. /\ [key \in Counted |-> Cardinality({p \in Select(list) : p.ace.key = key})]
               \in [Counted -> Nat]
          /\ [c \in Visible |->
                Cardinality({p \in Select(list) :
                               p.ace.key = c[1] /\ c[2] \in Grants(p.ace.key, p.ace.mask)})]
               \in [Visible -> Nat]
      BY <3>2
    <3>4. (list # Absent /\ ~options.trustee) \in BOOLEAN
      OBVIOUS
    <3> QED
      BY <3>3, <3>4 DEF ListProfile
  <2>3. WhoIs(d.owner) \in who /\ WhoIs(d.group) \in who
    BY <2>1 DEF WhoIs
  <2>4. FlagsKnown(d.control) \in SUBSET ControlFlags
    BY <2>1 DEF FlagsKnown
  <2>5. ListProfile(d.dacl) \in lists /\ ListProfile(SaclOf(d)) \in lists
    BY <2>1, <2>2
  <2>6. Profiles = [owner : who, group : who, control : SUBSET ControlFlags, dacl : lists, sacl : lists]
    BY DEF Profiles
  <2> HIDE DEF who, lists
  <2> QED
    BY <2>1, <2>3, <2>4, <2>5, <2>6
<1>2. CASE d \notin Descriptors
  BY <1>2 DEF Profile, States
<1> QED
  BY <1>1, <1>2

-----------------------------------------------------------------------------
(* Lemmas about one cycle.                                                 *)

(* Nothing is left of nothing.                                             *)
LEMMA NothingLeft ==
  ASSUME NEW was \in Descriptors, NEW is \in Descriptors, NEW c \in DiffDescriptors(was, is),
         ~HasDetail(c)
  PROVE  ~HasDetail(ChangeLeft(c))
<1>1. /\ c.owner = None /\ c.group = None /\ c.control = None
      /\ c.dacl = NoACLChanges /\ c.sacl = NoACLChanges
  BY DEF HasDetail
<1>2. /\ ChangeLeft(c).parseError = FALSE
      /\ IdentityLeft(c.owner, ChangeLeft(c).owner) /\ IdentityLeft(c.group, ChangeLeft(c).group)
      /\ ChangeLeft(c).control = IF options.trustee THEN None ELSE c.control
      /\ FiltersLeave(c.dacl, ChangeLeft(c).dacl) /\ FiltersLeave(c.sacl, ChangeLeft(c).sacl)
  BY FieldsLeft
<1>3. KeepsIdentity(None) = None
  BY DEF KeepsIdentity
<1>4. FilterACL(NoACLChanges) = NoACLChanges
  BY DEF FilterACL, NoACLChanges
<1>5. /\ ChangeLeft(c).owner = None /\ ChangeLeft(c).group = None /\ ChangeLeft(c).control = None
      /\ ChangeLeft(c).dacl = NoACLChanges /\ ChangeLeft(c).sacl = NoACLChanges
  BY <1>1, <1>2, <1>3, <1>4 DEF IdentityLeft, FiltersLeave
<1> QED
  BY <1>2, <1>5 DEF HasDetail

(* What the filters make of a change.                                      *)
LEMMA FilteredDiff ==
  ASSUME NEW was \in Descriptors, NEW is \in Descriptors, NEW c \in DiffDescriptors(was, is),
         NEW change, change = IF HasDetail(c) THEN c ELSE None
  PROVE  FilterChanges(change) = IF HasDetail(ChangeLeft(c)) THEN ChangeLeft(c) ELSE None
<1>1. CASE ~HasDetail(c)
  BY <1>1, NothingLeft DEF FilterChanges
<1>2. CASE HasDetail(c) /\ IsActive
  BY <1>2, Compared, ChangeTypes DEF FilterChanges, ChangeLeft
<1>3. CASE HasDetail(c) /\ ~IsActive
  BY <1>3, Compared, ChangeTypes DEF FilterChanges, ChangeLeft
<1> QED
  BY <1>1, <1>2, <1>3

(* What can be found of an object: nothing, that it came, went or could    *)
(* not be read, or what its two descriptors differ in.                     *)
LEMMA DiffCases ==
  ASSUME NEW was \in States, NEW is \in States, NEW change \in Diff(was, is)
  PROVE  \/ was = is /\ change = None
         \/ was # is /\ change \in {Whole("appeared", FALSE), Whole("disappeared", FALSE),
                                     Whole("changed", TRUE)}
         \/ /\ was # is /\ was \in Descriptors /\ is \in Descriptors
            /\ \E c \in DiffDescriptors(was, is) : change = IF HasDetail(c) THEN c ELSE None
<1>1. CASE was = is
  BY <1>1 DEF Diff
<1>2. CASE was # is /\ was = Gone
  BY <1>2 DEF Diff
<1>3. CASE was # is /\ was # Gone /\ is = Gone
  BY <1>3 DEF Diff
<1>4. CASE was # is /\ was # Gone /\ is # Gone
  <2>1. PICK c \in DiffDescriptors(was, is) : change = IF HasDetail(c) THEN c ELSE None
    BY <1>4 DEF Diff
  <2>2. CASE was \in Unreadable \/ is \in Unreadable
    <3>1. c = Whole("changed", TRUE)
      <4> DEFINE unread == {was, is} \cap Unreadable
      <4>1. unread # {} => DiffDescriptors(was, is) = {Whole("changed", TRUE)}
        BY DEF DiffDescriptors
      <4>2. \E x : x \in unread
        BY <2>2
      <4> HIDE DEF unread
      <4> QED
        BY <2>1, <4>1, <4>2
    <3>2. HasDetail(c)
      BY <3>1 DEF HasDetail, Whole
    <3> QED
      BY <1>4, <2>1, <3>1, <3>2
  <2>3. CASE was \notin Unreadable /\ is \notin Unreadable
    BY <1>4, <2>1, <2>3 DEF States
  <2> QED
    BY <2>2, <2>3
<1> QED
  BY <1>1, <1>2, <1>3, <1>4

(* A change that is of the whole object is shown as it is.                 *)
LEMMA WholeFiltered ==
  ASSUME NEW change \in {Whole("appeared", FALSE), Whole("disappeared", FALSE),
                         Whole("changed", TRUE)}
  PROVE  FilterChanges(change) = change /\ Apply(Render(change)) = Profile(object)
<1>1. change # None
  BY WholeTypes
<1>2. CASE change = Whole("changed", TRUE)
  <2>1. change.kind = "changed" /\ change.parseError = TRUE
    BY <1>2 DEF Whole
  <2>2. FilterChange(change) = change /\ HasDetail(change)
    BY <2>1 DEF FilterChange, HasDetail
  <2>3. Details(change) = {[about |-> "error"]}
    BY <2>1 DEF Details
  <2>4. Render(change).headline = "changed" /\ Render(change).details = {[about |-> "error"]}
    BY <2>1, <2>3 DEF Render
  <2>5. Apply(Render(change)) = Profile(object)
    BY <2>4 DEF Apply
  <2> QED
    BY <1>1, <2>1, <2>2, <2>5 DEF FilterChanges
<1>3. CASE change # Whole("changed", TRUE)
  <2>1. change.kind # "changed"
    BY <1>3 DEF Whole
  <2>2. Render(change).headline # "changed"
    BY <2>1 DEF Render
  <2>3. Apply(Render(change)) = Profile(object)
    BY <2>2 DEF Apply
  <2> QED
    BY <1>1, <2>1, <2>3 DEF FilterChanges
<1> QED
  BY <1>2, <1>3

(* The reader who knew what the last reading held knows what this one does. *)
LEMMA CycleAddsUp ==
  ASSUME options \in Options, previous \in States, object \in States, known = Profile(previous),
         NEW change \in Diff(previous, object)
  PROVE  (IF FilterChanges(change) = None THEN known ELSE Apply(Render(FilterChanges(change))))
           = Profile(object)
<1>1. CASE previous = object /\ change = None
  BY <1>1 DEF FilterChanges
<1>2. CASE change \in {Whole("appeared", FALSE), Whole("disappeared", FALSE),
                       Whole("changed", TRUE)}
  BY <1>2, WholeFiltered, WholeTypes
<1>3. ASSUME previous \in Descriptors, object \in Descriptors,
             NEW c \in DiffDescriptors(previous, object), change = IF HasDetail(c) THEN c ELSE None
      PROVE  (IF FilterChanges(change) = None THEN known
              ELSE Apply(Render(FilterChanges(change)))) = Profile(object)
  <2> DEFINE left == ChangeLeft(c)
  <2>1. FilterChanges(change) = IF HasDetail(left) THEN left ELSE None
    BY <1>3, FilteredDiff
  <2>2. left # None /\ left.kind = "changed" /\ left.parseError = FALSE
    BY <1>3, FieldsLeft, ChangeTypes
  <2>3. ~HasDetail(left) => Profile(previous) = Profile(object)
    BY <1>3, NothingApplied
  <2>4. Applied(Details(left), Profile(previous), Profile(object)) = Profile(object)
    BY <1>3, ChangeApplied
  <2> HIDE DEF left
  <2>5. [about |-> "error"] \notin Details(left)
    BY <2>2, LinesOfChange
  <2>6. Render(left).headline = "changed" /\ Render(left).details = Details(left)
    BY <2>2 DEF Render
  <2>7. Apply(Render(left)) = Profile(object)
    <3>1. Apply(Render(left)) = Applied(Details(left), known, Profile(object))
      BY <2>5, <2>6 DEF Apply, Applied
    <3> QED
      BY <2>4, <3>1
  <2> QED
    BY <2>1, <2>2, <2>3, <2>7
<1> QED
  BY <1>1, <1>2, <1>3, DiffCases

-----------------------------------------------------------------------------
(* Lemmas about what a printed change says at least.                       *)

(* What is left of the comparison of two lists and is not nothing has a    *)
(* line.                                                                   *)
LEMMA ListHasALine ==
  ASSUME NEW list, NEW left \in ACLChanges, left # NoACLChanges
  PROVE  DescribeACLChanges(list, left) # {}
<1>1. left = [presence |-> left.presence, removed |-> left.removed, added |-> left.added,
              changed |-> left.changed]
  BY DEF ACLChanges
<1>2. \/ left.presence # "same" \/ left.removed # {} \/ left.added # {} \/ left.changed # {}
  BY <1>1 DEF NoACLChanges
<1>3. ASSUME left.presence # "same" PROVE DescribeACLChanges(list, left) # {}
  BY <1>3 DEF DescribeACLChanges
<1>4. ASSUME NEW p \in left.removed PROVE DescribeACLChanges(list, left) # {}
  BY DEF DescribeACLChanges
<1>5. ASSUME NEW p \in left.added PROVE DescribeACLChanges(list, left) # {}
  BY DEF DescribeACLChanges
<1>6. ASSUME NEW p \in left.changed PROVE DescribeACLChanges(list, left) # {}
  BY DEF DescribeACLChanges
<1> QED
  BY <1>2, <1>3, <1>4, <1>5, <1>6

LEMMA ChangeHasALine ==
  ASSUME NEW was \in Descriptors, NEW is \in Descriptors, NEW c \in DiffDescriptors(was, is),
         HasDetail(ChangeLeft(c))
  PROVE  Details(ChangeLeft(c)) # {}
<1> DEFINE left == ChangeLeft(c)
<1>1. left \in Changes /\ left.parseError = FALSE
  BY ChangeTypes, FieldsLeft
<1>2. left.control # None => DescribeFlagsChange(left.control) # {}
  <2> SUFFICES ASSUME left.control # None PROVE DescribeFlagsChange(left.control) # {}
    OBVIOUS
  <2>1. left.control = c.control
    BY FieldsLeft
  <2>2. c.control = DiffValue(was.control, is.control)
    BY Compared
  <2>3. left.control = <<was.control, is.control>> /\ was.control # is.control
    BY <2>1, <2>2 DEF DiffValue
  <2>4. was.control \in SUBSET ControlFlags /\ is.control \in SUBSET ControlFlags
    BY Readable
  <2> HIDE DEF left
  <2>5. \E f : f \in is.control \ was.control \/ f \in was.control \ is.control
    BY <2>3, <2>4
  <2> DEFINE a == was.control
             b == is.control
  <2>6. left.control[1] = a /\ left.control[2] = b
    BY <2>3
  <2>7. \E f : f \in b \ a \/ f \in a \ b
    BY <2>5
  <2> HIDE DEF a, b
  <2> QED
    BY <2>6, <2>7 DEF DescribeFlagsChange
<1>3. /\ left.owner # None => DescribeIdentityChange("Owner", left.owner) # {}
      /\ left.group # None => DescribeIdentityChange("Group", left.group) # {}
  BY DEF DescribeIdentityChange
<1> HIDE DEF left
<1>4. left.dacl \in ACLChanges /\ left.sacl \in ACLChanges
  BY <1>1 DEF Changes
<1>5. /\ left.dacl # NoACLChanges => DescribeACLChanges("DACL", left.dacl) # {}
      /\ left.sacl # NoACLChanges => DescribeACLChanges("SACL", left.sacl) # {}
  BY <1>4, ListHasALine
<1>6. \/ left.owner # None \/ left.group # None \/ left.control # None
      \/ left.dacl # NoACLChanges \/ left.sacl # NoACLChanges
  BY <1>1 DEF HasDetail, left
<1>7. Details(left) # {}
  BY <1>1, <1>2, <1>3, <1>5, <1>6 DEF Details
<1> QED
  BY <1>7 DEF left

(* An entry whose mask changed has a right that moved, and one that passed *)
(* the filter of notable changes a notable one.                            *)
SaysWhatMoved(l) ==
  /\ l.says = "changed" => l.granted \cup l.revoked # {}
  /\ options.onlyNotable => IsNotable(l.key, l.granted \cup l.revoked)

LEMMA LinesSayWhatMoved ==
  ASSUME NEW was \in Lists, NEW is \in Lists, NEW acl \in DiffACL(was, is),
         NEW left, FiltersLeave(acl, left), NEW list
  PROVE  \A l \in AceLines(list, left) : SaysWhatMoved(l)
<1>1. SoundACL(acl) /\ \A p \in acl.changed : p[1].ace # p[2].ace
  <2>1. PICK m : ComesOf(acl, Select(was), Select(is), m)
    BY DiffACLComesOf
  <2>2. acl.changed = {p \in m : p[1].ace # p[2].ace}
    BY <2>1 DEF ComesOf
  <2> QED
    BY <2>2, SoundComparison
<1>2. options.onlyNotable => left = FilterACL(acl)
  BY DEF FiltersLeave, IsActive
<1>3. /\ left.added \in SUBSET acl.added /\ left.removed \in SUBSET acl.removed
      /\ left.changed \in SUBSET acl.changed
  BY DEF FiltersLeave, FilterACL
<1>4. ASSUME NEW p \in left.added \cup left.removed, NEW says \in {"added", "removed"}, NEW l,
             l = DescribeWholeAce(list, says, p)
      PROVE  SaysWhatMoved(l)
  <2>1. /\ l.says = says /\ l.key = p.ace.key
        /\ l.granted \cup l.revoked = DescribeMask(p.ace.key, p.ace.mask)
    BY <1>4 DEF DescribeWholeAce
  <2>2. options.onlyNotable => HasNotable(p.ace.key, p.ace.mask)
    BY <1>2, <1>4 DEF FilterACL, KeepsEntry
  <2> QED
    BY <2>1, <2>2 DEF SaysWhatMoved, HasNotable
<1>5. ASSUME NEW p \in left.changed, NEW l, l = DescribeMaskChange(list, p[1], p[2])
      PROVE  SaysWhatMoved(l)
  <2>1. p[1].ace # p[2].ace /\ p[1].ace.key = p[2].ace.key
    BY <1>1, <1>3 DEF SoundACL
  <2>2. p[1].ace \in ACEs /\ p[2].ace \in ACEs
    BY <1>1, <1>3, EntryParts DEF SoundACL
  <2> DEFINE a == p[1].ace.mask
             b == p[2].ace.mask
             key == p[2].ace.key
  <2>3. a # b /\ a \in SUBSET Rights /\ b \in SUBSET Rights
    BY <2>1, <2>2 DEF ACEs
  <2>4. /\ l.says = "changed" /\ l.key = key
        /\ l.granted = DescribeMask(key, b \ a) /\ l.revoked = DescribeMask(key, a \ b)
    BY <1>5, <2>1 DEF DescribeMaskChange
  <2>5. options.onlyNotable => HasNotable(key, b \ a) \/ HasNotable(key, a \ b)
    <3>1. options.onlyNotable => KeepsMaskChange(p[1].ace, p[2].ace)
      BY <1>2 DEF FilterACL
    <3> QED
      BY <2>1, <3>1 DEF KeepsMaskChange
  <2> HIDE DEF a, b, key
  <2>6. b \ a # {} \/ a \ b # {}
    BY <2>3
  <2>7. l.granted # {} \/ l.revoked # {}
    BY <2>4, <2>6, SomethingSaid
  <2>8. options.onlyNotable => IsNotable(key, l.granted) \/ IsNotable(key, l.revoked)
    BY <2>4, <2>5 DEF HasNotable
  <2> QED
    BY <2>4, <2>7, <2>8 DEF SaysWhatMoved, IsNotable
<1>6. ASSUME NEW l \in AceLines(list, left)
      PROVE  \/ \E p \in left.added : l = DescribeWholeAce(list, "added", p)
             \/ \E p \in left.changed : l = DescribeMaskChange(list, p[1], p[2])
             \/ \E p \in left.removed : l = DescribeWholeAce(list, "removed", p)
  BY DEF AceLines
<1> QED
  BY <1>4, <1>5, <1>6

(* What is shown of a cycle is not hollow.                                 *)
LEMMA NotHollow ==
  ASSUME previous \in States, object \in States, NEW change \in Diff(previous, object),
         NEW seen, seen = FilterChanges(change), seen # None, seen.kind = "changed"
  PROVE  /\ Details(seen) # {}
         /\ \A l \in EntryLines(Details(seen), "DACL") \cup EntryLines(Details(seen), "SACL") :
              SaysWhatMoved(l)
<1>1. CASE change = None
  BY <1>1 DEF FilterChanges
<1>2. CASE change \in {Whole("appeared", FALSE), Whole("disappeared", FALSE),
                       Whole("changed", TRUE)}
  <2>1. seen = change
    BY <1>2, WholeFiltered
  <2>2. seen.parseError = TRUE
    BY <1>2, <2>1 DEF Whole
  <2>3. Details(seen) = {[about |-> "error"]}
    BY <2>2 DEF Details
  <2>4. EntryLines(Details(seen), "DACL") = {} /\ EntryLines(Details(seen), "SACL") = {}
    BY <2>3 DEF EntryLines
  <2> QED
    BY <2>3, <2>4
<1>3. ASSUME previous \in Descriptors, object \in Descriptors,
             NEW c \in DiffDescriptors(previous, object), change = IF HasDetail(c) THEN c ELSE None
      PROVE  /\ Details(seen) # {}
             /\ \A l \in EntryLines(Details(seen), "DACL") \cup EntryLines(Details(seen), "SACL") :
                  SaysWhatMoved(l)
  <2>1. seen = ChangeLeft(c) /\ HasDetail(ChangeLeft(c))
    BY <1>3, FilteredDiff
  <2>2. Details(seen) # {}
    BY <1>3, <2>1, ChangeHasALine
  <2>3. /\ seen.parseError = FALSE
        /\ FiltersLeave(c.dacl, seen.dacl) /\ FiltersLeave(c.sacl, seen.sacl)
    BY <1>3, <2>1, FieldsLeft
  <2>4. /\ EntryLines(Details(seen), "DACL") = AceLines("DACL", seen.dacl)
        /\ EntryLines(Details(seen), "SACL") = AceLines("SACL", seen.sacl)
    BY <2>3, LinesOfChange
  <2>5. /\ c.dacl \in DiffACL(previous.dacl, object.dacl)
        /\ c.sacl \in DiffACL(SaclOf(previous), SaclOf(object))
    BY <1>3, Compared
  <2>6. /\ previous.dacl \in Lists /\ object.dacl \in Lists
        /\ SaclOf(previous) \in Lists /\ SaclOf(object) \in Lists
    BY <1>3, Readable
  <2>7. \A l \in AceLines("DACL", seen.dacl) : SaysWhatMoved(l)
    BY <2>3, <2>5, <2>6, LinesSayWhatMoved
  <2>8. \A l \in AceLines("SACL", seen.sacl) : SaysWhatMoved(l)
    BY <2>3, <2>5, <2>6, LinesSayWhatMoved
  <2> QED
    BY <2>2, <2>4, <2>7, <2>8
<1> QED
  BY <1>1, <1>2, <1>3, DiffCases

-----------------------------------------------------------------------------
(* Lemmas about a descriptor that says the same as before.                 *)

(* Where a list holds an ACE.                                              *)
Occurs(list, a) == IF list = Absent THEN {} ELSE {n \in DOMAIN list : list[n] = a}

LEMMA OccursAsTallied ==
  ASSUME NEW list, NEW a
  PROVE  Cardinality(Occurs(list, a))
           = IF a \in DOMAIN Tally(list).counts THEN Tally(list).counts[a] ELSE 0
<1>1. CASE list = Absent
  <2>1. Tally(list).counts = <<>>
    BY <1>1 DEF Tally
  <2>2. DOMAIN Tally(list).counts = {}
    BY <2>1
  <2> QED
    BY <1>1, <2>2, FS_EmptySet DEF Occurs
<1>2. CASE list # Absent
  <2> DEFINE held == {list[n] : n \in DOMAIN list}
  <2>1. Tally(list).counts = [ace \in held |-> Cardinality({n \in DOMAIN list : list[n] = ace})]
    BY <1>2 DEF Tally
  <2>2. CASE a \in held
    BY <1>2, <2>1, <2>2 DEF Occurs
  <2>3. CASE a \notin held
    <3>1. Occurs(list, a) = {}
      BY <1>2, <2>3 DEF Occurs
    <3> HIDE DEF held
    <3> QED
      BY <2>1, <2>3, <3>1, FS_EmptySet
  <2> QED
    BY <2>2, <2>3
<1> QED
  BY <1>1, <1>2

LEMMA SelectedWhereHeld ==
  ASSUME NEW list \in Lists, NEW a
  PROVE  Cardinality({p \in Select(list) : p.ace = a})
           = IF options.ignoreInherited /\ a.key \in Inherited THEN 0
             ELSE Cardinality(Occurs(list, a))
<1>1. CASE list = Absent
  BY <1>1, FS_EmptySet DEF Select, Occurs
<1>2. CASE list # Absent /\ options.ignoreInherited /\ a.key \in Inherited
  <2>1. {p \in Select(list) : p.ace = a} = {}
    BY <1>2 DEF Select
  <2> QED
    BY <1>2, <2>1, FS_EmptySet
<1>3. CASE list # Absent /\ ~(options.ignoreInherited /\ a.key \in Inherited)
  <2> DEFINE S == Occurs(list, a)
             f == [n \in S |-> [at |-> n, ace |-> list[n]]]
  <2>1. S = {n \in DOMAIN list : list[n] = a}
    BY <1>3 DEF Occurs
  <2>2. IsFiniteSet(S)
    <3>1. list \in Seq(ACEs)
      BY <1>3 DEF Lists
    <3>2. Len(list) \in Nat /\ DOMAIN list = 1 .. Len(list)
      BY <3>1
    <3>3. IsFiniteSet(1 .. Len(list)) /\ S \in SUBSET (1 .. Len(list))
      BY <2>1, <3>2, FS_Interval
    <3> QED
      BY <3>3, FS_Subset
  <2>3. {f[n] : n \in S} = {p \in Select(list) : p.ace = a}
    <3>1. \A n \in S : f[n].at = n /\ f[n].ace = a /\ f[n] \in Select(list)
      BY <1>3, <2>1 DEF Select
    <3>2. \A p \in Select(list) : p.ace = a => \E n \in S : p = f[n]
      BY <1>3, <2>1 DEF Select
    <3> HIDE DEF f, S
    <3> QED
      BY <3>1, <3>2
  <2>4. \A x, y \in S : f[x] = f[y] => x = y
    <3>1. \A n \in S : f[n].at = n
      OBVIOUS
    <3> HIDE DEF f, S
    <3> QED
      BY <3>1
  <2>5. f = [n \in S |-> f[n]]
    OBVIOUS
  <2> HIDE DEF f, S
  <2>6. Cardinality({f[n] : n \in S}) = Cardinality(S)
    BY <2>2, <2>4, <2>5, CountImage
  <2> QED
    BY <1>3, <2>3, <2>6 DEF S
<1> QED
  BY <1>1, <1>2, <1>3

LEMMA SameTallySameACL ==
  ASSUME NEW was \in Lists, NEW is \in Lists, Tally(was) = Tally(is),
         NEW acl \in DiffACL(was, is)
  PROVE  acl = NoACLChanges
<1>1. SameCounts(Select(was), Select(is))
  <2> SUFFICES ASSUME NEW a \in ACEs
               PROVE  Cardinality({p \in Select(was) : p.ace = a})
                        = Cardinality({p \in Select(is) : p.ace = a})
    BY DEF SameCounts
  <2>1. Cardinality(Occurs(was, a)) = Cardinality(Occurs(is, a))
    BY OccursAsTallied
  <2> QED
    BY <2>1, SelectedWhereHeld
<1>2. PICK m : ComesOf(acl, Select(was), Select(is), m) /\ acl.presence = Presence(was, is)
  BY DiffACLComesOf
<1>3. TwoSelections(Select(was), Select(is))
  BY SelectType DEF TwoSelections
<1>4. acl.removed = {} /\ acl.added = {} /\ acl.changed = {}
  BY <1>1, <1>2, <1>3, SameACEs
<1>5. Presence(was, is) = "same"
  <2>1. was = Absent <=> is = Absent
    BY DEF Tally
  <2>2. is = <<>> => was \in {Absent, <<>>}
    <3> SUFFICES ASSUME is = <<>>, was # Absent PROVE was = <<>>
      OBVIOUS
    <3>1. is # Absent /\ was \in Seq(ACEs)
      BY DescriptorsAssumption DEF Lists
    <3>2. DOMAIN Tally(is).counts = {}
      <4>1. Tally(is).counts
              = [ace \in {is[n] : n \in DOMAIN is} |-> Cardinality({n \in DOMAIN is : is[n] = ace})]
        BY <3>1 DEF Tally
      <4> QED
        BY <4>1
    <3>3. DOMAIN Tally(was).counts = {was[n] : n \in DOMAIN was}
      BY DEF Tally
    <3>4. DOMAIN was = {}
      BY <3>2, <3>3
    <3>5. DOMAIN was = 1 .. Len(was) /\ Len(was) \in Nat
      BY <3>1
    <3>6. Len(was) = 0
      BY <3>4, <3>5
    <3> QED
      BY <3>1, <3>6
  <2> QED
    BY <2>1, <2>2, Zenon DEF Presence
<1>6. acl = [presence |-> acl.presence, removed |-> acl.removed, added |-> acl.added,
             changed |-> acl.changed]
  BY DEF DiffACL
<1> QED
  BY <1>2, <1>4, <1>5, <1>6 DEF NoACLChanges

LEMMA SameContentNothingFound ==
  ASSUME NEW was \in States, NEW is \in States, SameContent(was, is), NEW change \in Diff(was, is)
  PROVE  change = None
<1>1. /\ was \in Descriptors /\ is \in Descriptors
      /\ was.owner = is.owner /\ was.group = is.group /\ was.control = is.control
      /\ Tally(was.dacl) = Tally(is.dacl) /\ Tally(was.sacl) = Tally(is.sacl)
  BY DEF SameContent
<1>2. CASE was = is
  BY <1>2 DEF Diff
<1>3. CASE was # is
  <2>1. was # Gone /\ is # Gone
    BY <1>1, DescriptorsAssumption
  <2>2. PICK c \in DiffDescriptors(was, is) : change = IF HasDetail(c) THEN c ELSE None
    BY <1>3, <2>1 DEF Diff
  <2>3. /\ c.parseError = FALSE /\ c.owner = None /\ c.group = None /\ c.control = None
        /\ c.dacl \in DiffACL(was.dacl, is.dacl) /\ c.sacl \in DiffACL(SaclOf(was), SaclOf(is))
    BY <1>1, <2>2, Compared DEF DiffValue
  <2>4. /\ was.dacl \in Lists /\ is.dacl \in Lists
        /\ SaclOf(was) \in Lists /\ SaclOf(is) \in Lists
    BY <1>1, Readable
  <2>5. c.dacl = NoACLChanges
    BY <1>1, <2>3, <2>4, SameTallySameACL
  <2>6. Tally(SaclOf(was)) = Tally(SaclOf(is))
    BY <1>1 DEF SaclOf
  <2>7. c.sacl = NoACLChanges
    BY <2>3, <2>4, <2>6, SameTallySameACL
  <2>8. ~HasDetail(c)
    BY <2>3, <2>5, <2>7 DEF HasDetail
  <2> QED
    BY <2>2, <2>8
<1> QED
  BY <1>2, <1>3

-----------------------------------------------------------------------------
(* Type correctness, what reports add up to and what they say.             *)

(* While the options stay, so does what a descriptor is known by.          *)
LEMMA ProfileStays ==
  ASSUME options' = options, NEW d
  PROVE  Profile(d)' = Profile(d)
<1>1. \A sid : Matches(sid)' = Matches(sid)
  BY DEF Matches
<1>2. \A sid : WhoIs(sid)' = WhoIs(sid)
  BY <1>1 DEF WhoIs
<1>3. Counted' = Counted
  BY <1>1 DEF Counted
<1>4. Visible' = Visible
  BY <1>1 DEF Visible
<1>5. ASSUME NEW list PROVE Select(list)' = Select(list)
  BY DEF Select
<1>6. ASSUME NEW list PROVE ListProfile(list)' = ListProfile(list)
  <2> DEFINE E(keys, selected) ==
               [key \in keys |-> Cardinality({p \in selected : p.ace.key = key})]
             R(visible, selected) ==
               [c \in visible |->
                  Cardinality({p \in selected :
                                 p.ace.key = c[1] /\ c[2] \in Grants(p.ace.key, p.ace.mask)})]
  <2>1. ListProfile(list) = [present |-> list # Absent /\ ~options.trustee,
                             entries |-> E(Counted, Select(list)), rights |-> R(Visible, Select(list))]
    BY DEF ListProfile
  <2>2. ListProfile(list)' = [present |-> list # Absent /\ ~options'.trustee,
                              entries |-> E(Counted', Select(list)'),
                              rights |-> R(Visible', Select(list)')]
    BY DEF ListProfile
  <2> HIDE DEF E, R
  <2> QED
    BY <1>3, <1>4, <1>5, <2>1, <2>2
<1> QED
  BY <1>2, <1>6 DEF Profile

LEMMA ShownTypes ==
  ASSUME previous \in States, object \in States, NEW change \in Diff(previous, object)
  PROVE  FilterChanges(change) \in Changes \cup {None}
<1>1. CASE change = None
  BY <1>1 DEF FilterChanges
<1>2. CASE change \in {Whole("appeared", FALSE), Whole("disappeared", FALSE),
                       Whole("changed", TRUE)}
  BY <1>2, WholeFiltered, WholeTypes
<1>3. ASSUME previous \in Descriptors, object \in Descriptors,
             NEW c \in DiffDescriptors(previous, object), change = IF HasDetail(c) THEN c ELSE None
      PROVE  FilterChanges(change) \in Changes \cup {None}
  BY <1>3, FilteredDiff, ChangeTypes
<1> QED
  BY <1>1, <1>2, <1>3, DiffCases

LEMMA ProfilesStay ==
  ASSUME options' = options
  PROVE  Profiles' = Profiles
<1>1. \A sid : Matches(sid)' = Matches(sid)
  BY DEF Matches
<1>2. Counted' = Counted
  BY <1>1 DEF Counted
<1>3. Visible' = Visible
  BY <1>1 DEF Visible
<1> DEFINE all(keys, visible) ==
             LET lists == [present : BOOLEAN, entries : [keys -> Nat], rights : [visible -> Nat]]
                 who == SIDs \cup {NoSID, None}
             IN  [owner : who, group : who, control : SUBSET ControlFlags, dacl : lists, sacl : lists]
<1>4. Profiles = all(Counted, Visible) /\ Profiles' = all(Counted', Visible')
  BY DEF Profiles
<1> HIDE DEF all
<1> QED
  BY <1>2, <1>3, <1>4

(* The inductive invariant: the properties of the runs are strong enough   *)
(* together.  What a reader knows is the profile of the last reading, so   *)
(* that a later change starts from what he was told, and what a filter     *)
(* drops is nothing he counts.                                             *)
IInv == TypeOK /\ FilteredReportsAddUp /\ NoHollowLines

LEMMA InitIInv == Init => IInv
<1> SUFFICES ASSUME Init PROVE IInv
  OBVIOUS
<1>1. /\ options \in Options /\ object \in States /\ previous = object /\ shown = None
      /\ known = Profile(object)
  BY DEF Init
<1>2. Profile(object) \in Profiles \cup [is : Unreadable \cup {Gone}]
  BY <1>1, ProfileTypes
<1> QED
  BY <1>1, <1>2 DEF IInv, TypeOK, FilteredReportsAddUp, NoHollowLines

LEMMA WriteIInv ==
  ASSUME IInv, WriteObject
  PROVE  IInv'
<1>1. /\ options' = options /\ previous' = previous /\ shown' = None /\ known' = known
      /\ object' \in States
  BY DEF WriteObject
<1>2. /\ options \in Options /\ previous \in States /\ known = Profile(previous)
      /\ known \in Profiles \cup [is : Unreadable \cup {Gone}]
  BY DEF IInv, TypeOK, FilteredReportsAddUp
<1>3. FilteredReportsAddUp'
  <2>1. \A d : Profile(d)' = Profile(d)
    BY <1>1, ProfileStays
  <2> QED
    BY <1>1, <1>2, <2>1 DEF FilteredReportsAddUp
<1>4. TypeOK'
  BY <1>1, <1>2, ProfilesStay DEF TypeOK
<1>5. NoHollowLines'
  BY <1>1 DEF NoHollowLines
<1> QED
  BY <1>3, <1>4, <1>5 DEF IInv

LEMMA CycleIInv ==
  ASSUME IInv, Cycle
  PROVE  IInv'
<1>1. PICK change \in Diff(previous, object) :
        /\ shown' = FilterChanges(change)
        /\ known' = IF shown' = None THEN known ELSE Apply(Render(shown'))
  BY DEF Cycle
<1>2. previous' = object /\ options' = options /\ object' = object
  BY DEF Cycle
<1>3. /\ options \in Options /\ object \in States /\ previous \in States
      /\ known = Profile(previous)
  BY DEF IInv, TypeOK, FilteredReportsAddUp
<1>4. known' = Profile(object)
  <2>1. (IF FilterChanges(change) = None THEN known ELSE Apply(Render(FilterChanges(change))))
          = Profile(object)
    BY <1>3, CycleAddsUp
  <2> QED
    BY <1>1, <2>1
<1>5. FilteredReportsAddUp'
  <2>1. \A d : Profile(d)' = Profile(d)
    BY <1>2, ProfileStays
  <2> QED
    BY <1>2, <1>4, <2>1 DEF FilteredReportsAddUp
<1>6. shown' \in Changes \cup {None}
  BY <1>1, <1>3, ShownTypes
<1>7. TypeOK'
  <2>1. Profile(object) \in Profiles \cup [is : Unreadable \cup {Gone}]
    BY <1>3, ProfileTypes
  <2> QED
    BY <1>2, <1>3, <1>4, <1>6, <2>1, ProfilesStay DEF TypeOK
<1>8. NoHollowLines'
  <2> SUFFICES ASSUME shown' # None, shown'.kind = "changed"
               PROVE  /\ Details(shown') # {}
                      /\ \A l \in EntryLines(Details(shown'), "DACL")
                                    \cup EntryLines(Details(shown'), "SACL") :
                           /\ l.says = "changed" => l.granted \cup l.revoked # {}
                           /\ options'.onlyNotable => IsNotable(l.key, l.granted \cup l.revoked)
    BY DEF NoHollowLines
  <2> DEFINE seen == FilterChanges(change)
  <2>1. seen # None /\ seen.kind = "changed" /\ shown' = seen
    BY <1>1
  <2>2. /\ Details(seen) # {}
        /\ \A l \in EntryLines(Details(seen), "DACL") \cup EntryLines(Details(seen), "SACL") :
             SaysWhatMoved(l)
    BY <1>3, <2>1, NotHollow
  <2> HIDE DEF seen
  <2> QED
    BY <1>2, <2>1, <2>2 DEF SaysWhatMoved
<1> QED
  BY <1>5, <1>7, <1>8 DEF IInv

(* The invariant is inductive.                                             *)
THEOREM Inductive ==
  /\ Init => IInv
  /\ IInv /\ [Next]_vars => IInv'
<1>1. ASSUME IInv, UNCHANGED vars PROVE IInv'
  <2>1. /\ options' = options /\ object' = object /\ previous' = previous /\ shown' = shown
        /\ known' = known
    BY <1>1 DEF vars
  <2>2. TypeOK'
    BY <1>1, <2>1, ProfilesStay DEF IInv, TypeOK
  <2>3. FilteredReportsAddUp'
    <3>1. \A d : Profile(d)' = Profile(d)
      BY <2>1, ProfileStays
    <3> QED
      BY <1>1, <2>1, <3>1 DEF IInv, FilteredReportsAddUp
  <2>4. NoHollowLines'
    BY <1>1, <2>1 DEF IInv, NoHollowLines
  <2> QED
    BY <2>2, <2>3, <2>4 DEF IInv
<1> QED
  BY <1>1, InitIInv, WriteIInv, CycleIInv DEF Next

LEMMA SpecIInv == Spec => []IInv
BY Inductive, PTL DEF Spec

(* Every variable stays in its type: no reader is told to take away what   *)
(* he was never told of, whatever the masks.                               *)
THEOREM TypeCorrect == Spec => []TypeOK
<1>1. IInv => TypeOK
  BY DEF IInv
<1> QED
  BY <1>1, SpecIInv, PTL

(* Whatever is filtered and summed up, what a reader adds up cycle after   *)
(* cycle is what the object holds, as long as he looks for himself at the  *)
(* rights of SaidToMove.                                                   *)
THEOREM ReportsAddUp == Spec => []FilteredReportsAddUp
<1>1. IInv => FilteredReportsAddUp
  BY DEF IInv
<1> QED
  BY <1>1, SpecIInv, PTL

(* No change is printed without a line, and no entry without what moved.   *)
THEOREM LinesSaySomething == Spec => []NoHollowLines
<1>1. IInv => NoHollowLines
  BY DEF IInv
<1> QED
  BY <1>1, SpecIInv, PTL

(* Of a descriptor that says the same as before nothing is printed, in     *)
(* whatever order its lists are and however its entries are matched.       *)
THEOREM SilenceOnTheSameContent == Spec => NothingShownOfTheSameContent
<1>1. ASSUME IInv, [Next]_vars
      PROVE  [shown' # None => ~SameContent(previous, object)]_vars
  <2>1. CASE UNCHANGED vars
    BY <2>1
  <2>2. CASE WriteObject
    BY <2>2 DEF WriteObject
  <2>3. CASE Cycle
    <3>1. PICK change \in Diff(previous, object) : shown' = FilterChanges(change)
      BY <2>3 DEF Cycle
    <3>2. previous \in States /\ object \in States
      BY <1>1 DEF IInv, TypeOK
    <3>3. SameContent(previous, object) => change = None
      BY <3>1, <3>2, SameContentNothingFound
    <3> QED
      BY <3>1, <3>3 DEF FilterChanges
  <2> QED
    BY <1>1, <2>1, <2>2, <2>3 DEF Next
<1> QED
  BY <1>1, SpecIInv, PTL DEF Spec, NothingShownOfTheSameContent
=============================================================================
