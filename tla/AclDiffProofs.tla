---------------------------- MODULE AclDiffProofs ----------------------------
(***************************************************************************)
(* Theorems about AclDiff, for lists of every length over every set of     *)
(* identities and rights.                                                  *)
(***************************************************************************)
EXTENDS AclDiff, SequenceTheorems, FunctionTheorems, FiniteSetTheorems, TLAPS

At(loop, s) == pc = loop /\ side = s

(* The first n elements of a sequence, and sequences of growing positions.  *)
First(seq, n) == {seq[j] : j \in 1 .. n}
Increasing(seq) == \A j, k \in 1 .. Len(seq) : j < k => seq[j] < seq[k]

(* How many of its entries a list has had struck off, how many positions   *)
(* were queued, paired and collected.                                      *)
Fresh(s) ==
  \/ pc = "select" \/ At("count", "before")
  \/ s = "after" /\ (At("strike", "before") \/ At("count", "after"))
Struck(s) == IF Fresh(s) THEN 0 ELSE IF At("strike", s) THEN i - 1 ELSE Len(entries[s])
Queued ==
  IF pc \in {"select", "count", "strike"} THEN 0 ELSE IF pc = "queue" THEN i - 1 ELSE Len(Gone)
Met == IF pc = "pair" THEN i - 1 ELSE IF pc \in {"collect", "done"} THEN Len(Come) ELSE 0
Collected == IF pc = "collect" THEN i - 1 ELSE IF pc = "done" THEN Len(Gone) ELSE 0

(* No loop runs past its list, and the last four have one side each.       *)
PlaceInv ==
  /\ pc = "select" => i <= Len(given[side]) + 1
  /\ pc = "count" => i <= Len(entries[OtherSide[side]]) + 1
  /\ pc = "strike" => i <= Len(entries[side]) + 1
  /\ pc \in {"queue", "collect"} => side = "before" /\ i <= Len(Gone) + 1
  /\ pc = "pair" => side = "after" /\ i <= Len(Come) + 1
  /\ pc = "done" => side = "before"

(* Among the first n entries of a list, by how much an ACE exceeds what the *)
(* whole other list holds of it, and by how much it falls short of that.   *)
Standing(s, n, a) == Occurrences(entries[s], n, a)
Whole(s, a) == Standing(s, Len(entries[s]), a)
Excess(s, n, a) ==
  IF Standing(s, n, a) > Whole(OtherSide[s], a) THEN Standing(s, n, a) - Whole(OtherSide[s], a) ELSE 0
Shortage(s, n, a) ==
  IF Standing(s, n, a) < Whole(OtherSide[s], a) THEN Whole(OtherSide[s], a) - Standing(s, n, a) ELSE 0

(* What is available is what the other list holds beyond what was struck.  *)
AvailableInv ==
  \A a \in ACEs :
    available[a] = IF pc = "count" THEN Standing(OtherSide[side], i - 1, a)
                   ELSE IF pc = "strike" THEN Shortage(side, i - 1, a) ELSE 0

(* What is left over of an ACE is what its list holds in excess.           *)
LeftInv ==
  \A s \in Sides :
    /\ Increasing(leftover[s]) /\ Positions(leftover[s]) \subseteq 1 .. Struck(s)
    /\ \A a \in ACEs : Held(s, Positions(leftover[s]), a) = Excess(s, Struck(s), a)

(* A queue holds the positions of one identity, in order, that are queued   *)
(* and not yet paired.                                                     *)
Waiting == First(Gone, Queued) \ paired
QueueInv ==
  /\ \A k \in Keys :
       /\ Increasing(queues[k])
       /\ \A p \in Positions(queues[k]) : p \in Waiting /\ EntryGone(p).key = k
  /\ \A p \in Waiting : p \in Positions(queues[EntryGone(p).key])

(* What was paired is told as changed, once on each side, and what was     *)
(* added found an empty queue.                                             *)
PairInv ==
  /\ paired = ChangedBefore /\ paired \subseteq First(Gone, Queued)
  /\ Positions(added) \cup ChangedAfter = First(Come, Met)
  /\ Positions(added) \cap ChangedAfter = {}
  /\ \A j, k \in 1 .. Len(changed) :
       j # k => changed[j].before # changed[k].before /\ changed[j].after # changed[k].after
  /\ EveryMaskChangeMovesARight
  /\ \A q \in Positions(added) : queues[EntryCome(q).key] = <<>>

CollectInv == Positions(removed) = First(Gone, Collected) \ paired

IInv ==
  TypeOK /\ PlaceInv /\ AvailableInv /\ LeftInv /\ QueueInv /\ PairInv /\ CollectInv

-----------------------------------------------------------------------------
(* Lemmas about sequences of positions.                                    *)

(* One element more.                                                       *)
LEMMA FirstGrows ==
  ASSUME NEW seq, NEW n \in Nat
  PROVE  First(seq, n + 1) = First(seq, n) \cup {seq[n + 1]}
<1>1. 1 .. n + 1 = (1 .. n) \cup {n + 1}
  OBVIOUS
<1> QED
  BY <1>1 DEF First

(* The first none.                                                         *)
LEMMA FirstNone == \A seq : First(seq, 0) = {}
BY DEF First

(* The first of them all.                                                  *)
LEMMA FirstAll == \A seq : First(seq, Len(seq)) = Positions(seq)
BY DEF First, Positions

(* An empty sequence names no position.                                    *)
LEMMA NoPositions == Positions(<<>>) = {}
BY DEF Positions

(* In a growing sequence, the next element is above all that went before.  *)
LEMMA NextIsNew ==
  ASSUME NEW seq \in Seq(Nat), Increasing(seq), NEW n \in Nat, n + 1 <= Len(seq)
  PROVE  /\ seq[n + 1] \in Nat /\ seq[n + 1] \in Positions(seq)
         /\ \A p \in First(seq, n) : p \in Nat /\ p < seq[n + 1] /\ p \in Positions(seq)
<1>1. Len(seq) \in Nat /\ \A j \in 1 .. Len(seq) : seq[j] \in Nat
  BY LenProperties, ElementOfSeq
<1>2. n + 1 \in 1 .. Len(seq) /\ \A j \in 1 .. n : j \in 1 .. Len(seq) /\ j < n + 1
  BY <1>1
<1> QED
  BY <1>1, <1>2 DEF First, Positions, Increasing

(* One position more at the end.                                           *)
LEMMA AppendedPositions ==
  ASSUME NEW S, NEW seq \in Seq(S), NEW p \in S
  PROVE  /\ Append(seq, p) \in Seq(S)
         /\ Positions(Append(seq, p)) = Positions(seq) \cup {p}
<1>1. /\ Append(seq, p) \in Seq(S) /\ Len(Append(seq, p)) = Len(seq) + 1
      /\ \A j \in 1 .. Len(seq) : Append(seq, p)[j] = seq[j]
      /\ Append(seq, p)[Len(seq) + 1] = p
  BY AppendProperties
<1>2. Len(seq) \in Nat
  BY LenProperties
<1>3. 1 .. Len(seq) + 1 = (1 .. Len(seq)) \cup {Len(seq) + 1}
  BY <1>2
<1> QED
  BY <1>1, <1>3 DEF Positions

(* A position above the others keeps a sequence growing.                   *)
LEMMA AppendedIncreasing ==
  ASSUME NEW seq \in Seq(Nat), Increasing(seq), NEW p \in Nat,
         \A q \in Positions(seq) : q < p
  PROVE  Increasing(Append(seq, p))
<1>1. /\ Len(Append(seq, p)) = Len(seq) + 1
      /\ \A j \in 1 .. Len(seq) : Append(seq, p)[j] = seq[j]
      /\ Append(seq, p)[Len(seq) + 1] = p
  BY AppendProperties
<1>2. Len(seq) \in Nat
  BY LenProperties
<1>3. \A j \in 1 .. Len(seq) : seq[j] < p
  BY DEF Positions
<1> SUFFICES ASSUME NEW j \in 1 .. Len(seq) + 1, NEW k \in 1 .. Len(seq) + 1, j < k
             PROVE  Append(seq, p)[j] < Append(seq, p)[k]
  BY <1>1 DEF Increasing
<1>4. CASE k = Len(seq) + 1
  BY <1>1, <1>2, <1>3, <1>4
<1>5. CASE k # Len(seq) + 1
  <2>1. j \in 1 .. Len(seq) /\ k \in 1 .. Len(seq)
    BY <1>2, <1>5
  <2> QED
    BY <1>1, <2>1 DEF Increasing
<1> QED
  BY <1>4, <1>5

(* The head of a growing queue is not in what remains of it.                *)
LEMMA Dequeued ==
  ASSUME NEW seq \in Seq(Nat), Increasing(seq), seq # <<>>
  PROVE  /\ Head(seq) \in Nat /\ Tail(seq) \in Seq(Nat) /\ Increasing(Tail(seq))
         /\ Positions(seq) = Positions(Tail(seq)) \cup {Head(seq)}
         /\ Head(seq) \notin Positions(Tail(seq))
<1>1. /\ Tail(seq) \in Seq(Nat) /\ Len(Tail(seq)) = Len(seq) - 1
      /\ \A j \in 1 .. Len(Tail(seq)) : Tail(seq)[j] = seq[j + 1]
  BY HeadTailProperties
<1>2. Len(seq) \in Nat /\ Len(seq) > 0 /\ \A j \in 1 .. Len(seq) : seq[j] \in Nat
  BY EmptySeq, ElementOfSeq
<1>3. Head(seq) = seq[1]
  OBVIOUS
<1>4. \A j \in 1 .. Len(seq) - 1 : Tail(seq)[j] = seq[j + 1] /\ j + 1 \in 1 .. Len(seq)
  BY <1>1, <1>2
<1>5. Increasing(Tail(seq))
  BY <1>1, <1>2, <1>4 DEF Increasing
<1>6. Positions(Tail(seq)) = {seq[j] : j \in 2 .. Len(seq)}
  <2>1. Positions(Tail(seq)) = {seq[j + 1] : j \in 1 .. Len(seq) - 1}
    BY <1>1, <1>4 DEF Positions
  <2>2. \A j \in 2 .. Len(seq) : j - 1 \in 1 .. Len(seq) - 1 /\ (j - 1) + 1 = j
    BY <1>2
  <2>3. \A j \in 1 .. Len(seq) - 1 : j + 1 \in 2 .. Len(seq)
    BY <1>2
  <2> QED
    BY <2>1, <2>2, <2>3
<1>7. 1 .. Len(seq) = {1} \cup 2 .. Len(seq)
  BY <1>2
<1>8. \A j \in 2 .. Len(seq) : seq[1] < seq[j]
  BY <1>2 DEF Increasing
<1>9. \A j \in 2 .. Len(seq) : seq[1] # seq[j]
  BY <1>2, <1>8
<1> QED
  BY <1>1, <1>2, <1>3, <1>5, <1>6, <1>7, <1>9 DEF Positions

-----------------------------------------------------------------------------
(* Lemmas about counting.                                                  *)

(* An entry more counts for the ACE it holds.                              *)
LEMMA OneMoreEntry ==
  ASSUME NEW list, NEW n \in Nat, NEW a
  PROVE  /\ Occurrences(list, n, a) \in Nat
         /\ Occurrences(list, n + 1, a) =
              Occurrences(list, n, a) + (IF list[n + 1] = a THEN 1 ELSE 0)
<1> DEFINE S(m) == {j \in 1 .. m : list[j] = a}
<1>1. IsFiniteSet(S(n))
  <2>1. IsFiniteSet(1 .. n)
    BY FS_Interval
  <2> QED
    BY <2>1, FS_Subset
<1>2. n + 1 \notin S(n)
  OBVIOUS
<1>3. S(n + 1) = IF list[n + 1] = a THEN S(n) \cup {n + 1} ELSE S(n)
  OBVIOUS
<1>4. Cardinality(S(n)) \in Nat
  BY <1>1, FS_CardinalityType
<1> HIDE DEF S
<1>5. Cardinality(S(n) \cup {n + 1}) = Cardinality(S(n)) + 1
  BY <1>1, <1>2, FS_AddElement
<1>6. Occurrences(list, n, a) = Cardinality(S(n))
      /\ Occurrences(list, n + 1, a) = Cardinality(S(n + 1))
  BY DEF Occurrences, S
<1> QED
  BY <1>3, <1>4, <1>5, <1>6

(* Among no entries, no ACE occurs.                                        *)
LEMMA NoEntry == \A list, a : Occurrences(list, 0, a) = 0
<1> SUFFICES ASSUME NEW list, NEW a PROVE Occurrences(list, 0, a) = 0
  OBVIOUS
<1>1. {j \in 1 .. 0 : list[j] = a} = {}
  OBVIOUS
<1> QED
  BY <1>1, FS_EmptySet DEF Occurrences

(* A position more counts for the ACE it holds.                            *)
LEMMA OneMorePosition ==
  ASSUME NEW s, NEW positions, IsFiniteSet(positions), NEW p, p \notin positions, NEW a
  PROVE  /\ Held(s, positions, a) \in Nat
         /\ Held(s, positions \cup {p}, a) =
              Held(s, positions, a) + (IF entries[s][p] = a THEN 1 ELSE 0)
<1> DEFINE S == {q \in positions : entries[s][q] = a}
           T == {q \in positions \cup {p} : entries[s][q] = a}
<1>1. IsFiniteSet(S) /\ p \notin S
  BY FS_Subset
<1>2. T = IF entries[s][p] = a THEN S \cup {p} ELSE S
  OBVIOUS
<1>3. Held(s, positions, a) = Cardinality(S) /\ Held(s, positions \cup {p}, a) = Cardinality(T)
  BY DEF Held
<1> HIDE DEF S, T
<1>4. Cardinality(S) \in Nat
  BY <1>1, FS_CardinalityType
<1>5. Cardinality(S \cup {p}) = Cardinality(S) + 1
  BY <1>1, FS_AddElement
<1> QED
  BY <1>2, <1>3, <1>4, <1>5

(* At no positions, no ACE is held.                                        *)
LEMMA NoPosition == \A s, a : Held(s, {}, a) = 0
<1> SUFFICES ASSUME NEW s, NEW a PROVE Held(s, {}, a) = 0
  OBVIOUS
<1>1. {p \in {} : entries[s][p] = a} = {}
  OBVIOUS
<1> QED
  BY <1>1, FS_EmptySet DEF Held

(* A position that is held is counted.                                     *)
LEMMA HeldIsPositive ==
  ASSUME NEW s, NEW positions, IsFiniteSet(positions), NEW p \in positions
  PROVE  Held(s, positions, entries[s][p]) # 0
<1> DEFINE S == {q \in positions : entries[s][q] = entries[s][p]}
<1>1. IsFiniteSet(S) /\ p \in S
  BY FS_Subset
<1> HIDE DEF S
<1>2. Cardinality(S) # 0
  BY <1>1, FS_EmptySet
<1> QED
  BY <1>2 DEF Held, S

(* The positions of a sequence are finitely many.                          *)
LEMMA FinitePositions ==
  ASSUME NEW n \in Nat, NEW positions \in SUBSET (1 .. n)
  PROVE  IsFiniteSet(positions)
<1>1. IsFiniteSet(1 .. n)
  BY FS_Interval
<1> QED
  BY <1>1, FS_Subset

-----------------------------------------------------------------------------
(* Lemmas about the loops.                                                 *)

(* What each loop ranges over.                                             *)
LEMMA RangedOver ==
  /\ pc = "select" => Ranged = given[side]
  /\ pc = "count" => Ranged = entries[OtherSide[side]]
  /\ pc = "strike" => Ranged = entries[side]
  /\ pc \in {"queue", "collect"} => Ranged = Gone
  /\ pc = "pair" => Ranged = Come
BY Zenon DEF Ranged

(* Each side has another.                                                  *)
LEMMA Opposite ==
  /\ OtherSide["before"] = "after" /\ OtherSide["after"] = "before"
  /\ \A s \in Sides : OtherSide[s] \in Sides
BY DEF OtherSide, Sides

(* From which loop to which.                                               *)
Passes(loop, s, next, t) == At(loop, s) /\ pc' = next /\ side' = t

(* What the end of a loop does, and that its last turn is behind it.       *)
LEMMA LoopEndsInto ==
  ASSUME TypeOK, PlaceInv, LoopEnds
  PROVE  /\ \/ Passes("select", "before", "select", "after")
            \/ Passes("select", "after", "count", "before")
            \/ Passes("count", "before", "strike", "before")
            \/ Passes("strike", "before", "count", "after")
            \/ Passes("count", "after", "strike", "after")
            \/ Passes("strike", "after", "queue", "before")
            \/ Passes("queue", "before", "pair", "after")
            \/ Passes("pair", "after", "collect", "before")
            \/ Passes("collect", "before", "done", "before")
         /\ i' = 1
         /\ pc = "count" => i - 1 = Len(entries[OtherSide[side]])
         /\ pc = "strike" => i - 1 = Len(entries[side])
         /\ pc \in {"queue", "collect"} => i - 1 = Len(Gone)
         /\ pc = "pair" => i - 1 = Len(Come)
         /\ available' = IF pc = "strike" THEN NoneAvailable ELSE available
         /\ UNCHANGED <<given, ignoreInherited, entries, leftover, queues, paired, added,
                        changed, removed>>
<1>1. /\ pc # "done" /\ i > Len(Ranged) /\ i' = 1
      /\ pc' = Successor[pc][side][1] /\ side' = Successor[pc][side][2]
      /\ available' = IF pc = "strike" THEN NoneAvailable ELSE available
      /\ UNCHANGED <<given, ignoreInherited, entries, leftover, queues, paired, added,
                     changed, removed>>
  BY DEF LoopEnds, pairVars
<1>2. /\ i \in Nat \ {0} /\ side \in {"before", "after"}
      /\ pc \in {"select", "count", "strike", "queue", "pair", "collect", "done"}
  BY DEF TypeOK, Sides
<1>3. /\ Len(Gone) \in Nat /\ Len(Come) \in Nat
      /\ Len(entries[side]) \in Nat /\ Len(entries[OtherSide[side]]) \in Nat
  BY LenProperties, Opposite DEF TypeOK, Gone, Come, Sides
<1>4. /\ pc = "count" => i - 1 = Len(entries[OtherSide[side]])
      /\ pc = "strike" => i - 1 = Len(entries[side])
      /\ pc \in {"queue", "collect"} => i - 1 = Len(Gone)
      /\ pc = "pair" => i - 1 = Len(Come)
  BY <1>1, <1>2, <1>3, RangedOver DEF PlaceInv
<1>5. /\ Successor["select"]["before"] = <<"select", "after">>
      /\ Successor["select"]["after"] = <<"count", "before">>
      /\ Successor["count"]["before"] = <<"strike", "before">>
      /\ Successor["count"]["after"] = <<"strike", "after">>
      /\ Successor["strike"]["before"] = <<"count", "after">>
      /\ Successor["strike"]["after"] = <<"queue", "before">>
      /\ Successor["queue"]["before"] = <<"pair", "after">>
      /\ Successor["pair"]["after"] = <<"collect", "before">>
      /\ Successor["collect"]["before"] = <<"done", "before">>
  BY DEF Successor
<1>6. /\ pc \in {"queue", "collect"} => side = "before"
      /\ pc = "pair" => side = "after"
  BY DEF PlaceInv
<1> QED
  BY <1>1, <1>2, <1>4, <1>5, <1>6 DEF Passes, At

-----------------------------------------------------------------------------
(* Facts of a state.                                                       *)

(* The lengths and the elements of the lists at hand.                      *)
LEMMA Shapes ==
  ASSUME TypeOK
  PROVE  /\ i \in Nat /\ i >= 1 /\ i - 1 \in Nat /\ (i - 1) + 1 = i
         /\ \A s \in Sides : /\ given[s] \in Seq(ACEs) /\ Len(given[s]) \in Nat
                             /\ entries[s] \in Seq(ACEs) /\ Len(entries[s]) \in Nat
                             /\ leftover[s] \in Seq(Nat) /\ Len(leftover[s]) \in Nat
         /\ \A k \in Keys : queues[k] \in Seq(Nat)
         /\ Gone = leftover["before"] /\ Come = leftover["after"]
         /\ "before" \in Sides /\ "after" \in Sides
<1>1. /\ i \in Nat \ {0} /\ given \in [Sides -> Lists] /\ entries \in [Sides -> Seq(ACEs)]
      /\ leftover \in [Sides -> Seq(Nat)] /\ queues \in [Keys -> Seq(Nat)]
  BY DEF TypeOK
<1>2. \A s \in Sides : /\ given[s] \in Seq(ACEs) /\ entries[s] \in Seq(ACEs)
                       /\ leftover[s] \in Seq(Nat)
  BY <1>1, ListsAssumption
<1>3. \A s \in Sides : Len(given[s]) \in Nat /\ Len(entries[s]) \in Nat /\ Len(leftover[s]) \in Nat
  BY <1>2, LenProperties
<1>4. /\ Gone = leftover["before"] /\ Come = leftover["after"]
      /\ "before" \in Sides /\ "after" \in Sides
  BY DEF Gone, Come, Sides
<1> QED
  BY <1>1, <1>2, <1>3, <1>4

(* No list has more struck off than it holds.                              *)
LEMMA StruckInRange ==
  ASSUME TypeOK, PlaceInv
  PROVE  \A s \in Sides : Struck(s) \in Nat /\ Struck(s) <= Len(entries[s])
<1> SUFFICES ASSUME NEW s \in Sides
             PROVE  Struck(s) \in Nat /\ Struck(s) <= Len(entries[s])
  OBVIOUS
<1>1. i \in Nat /\ i >= 1 /\ Len(entries[s]) \in Nat
  BY Shapes
<1>2. At("strike", s) => i <= Len(entries[s]) + 1
  BY DEF At, PlaceInv
<1> QED
  BY <1>1, <1>2 DEF Struck

(* What is left over of a list is some of its entries.                     *)
LEMMA LeftAreEntries ==
  ASSUME TypeOK, PlaceInv, LeftInv
  PROVE  \A s \in Sides : \A p \in Positions(leftover[s]) :
           p \in Nat /\ p \in 1 .. Len(entries[s]) /\ entries[s][p] \in ACEs
<1> SUFFICES ASSUME NEW s \in Sides, NEW p \in Positions(leftover[s])
             PROVE  p \in Nat /\ p \in 1 .. Len(entries[s]) /\ entries[s][p] \in ACEs
  OBVIOUS
<1>1. p \in 1 .. Struck(s)
  BY DEF LeftInv
<1>2. Struck(s) \in Nat /\ Struck(s) <= Len(entries[s]) /\ Len(entries[s]) \in Nat
  BY StruckInRange, Shapes
<1>3. p \in 1 .. Len(entries[s])
  BY <1>1, <1>2
<1>4. entries[s] \in Seq(ACEs)
  BY Shapes
<1> QED
  BY <1>2, <1>3, <1>4, ElementOfSeq

(* How far queueing, pairing and collecting are is within their lists.     *)
LEMMA TurnsInRange ==
  ASSUME TypeOK, PlaceInv
  PROVE  /\ Queued \in Nat /\ Queued <= Len(Gone)
         /\ Met \in Nat /\ Met <= Len(Come)
         /\ Collected \in Nat /\ Collected <= Len(Gone)
<1>1. i \in Nat /\ i >= 1 /\ Len(Gone) \in Nat /\ Len(Come) \in Nat
  BY Shapes
<1>2. /\ pc \in {"queue", "collect"} => i <= Len(Gone) + 1
      /\ pc = "pair" => i <= Len(Come) + 1
  BY DEF PlaceInv
<1> QED
  BY <1>1, <1>2 DEF Queued, Met, Collected

(* The first elements of a sequence are among them all.                    *)
LEMMA FirstIsSome ==
  \A seq : \A n \in Nat : Len(seq) \in Nat /\ n <= Len(seq) => First(seq, n) \subseteq Positions(seq)
<1> SUFFICES ASSUME NEW seq, NEW n \in Nat, Len(seq) \in Nat, n <= Len(seq)
             PROVE  First(seq, n) \subseteq Positions(seq)
  OBVIOUS
<1>1. \A j \in 1 .. n : j \in 1 .. Len(seq)
  OBVIOUS
<1> QED
  BY <1>1 DEF First, Positions

(* A queue names removed positions of its own identity.                    *)
LEMMA QueuedAreGone ==
  ASSUME TypeOK, PlaceInv, QueueInv
  PROVE  \A k \in Keys : \A p \in Positions(queues[k]) :
           p \in Positions(Gone) /\ p \in First(Gone, Queued) /\ p \notin paired
           /\ EntryGone(p).key = k
<1>1. First(Gone, Queued) \subseteq Positions(Gone)
  BY TurnsInRange, FirstIsSome, Shapes
<1> QED
  BY <1>1 DEF QueueInv, Waiting

(* The head of a queue that is not empty.                                  *)
LEMMA HeadOfQueue ==
  ASSUME TypeOK, PlaceInv, QueueInv, NEW k \in Keys, queues[k] # <<>>
  PROVE  /\ Head(queues[k]) \in Nat /\ Tail(queues[k]) \in Seq(Nat)
         /\ Increasing(Tail(queues[k]))
         /\ Positions(queues[k]) = Positions(Tail(queues[k])) \cup {Head(queues[k])}
         /\ Head(queues[k]) \notin Positions(Tail(queues[k]))
         /\ Head(queues[k]) \in Positions(Gone) /\ Head(queues[k]) \in First(Gone, Queued)
         /\ Head(queues[k]) \notin paired /\ EntryGone(Head(queues[k])).key = k
<1>1. queues[k] \in Seq(Nat) /\ Increasing(queues[k])
  BY Shapes DEF QueueInv
<1>2. /\ Head(queues[k]) \in Nat /\ Tail(queues[k]) \in Seq(Nat)
      /\ Increasing(Tail(queues[k]))
      /\ Positions(queues[k]) = Positions(Tail(queues[k])) \cup {Head(queues[k])}
      /\ Head(queues[k]) \notin Positions(Tail(queues[k]))
  BY <1>1, Dequeued
<1> QED
  BY <1>2, QueuedAreGone

-----------------------------------------------------------------------------
(* The invariant holds before the first turn.                              *)
LEMMA InitIInv == Init => IInv
<1> SUFFICES ASSUME Init PROVE IInv
  OBVIOUS
<1>1. TypeOK
  BY DEF Init, TypeOK, NoneAvailable, Sides
<1>2. PlaceInv
  <2>1. Len(given[side]) \in Nat
    BY <1>1, Shapes DEF TypeOK
  <2> QED
    BY <2>1 DEF Init, PlaceInv
<1>3. AvailableInv
  BY DEF Init, AvailableInv, NoneAvailable
<1>4. LeftInv
  <2>1. \A s \in Sides : leftover[s] = <<>> /\ entries[s] = <<>> /\ Struck(s) = 0
    BY DEF Init, Struck, Fresh
  <2>2. Increasing(<<>>) /\ Positions(<<>>) = {}
    BY NoPositions DEF Increasing
  <2>3. \A s \in Sides, a \in ACEs : Standing(s, 0, a) = 0 /\ Whole(OtherSide[s], a) = 0
    BY <2>1, NoEntry, Opposite DEF Standing, Whole
  <2>4. \A s \in Sides, a \in ACEs : Excess(s, 0, a) = 0
    BY <2>3 DEF Excess
  <2>5. \A s \in Sides, a \in ACEs : Held(s, {}, a) = 0
    BY NoPosition
  <2> QED
    BY <2>1, <2>2, <2>4, <2>5 DEF LeftInv
<1>5. Queued = 0 /\ Met = 0 /\ Collected = 0
  BY DEF Init, Queued, Met, Collected
<1>6. First(Gone, 0) = {} /\ First(Come, 0) = {}
  BY FirstNone
<1>7. QueueInv
  <2>1. Waiting = {}
    BY <1>5, <1>6 DEF Waiting
  <2>2. \A k \in Keys : queues[k] = <<>>
    BY DEF Init
  <2> QED
    BY <2>1, <2>2, NoPositions DEF QueueInv, Increasing
<1>8. PairInv
  <2>1. changed = <<>> /\ paired = {} /\ added = <<>>
    BY DEF Init
  <2>2. ChangedBefore = {} /\ ChangedAfter = {} /\ 1 .. Len(changed) = {}
    BY <2>1 DEF ChangedBefore, ChangedAfter
  <2>3. Positions(added) = {}
    BY <2>1, NoPositions
  <2> QED
    BY <1>5, <1>6, <2>1, <2>2, <2>3 DEF PairInv, EveryMaskChangeMovesARight
<1>9. CollectInv
  <2>1. removed = <<>> /\ paired = {}
    BY DEF Init
  <2> QED
    BY <1>5, <1>6, <2>1, NoPositions DEF CollectInv
<1> QED
  BY <1>1, <1>2, <1>3, <1>4, <1>7, <1>8, <1>9 DEF IInv

-----------------------------------------------------------------------------
(* Every step keeps the invariant, part by part.                           *)

(* The turn of a loop that is not one of the six but its end, or no step.  *)
LEMMA StepCases ==
  ASSUME [Next]_vars
  PROVE  Select \/ Count \/ Strike \/ Queue \/ Pair \/ Collect \/ LoopEnds \/ UNCHANGED vars
BY DEF Next, Loops, Returned

(* What a turn leaves alone, and where it stands.                          *)
LEMMA TurnFacts ==
  ASSUME TypeOK, PlaceInv, NEW loop, Turn(loop)
  PROVE  /\ pc = loop /\ pc' = loop /\ side' = side /\ i' = i + 1
         /\ given' = given /\ ignoreInherited' = ignoreInherited
         /\ i \in Nat /\ i >= 1 /\ i' - 1 = i
         /\ (i - 1) + 1 = i /\ i - 1 \in Nat
         /\ pc = "select" => i \in 1 .. Len(given[side])
         /\ pc = "count" => i \in 1 .. Len(entries[OtherSide[side]])
         /\ pc = "strike" => i \in 1 .. Len(entries[side])
         /\ pc \in {"queue", "collect"} => i \in 1 .. Len(Gone) /\ side = "before"
         /\ pc = "pair" => i \in 1 .. Len(Come) /\ side = "after"
<1>1. /\ pc = loop /\ i <= Len(Ranged) /\ i' = i + 1 /\ pc' = pc /\ side' = side
      /\ given' = given /\ ignoreInherited' = ignoreInherited
  BY DEF Turn
<1>2. i \in Nat /\ i >= 1 /\ side \in Sides
  BY Shapes DEF TypeOK
<1>3. /\ Len(given[side]) \in Nat /\ Len(entries[side]) \in Nat
      /\ Len(entries[OtherSide[side]]) \in Nat /\ Len(Gone) \in Nat /\ Len(Come) \in Nat
  BY <1>2, Shapes, Opposite
<1>4. (pc \in {"queue", "collect"} => side = "before") /\ (pc = "pair" => side = "after")
  BY DEF PlaceInv
<1> QED
  BY <1>1, <1>2, <1>3, <1>4, RangedOver

(* Every turn takes an entry of its list, so that the types are kept.      *)
LEMMA TypeStep == IInv /\ [Next]_vars => TypeOK'
<1> SUFFICES ASSUME IInv, [Next]_vars PROVE TypeOK'
  OBVIOUS
<1>0. TypeOK /\ PlaceInv /\ LeftInv /\ QueueInv
  BY DEF IInv
<1>1. CASE Select
  <2>1. Turn("select") /\ side \in Sides
    BY <1>0, <1>1 DEF Select, TypeOK
  <2>2. given[side] \in Seq(ACEs) /\ i \in 1 .. Len(given[side])
    BY <1>0, <2>1, TurnFacts, Shapes
  <2>3. given[side][i] \in ACEs
    BY <2>2, ElementOfSeq
  <2>4. entries[side] \in Seq(ACEs)
    BY <1>0, <2>1, Shapes
  <2>5. Append(entries[side], given[side][i]) \in Seq(ACEs)
    BY <2>3, <2>4, AppendProperties
  <2>6. entries' \in [Sides -> Seq(ACEs)]
    BY <1>0, <1>1, <2>5 DEF Select, TypeOK
  <2> QED
    BY <1>0, <1>1, <2>6 DEF Select, Turn, TypeOK, leftoverVars, pairVars
<1>2. CASE Count
  <2>1. Turn("count") /\ side \in Sides
    BY <1>0, <1>2 DEF Count, TypeOK
  <2> DEFINE entry == entries[OtherSide[side]][i]
  <2>2. available' = [available EXCEPT ![entry] = available[entry] + 1]
    BY <1>2 DEF Count
  <2> HIDE DEF entry
  <2>3. available \in [ACEs -> Nat]
    BY <1>0 DEF TypeOK
  <2>4. available' \in [ACEs -> Nat]
    <3>1. \A a \in ACEs : available[a] \in Nat /\ (a = entry => available[a] + 1 \in Nat)
      BY <2>3
    <3> QED
      BY <2>2, <2>3, <3>1
  <2>5. UNCHANGED <<given, ignoreInherited, pc, side, entries, leftover, queues, paired, added,
                    changed, removed>> /\ i' = i + 1
    BY <1>2 DEF Count, Turn, pairVars
  <2> QED
    BY <1>0, <2>4, <2>5 DEF TypeOK
<1>3. CASE Strike
  <2>1. Turn("strike") /\ side \in Sides
    BY <1>0, <1>3 DEF Strike, TypeOK
  <2>2. i \in Nat /\ leftover[side] \in Seq(Nat)
    BY <1>0, <2>1, Shapes
  <2>3. Append(leftover[side], i) \in Seq(Nat)
    BY <2>2, AppendProperties
  <2>4. available' \in [ACEs -> Nat] /\ leftover' \in [Sides -> Seq(Nat)]
    <3>1. CASE available[entries[side][i]] > 0
      <4>1. /\ available' = [available EXCEPT ![entries[side][i]] = @ - 1]
            /\ leftover' = leftover
        BY <1>3, <3>1 DEF Strike
      <4>2. available \in [ACEs -> Nat] /\ leftover \in [Sides -> Seq(Nat)]
        BY <1>0 DEF TypeOK
      <4> QED
        <5> DEFINE entry == entries[side][i]
        <5>1. available' = [available EXCEPT ![entry] = available[entry] - 1] /\ available[entry] > 0
          BY <3>1, <4>1
        <5> HIDE DEF entry
        <5>2. \A a \in ACEs : available[a] \in Nat /\ (a = entry => available[a] - 1 \in Nat)
          BY <4>2, <5>1
        <5> QED
          BY <4>1, <4>2, <5>1, <5>2
    <3>2. CASE ~(available[entries[side][i]] > 0)
      <4>1. /\ leftover' = [leftover EXCEPT ![side] = Append(leftover[side], i)]
            /\ available' = available
        BY <1>3, <3>2 DEF Strike
      <4> QED
        BY <1>0, <2>3, <4>1 DEF TypeOK
    <3> QED
      BY <3>1, <3>2
  <2> QED
    BY <1>0, <1>3, <2>4 DEF Strike, Turn, TypeOK, pairVars
<1>4. CASE Queue
  <2>1. Turn("queue")
    BY <1>4 DEF Queue
  <2>2. Gone \in Seq(Nat) /\ i \in 1 .. Len(Gone)
    BY <1>0, <2>1, TurnFacts, Shapes
  <2>3. Gone[i] \in Nat
    BY <2>2, ElementOfSeq
  <2>4. \A k \in Keys : Append(queues[k], Gone[i]) \in Seq(Nat)
    BY <1>0, <2>3, Shapes, AppendProperties
  <2>5. queues' \in [Keys -> Seq(Nat)]
    BY <1>0, <1>4, <2>4 DEF Queue, TypeOK
  <2> QED
    BY <1>0, <1>4, <2>5 DEF Queue, Turn, TypeOK, leftoverVars
<1>5. CASE Pair
  <2>1. Turn("pair")
    BY <1>5 DEF Pair
  <2>2. Come \in Seq(Nat) /\ i \in 1 .. Len(Come)
    BY <1>0, <2>1, TurnFacts, Shapes
  <2>3. Come[i] \in Nat /\ Come[i] \in Positions(Come)
    BY <2>2, ElementOfSeq DEF Positions
  <2>4. EntryCome(Come[i]) \in ACEs
    BY <1>0, <2>3, LeftAreEntries, Shapes DEF EntryCome
  <2> DEFINE key == EntryCome(Come[i]).key
  <2>5. key \in Keys
    BY <2>4 DEF ACEs
  <2>6. CASE queues[key] = <<>>
    <3>1. NoCounterpart
      BY <1>5, <2>6 DEF Pair
    <3>2. Append(added, Come[i]) \in Seq(Nat)
      BY <1>0, <2>3, AppendProperties DEF TypeOK
    <3> QED
      BY <1>0, <1>5, <3>1, <3>2 DEF Pair, NoCounterpart, Turn, TypeOK, leftoverVars
  <2>7. CASE queues[key] # <<>>
    <3>1. PairWith(key, Tail(queues[key]))
      BY <1>5, <2>7 DEF Pair
    <3> HIDE DEF key
    <3> DEFINE head == Head(queues[key])
    <3>2. head \in Nat /\ Tail(queues[key]) \in Seq(Nat) /\ head \in Positions(Gone)
      BY <1>0, <2>5, <2>7, HeadOfQueue
    <3>3. EntryGone(head) \in ACEs
      BY <1>0, <3>2, LeftAreEntries, Shapes DEF EntryGone
    <3>4. MaskChange(head, Come[i]) \in MaskChanges
      <4>1. EntryGone(head).mask \in SUBSET Rights /\ EntryCome(Come[i]).mask \in SUBSET Rights
        BY <2>4, <3>3 DEF ACEs
      <4> HIDE DEF head
      <4> QED
        BY <2>3, <3>2, <4>1 DEF MaskChange, MaskChanges
    <3>5. Append(changed, MaskChange(head, Come[i])) \in Seq(MaskChanges)
      BY <1>0, <3>4, AppendProperties DEF TypeOK
    <3>6. /\ queues' = [queues EXCEPT ![key] = Tail(queues[key])]
          /\ paired' = paired \cup {head}
          /\ changed' = Append(changed, MaskChange(head, Come[i]))
          /\ added' = added
      BY <3>1 DEF PairWith
    <3>7. /\ queues' \in [Keys -> Seq(Nat)] /\ paired' \in SUBSET Nat
          /\ changed' \in Seq(MaskChanges) /\ added' \in Seq(Nat)
      BY <1>0, <3>2, <3>5, <3>6 DEF TypeOK
    <3> QED
      BY <1>0, <1>5, <3>7 DEF Pair, Turn, TypeOK, leftoverVars
  <2> QED
    BY <2>6, <2>7
<1>6. CASE Collect
  <2>1. Turn("collect")
    BY <1>6 DEF Collect
  <2>2. Gone \in Seq(Nat) /\ i \in 1 .. Len(Gone)
    BY <1>0, <2>1, TurnFacts, Shapes
  <2>3. Gone[i] \in Nat
    BY <2>2, ElementOfSeq
  <2>4. Append(removed, Gone[i]) \in Seq(Nat)
    BY <1>0, <2>3, AppendProperties DEF TypeOK
  <2>5. removed' \in Seq(Nat)
    BY <1>0, <1>6, <2>4 DEF Collect, TypeOK
  <2> QED
    BY <1>0, <1>6, <2>5 DEF Collect, Turn, TypeOK, leftoverVars, pairVars
<1>7. CASE LoopEnds
  <2>1. /\ pc' \in {"select", "count", "strike", "queue", "pair", "collect", "done"}
        /\ side' \in Sides
    BY <1>0, <1>7, LoopEndsInto DEF Passes, Sides
  <2>2. i' \in Nat \ {0} /\ available' \in [ACEs -> Nat]
    BY <1>0, <1>7 DEF LoopEnds, NoneAvailable, TypeOK
  <2> QED
    BY <1>0, <1>7, <2>1, <2>2 DEF LoopEnds, TypeOK, pairVars
<1>8. CASE UNCHANGED vars
  BY <1>0, <1>8 DEF vars, leftoverVars, pairVars, TypeOK
<1> QED
  BY <1>1, <1>2, <1>3, <1>4, <1>5, <1>6, <1>7, <1>8, StepCases

(* Every turn is one of its list's.                                        *)
LEMMA PlaceStep == IInv /\ TypeOK' /\ [Next]_vars => PlaceInv'
<1> SUFFICES ASSUME IInv, TypeOK', [Next]_vars PROVE PlaceInv'
  OBVIOUS
<1>0. TypeOK /\ PlaceInv
  BY DEF IInv
<1>1. CASE Select
  <2>1. Turn("select")
    BY <1>1 DEF Select
  <2>2. i \in Nat /\ i' = i + 1 /\ i \in 1 .. Len(given[side]) /\ pc' = "select"
        /\ given' = given /\ side' = side
    BY <1>0, <2>1, TurnFacts
  <2>3. Len(given[side]) \in Nat
    BY <1>0, Shapes DEF TypeOK
  <2> QED
    BY <2>2, <2>3 DEF PlaceInv
<1>2. CASE Count
  <2>1. Turn("count") /\ entries' = entries
    BY <1>2 DEF Count
  <2>2. i \in Nat /\ i' = i + 1 /\ i \in 1 .. Len(entries[OtherSide[side]]) /\ pc' = "count"
        /\ side' = side
    BY <1>0, <2>1, TurnFacts
  <2>3. Len(entries[OtherSide[side]]) \in Nat
    BY <1>0, Shapes, Opposite DEF TypeOK
  <2> QED
    BY <2>1, <2>2, <2>3 DEF PlaceInv
<1>3. CASE Strike
  <2>1. Turn("strike") /\ entries' = entries
    BY <1>3 DEF Strike
  <2>2. i \in Nat /\ i' = i + 1 /\ i \in 1 .. Len(entries[side]) /\ pc' = "strike"
        /\ side' = side
    BY <1>0, <2>1, TurnFacts
  <2>3. Len(entries[side]) \in Nat
    BY <1>0, Shapes DEF TypeOK
  <2> QED
    BY <2>1, <2>2, <2>3 DEF PlaceInv
<1>4. CASE Queue \/ Collect
  <2>1. PICK loop \in {"queue", "collect"} : Turn(loop) /\ leftover' = leftover
    BY <1>4 DEF Queue, Collect, leftoverVars
  <2>2. i \in Nat /\ i' = i + 1 /\ i \in 1 .. Len(Gone) /\ pc' = loop /\ side = "before"
        /\ side' = side
    BY <1>0, <2>1, TurnFacts
  <2>3. Len(Gone) \in Nat /\ Gone' = Gone
    BY <1>0, <2>1, Shapes DEF Gone
  <2> QED
    BY <2>1, <2>2, <2>3 DEF PlaceInv
<1>5. CASE Pair
  <2>1. Turn("pair") /\ leftover' = leftover
    BY <1>5 DEF Pair, leftoverVars
  <2>2. i \in Nat /\ i' = i + 1 /\ i \in 1 .. Len(Come) /\ pc' = "pair" /\ side = "after"
        /\ side' = side
    BY <1>0, <2>1, TurnFacts
  <2>3. Len(Come) \in Nat /\ Come' = Come
    BY <1>0, <2>1, Shapes DEF Come
  <2> QED
    BY <2>1, <2>2, <2>3 DEF PlaceInv
<1>6. CASE LoopEnds
  <2>1. /\ i' = 1
        /\ pc' \in {"queue", "collect", "done"} => side' = "before"
        /\ pc' = "pair" => side' = "after"
    BY <1>0, <1>6, LoopEndsInto DEF Passes
  <2>2. (/\ Len(given[side]) \in Nat /\ Len(entries[side]) \in Nat
         /\ Len(entries[OtherSide[side]]) \in Nat /\ Len(Gone) \in Nat /\ Len(Come) \in Nat)'
    <3>1. side' \in Sides /\ OtherSide[side'] \in Sides
      BY Opposite DEF TypeOK
    <3>2. \A s \in Sides : /\ given'[s] \in Seq(ACEs)
                           /\ entries'[s] \in Seq(ACEs)
                           /\ leftover'[s] \in Seq(Nat)
      BY ListsAssumption DEF TypeOK
    <3>3. \A s \in Sides : Len(given'[s]) \in Nat /\ Len(entries'[s]) \in Nat
                           /\ Len(leftover'[s]) \in Nat
      BY <3>2, LenProperties
    <3>4. "before" \in Sides /\ "after" \in Sides
      BY DEF Sides
    <3> QED
      BY <3>1, <3>3, <3>4 DEF Gone, Come
  <2> QED
    BY <2>1, <2>2 DEF PlaceInv
<1>7. CASE UNCHANGED vars
  <2>1. UNCHANGED <<given, entries, leftover, pc, side, i>>
    BY <1>7 DEF vars, leftoverVars
  <2> QED
    BY <1>0, <2>1 DEF PlaceInv, Gone, Come
<1> QED
  BY <1>1, <1>2, <1>3, <1>4, <1>5, <1>6, <1>7, StepCases

(* Counting is in the natural numbers, and one entry more moves it by one. *)
LEMMA StandingFacts ==
  \A s \in Sides : \A a \in ACEs :
    /\ Standing(s, 0, a) = 0
    /\ \A n \in Nat : Standing(s, n, a) \in Nat
                      /\ Standing(s, n + 1, a) =
                           Standing(s, n, a) + (IF entries[s][n + 1] = a THEN 1 ELSE 0)
BY NoEntry, OneMoreEntry DEF Standing

(* So is the count in a whole list.                                        *)
LEMMA WholeIsCounted ==
  ASSUME TypeOK
  PROVE  \A s \in Sides : \A a \in ACEs : Whole(s, a) \in Nat
BY StandingFacts, Shapes DEF Whole

(* Counting and striking keep what is available right.                     *)
LEMMA AvailableStep == IInv /\ [Next]_vars => AvailableInv'
<1> SUFFICES ASSUME IInv, [Next]_vars, NEW a \in ACEs
             PROVE  (available[a] = IF pc = "count" THEN Standing(OtherSide[side], i - 1, a)
                                    ELSE IF pc = "strike" THEN Shortage(side, i - 1, a) ELSE 0)'
  BY DEF AvailableInv
<1>0. TypeOK /\ PlaceInv /\ AvailableInv /\ side \in Sides /\ OtherSide[side] \in Sides
  BY Opposite DEF IInv, TypeOK
<1>1. available[a] = IF pc = "count" THEN Standing(OtherSide[side], i - 1, a)
                     ELSE IF pc = "strike" THEN Shortage(side, i - 1, a) ELSE 0
  BY <1>0 DEF AvailableInv
<1>2. available \in [ACEs -> Nat]
  BY <1>0 DEF TypeOK
<1>3. CASE Select
  <2>1. pc = "select" /\ pc' = "select" /\ available' = available
    BY <1>3 DEF Select, Turn, leftoverVars
  <2> QED
    BY <1>1, <2>1
<1>4. CASE Count
  <2> DEFINE entry == entries[OtherSide[side]][i]
  <2>1. Turn("count") /\ entries' = entries
        /\ available' = [available EXCEPT ![entry] = available[entry] + 1]
    BY <1>4 DEF Count
  <2>2. pc = "count" /\ pc' = "count" /\ side' = side /\ i' - 1 = i /\ (i - 1) + 1 = i
        /\ i - 1 \in Nat
    BY <1>0, <2>1, TurnFacts
  <2>3. /\ Standing(OtherSide[side], i - 1, a) \in Nat
        /\ Standing(OtherSide[side], i, a) =
             Standing(OtherSide[side], i - 1, a) + (IF entry = a THEN 1 ELSE 0)
    BY <1>0, <2>2, StandingFacts
  <2>4. (Standing(OtherSide[side], i - 1, a))' = Standing(OtherSide[side], i, a)
    BY <2>1, <2>2 DEF Standing
  <2> HIDE DEF entry
  <2>5. available'[a] = available[a] + (IF entry = a THEN 1 ELSE 0)
    BY <1>2, <2>1
  <2> QED
    BY <1>1, <2>2, <2>3, <2>4, <2>5
<1>5. CASE Strike
  <2> DEFINE entry == entries[side][i]
             n == i - 1
             S == Standing(side, n, a)
             W == Whole(OtherSide[side], a)
  <2>1. /\ Turn("strike") /\ entries' = entries
        /\ available' = IF available[entry] > 0
                        THEN [available EXCEPT ![entry] = available[entry] - 1] ELSE available
    BY <1>5 DEF Strike
  <2>2. pc = "strike" /\ pc' = "strike" /\ side' = side /\ i' - 1 = i /\ n + 1 = i
        /\ n \in Nat
    BY <1>0, <2>1, TurnFacts
  <2>3. S \in Nat /\ W \in Nat /\ Standing(side, i, a) = S + (IF entry = a THEN 1 ELSE 0)
    BY <1>0, <2>2, StandingFacts, WholeIsCounted
  <2>4. (Shortage(side, i - 1, a))' = Shortage(side, i, a)
    BY <2>1, <2>2 DEF Shortage, Whole, Standing
  <2>5. available[a] = IF S < W THEN W - S ELSE 0
    BY <1>1, <2>2 DEF Shortage
  <2>6. Shortage(side, i, a) =
          IF S + (IF entry = a THEN 1 ELSE 0) < W THEN W - (S + (IF entry = a THEN 1 ELSE 0)) ELSE 0
    BY <2>3 DEF Shortage
  <2> HIDE DEF entry, S, W
  <2>7. available'[a] = IF entry = a /\ available[a] > 0 THEN available[a] - 1 ELSE available[a]
    BY <1>2, <2>1
  <2> QED
    BY <2>2, <2>3, <2>4, <2>5, <2>6, <2>7
<1>6. CASE Queue \/ Pair \/ Collect
  <2>1. pc \in {"queue", "pair", "collect"} /\ pc' = pc /\ available' = available
    BY <1>6 DEF Queue, Pair, Collect, Turn, leftoverVars
  <2> QED
    BY <1>1, <2>1
<1>7. CASE LoopEnds
  <2>1. entries' = entries /\ i' = 1 /\ i' - 1 = 0
    BY <1>0, <1>7, LoopEndsInto
  <2>2. available'[a] = IF pc = "strike" THEN 0 ELSE available[a]
    BY <1>7 DEF LoopEnds, NoneAvailable
  <2>3. CASE pc' \notin {"count", "strike"}
    <3>1. pc \notin {"count"}
      BY <1>0, <1>7, <2>3, LoopEndsInto DEF Passes, At
    <3> QED
      BY <1>1, <2>2, <2>3, <3>1
  <2>4. CASE pc' = "count"
    <3>1. pc # "count" /\ side' \in Sides /\ OtherSide[side'] \in Sides
      BY <1>0, <1>7, <2>4, LoopEndsInto, Opposite DEF Passes, At, Sides
    <3>2. Standing(OtherSide[side'], 0, a) = 0
      BY <3>1, StandingFacts
    <3>3. (Standing(OtherSide[side], i - 1, a))' = Standing(OtherSide[side'], 0, a)
      BY <2>1 DEF Standing
    <3> QED
      BY <1>1, <2>2, <2>4, <3>1, <3>2, <3>3
  <2>5. CASE pc' = "strike"
    <3>1. pc = "count" /\ side' = side /\ i - 1 = Len(entries[OtherSide[side]])
      BY <1>0, <1>7, <2>5, LoopEndsInto DEF Passes, At
    <3>2. Standing(side, 0, a) = 0 /\ Whole(OtherSide[side], a) \in Nat
      BY <1>0, StandingFacts, WholeIsCounted
    <3>3. available'[a] = Whole(OtherSide[side], a)
      BY <1>1, <2>2, <3>1 DEF Whole
    <3>4. (Shortage(side, i - 1, a))' = Shortage(side, 0, a)
      BY <2>1, <3>1 DEF Shortage, Whole, Standing
    <3> QED
      BY <2>5, <3>2, <3>3, <3>4 DEF Shortage
  <2> QED
    BY <2>3, <2>4, <2>5
<1>8. CASE UNCHANGED vars
  <2>1. UNCHANGED <<entries, available, pc, side, i>>
    BY <1>8 DEF vars, leftoverVars
  <2> QED
    BY <1>1, <2>1 DEF Standing, Shortage, Whole
<1> QED
  BY <1>3, <1>4, <1>5, <1>6, <1>7, <1>8, StepCases

(* The end of a loop strikes nothing off.                                  *)
LEMMA StruckKept ==
  ASSUME TypeOK, PlaceInv, LoopEnds
  PROVE  \A s \in Sides : Struck(s)' = Struck(s)
<1> SUFFICES ASSUME NEW s \in Sides PROVE Struck(s)' = Struck(s)
  OBVIOUS
<1>1. i' = 1 /\ i' - 1 = 0 /\ entries' = entries
      /\ (pc = "strike" => i - 1 = Len(entries[side]))
  BY LoopEndsInto
<1>2. s \in {"before", "after"}
  BY DEF Sides
<1>3. CASE \/ Passes("select", "before", "select", "after")
           \/ Passes("select", "after", "count", "before")
  BY <1>1, <1>2, <1>3 DEF Passes, At, Struck, Fresh
<1>4. CASE \/ Passes("count", "before", "strike", "before")
           \/ Passes("count", "after", "strike", "after")
  BY <1>1, <1>2, <1>4 DEF Passes, At, Struck, Fresh
<1>5. CASE \/ Passes("strike", "before", "count", "after")
           \/ Passes("strike", "after", "queue", "before")
  BY <1>1, <1>2, <1>5 DEF Passes, At, Struck, Fresh
<1>6. CASE \/ Passes("queue", "before", "pair", "after")
           \/ Passes("pair", "after", "collect", "before")
           \/ Passes("collect", "before", "done", "before")
  BY <1>1, <1>2, <1>6 DEF Passes, At, Struck, Fresh
<1> QED
  BY <1>3, <1>4, <1>5, <1>6, LoopEndsInto

(* Striking an entry off either uses up one that was available, or leaves  *)
(* it over: either way what is left is the excess.                         *)
LEMMA ExcessGrows ==
  ASSUME TypeOK, NEW s \in Sides, NEW n \in Nat, NEW a \in ACEs
  PROVE  /\ Excess(s, n, a) \in Nat
         /\ Excess(s, n + 1, a) =
              Excess(s, n, a)
                + (IF entries[s][n + 1] = a /\ Shortage(s, n, a) = 0 THEN 1 ELSE 0)
<1> DEFINE S == Standing(s, n, a)
           W == Whole(OtherSide[s], a)
           d == IF entries[s][n + 1] = a THEN 1 ELSE 0
<1>1. S \in Nat /\ W \in Nat /\ Standing(s, n + 1, a) = S + d /\ d \in Nat
  BY StandingFacts, WholeIsCounted, Opposite
<1>2. /\ Excess(s, n, a) = IF S > W THEN S - W ELSE 0
      /\ Excess(s, n + 1, a) = IF S + d > W THEN (S + d) - W ELSE 0
      /\ Shortage(s, n, a) = IF S < W THEN W - S ELSE 0
  BY <1>1 DEF Excess, Shortage
<1> HIDE DEF S, W
<1> QED
  BY <1>1, <1>2

(* Striking leaves over the excess.                                        *)
LEMMA LeftStep == IInv /\ [Next]_vars => LeftInv'
<1> SUFFICES ASSUME IInv, [Next]_vars, NEW s \in Sides
             PROVE  (/\ Increasing(leftover[s]) /\ Positions(leftover[s]) \subseteq 1 .. Struck(s)
                     /\ \A a \in ACEs : Held(s, Positions(leftover[s]), a) = Excess(s, Struck(s), a))'
  BY DEF LeftInv
<1>0. TypeOK /\ PlaceInv /\ AvailableInv /\ LeftInv /\ s \in {"before", "after"}
  BY DEF IInv, Sides
<1>1. /\ Increasing(leftover[s]) /\ Positions(leftover[s]) \subseteq 1 .. Struck(s)
      /\ \A a \in ACEs : Held(s, Positions(leftover[s]), a) = Excess(s, Struck(s), a)
  BY <1>0 DEF LeftInv
<1>2. ASSUME leftover' = leftover, entries' = entries, Struck(s)' = Struck(s)
      PROVE  (/\ Increasing(leftover[s]) /\ Positions(leftover[s]) \subseteq 1 .. Struck(s)
              /\ \A a \in ACEs : Held(s, Positions(leftover[s]), a) = Excess(s, Struck(s), a))'
  <2>1. \A a \in ACEs : Excess(s, Struck(s), a)' = Excess(s, Struck(s), a)
    BY <1>2 DEF Excess, Standing, Whole
  <2>2. \A a \in ACEs : Held(s, Positions(leftover[s]), a)' = Held(s, Positions(leftover[s]), a)
    BY <1>2 DEF Held
  <2> QED
    BY <1>1, <1>2, <2>1, <2>2
<1>3. CASE Select
  <2>1. pc = "select" /\ pc' = "select" /\ leftover' = leftover
    BY <1>3 DEF Select, Turn, leftoverVars
  <2>2. Struck(s) = 0 /\ Struck(s)' = 0
    BY <2>1 DEF Struck, Fresh
  <2>3. Positions(leftover[s]) = {}
    BY <1>1, <2>2
  <2>4. \A a \in ACEs : Held(s, {}, a)' = 0
    <3>1. \A a \in ACEs : {p \in {} : entries'[s][p] = a} = {}
      OBVIOUS
    <3> QED
      BY <3>1, FS_EmptySet DEF Held
  <2>5. \A a \in ACEs : Excess(s, 0, a)' = 0
    <3> SUFFICES ASSUME NEW a \in ACEs PROVE Excess(s, 0, a)' = 0
      OBVIOUS
    <3>1. entries' \in [Sides -> Seq(ACEs)]
      BY TypeStep DEF TypeOK
    <3>2. Len(entries'[OtherSide[s]]) \in Nat
      BY <3>1, Opposite, LenProperties
    <3>3. Standing(s, 0, a)' = 0 /\ Whole(OtherSide[s], a)' \in Nat
      BY <3>2, NoEntry, OneMoreEntry DEF Standing, Whole
    <3> QED
      BY <3>3 DEF Excess
  <2>6. \A a \in ACEs : Excess(s, Struck(s), a)' = Excess(s, 0, a)'
    BY <2>2 DEF Excess, Standing
  <2>7. \A a \in ACEs : Held(s, Positions(leftover[s]), a)' = Held(s, {}, a)'
    BY <2>1, <2>3 DEF Held
  <2> QED
    BY <1>1, <2>1, <2>2, <2>3, <2>4, <2>5, <2>6, <2>7
<1>4. CASE Count \/ Queue \/ Pair \/ Collect
  <2>1. /\ pc \in {"count", "queue", "pair", "collect"} /\ pc' = pc /\ side' = side
        /\ leftover' = leftover /\ entries' = entries
    BY <1>4 DEF Count, Queue, Pair, Collect, Turn, leftoverVars
  <2>2. Struck(s)' = Struck(s)
    BY <2>1 DEF Struck, Fresh, At
  <2> QED
    BY <1>2, <2>1, <2>2
<1>5. CASE Strike
  <2>1. Turn("strike") /\ entries' = entries
    BY <1>5 DEF Strike
  <2>2. /\ pc = "strike" /\ pc' = "strike" /\ side' = side /\ i' - 1 = i /\ (i - 1) + 1 = i
        /\ i - 1 \in Nat /\ i \in 1 .. Len(entries[side]) /\ i \in Nat
    BY <1>0, <2>1, TurnFacts
  <2>3. CASE s # side
    <3>1. Struck(s)' = Struck(s)
      BY <2>1, <2>2, <2>3 DEF Struck, Fresh, At
    <3>2. leftover'[s] = leftover[s]
      BY <1>0, <1>5, <2>3 DEF Strike, TypeOK
    <3>3. \A a \in ACEs : Excess(s, Struck(s), a)' = Excess(s, Struck(s), a)
      BY <2>1, <3>1 DEF Excess, Standing, Whole
    <3>4. \A a \in ACEs : Held(s, Positions(leftover[s]), a)' = Held(s, Positions(leftover[s]), a)
      BY <2>1, <3>2 DEF Held
    <3> QED
      BY <1>1, <3>1, <3>2, <3>3, <3>4
  <2>4. CASE s = side
    <3> DEFINE entry == entries[s][i]
    <3>1. Struck(s) = i - 1 /\ Struck(s)' = i
      <4>1. ~Fresh(s) /\ ~Fresh(s)'
        BY <1>0, <2>2, <2>4 DEF Fresh, At
      <4> QED
        BY <2>2, <2>4, <4>1 DEF Struck, At
    <3>2. entry \in ACEs
      BY <1>0, <2>2, <2>4, Shapes, ElementOfSeq
    <3>3. available[entry] = Shortage(s, i - 1, entry)
      BY <1>0, <2>2, <2>4, <3>2 DEF AvailableInv
    <3>4. Shortage(s, i - 1, entry) \in Nat
      BY <1>0, <3>2, <3>3 DEF TypeOK
    <3>5. \A a \in ACEs :
            /\ Excess(s, i - 1, a) \in Nat
            /\ Excess(s, i, a) = Excess(s, i - 1, a)
                 + (IF entry = a /\ Shortage(s, i - 1, a) = 0 THEN 1 ELSE 0)
      <4> SUFFICES ASSUME NEW a \in ACEs
                   PROVE  /\ Excess(s, i - 1, a) \in Nat
                          /\ Excess(s, i, a) = Excess(s, i - 1, a)
                               + (IF entry = a /\ Shortage(s, i - 1, a) = 0 THEN 1 ELSE 0)
        OBVIOUS
      <4> DEFINE n == i - 1
      <4>1. n \in Nat /\ n + 1 = i
        BY <2>2
      <4> HIDE DEF n
      <4>2. /\ Excess(s, n, a) \in Nat
            /\ Excess(s, n + 1, a) =
                 Excess(s, n, a)
                   + (IF entries[s][n + 1] = a /\ Shortage(s, n, a) = 0 THEN 1 ELSE 0)
        BY <1>0, <4>1, ExcessGrows
      <4> QED
        BY <4>1, <4>2 DEF n
    <3>6. \A a \in ACEs : Excess(s, Struck(s), a)' = Excess(s, i, a)
      BY <2>1, <3>1 DEF Excess, Standing, Whole
    <3>7. IsFiniteSet(Positions(leftover[s])) /\ i \notin Positions(leftover[s])
      <4>1. Positions(leftover[s]) \in SUBSET (1 .. (i - 1))
        BY <1>1, <3>1
      <4>2. \A n \in Nat : Positions(leftover[s]) \in SUBSET (1 .. n) => IsFiniteSet(Positions(leftover[s]))
        BY FinitePositions
      <4> QED
        BY <2>2, <4>1, <4>2
    <3>8. CASE available[entry] > 0
      <4>1. leftover' = leftover
        BY <1>5, <2>4, <3>8 DEF Strike
      <4>2. \A a \in ACEs : Held(s, Positions(leftover[s]), a)' = Held(s, Positions(leftover[s]), a)
        BY <2>1, <4>1 DEF Held
      <4>3. \A a \in ACEs : Excess(s, i, a) = Excess(s, i - 1, a)
        BY <3>3, <3>4, <3>5, <3>8
      <4>4. Positions(leftover[s]) \subseteq 1 .. i
        BY <1>1, <2>2, <3>1
      <4> QED
        BY <1>1, <3>1, <3>6, <4>1, <4>2, <4>3, <4>4
    <3>9. CASE ~(available[entry] > 0)
      <4>1. leftover'[s] = Append(leftover[s], i)
        BY <1>0, <1>5, <2>4, <3>9 DEF Strike, TypeOK
      <4>2. leftover[s] \in Seq(Nat)
        BY <1>0, Shapes
      <4>3. Positions(leftover'[s]) = Positions(leftover[s]) \cup {i}
        <5>1. \A seq \in Seq(Nat) : Positions(Append(seq, i)) = Positions(seq) \cup {i}
          BY <2>2, AppendedPositions
        <5> QED
          BY <4>1, <4>2, <5>1
      <4>4. \A p \in Positions(leftover[s]) : p < i
        BY <1>1, <2>2, <3>1
      <4>5. Increasing(leftover'[s])
        BY <1>1, <2>2, <4>1, <4>2, <4>4, AppendedIncreasing
      <4>6. Positions(leftover'[s]) \subseteq 1 .. i
        BY <1>1, <2>2, <3>1, <4>3
      <4>7. \A a \in ACEs : Held(s, Positions(leftover[s]), a)'
                              = Held(s, Positions(leftover[s]) \cup {i}, a)
        BY <2>1, <4>3 DEF Held
      <4>8. \A a \in ACEs :
              Held(s, Positions(leftover[s]) \cup {i}, a)
                = Held(s, Positions(leftover[s]), a) + (IF entry = a THEN 1 ELSE 0)
        <5> DEFINE positions == Positions(leftover[s])
        <5>1. IsFiniteSet(positions) /\ i \notin positions
          BY <3>7
        <5> HIDE DEF positions
        <5>2. \A a : Held(s, positions \cup {i}, a)
                        = Held(s, positions, a) + (IF entries[s][i] = a THEN 1 ELSE 0)
          <6>1. \A t, P, p, a : IsFiniteSet(P) /\ p \notin P =>
                  Held(t, P \cup {p}, a) = Held(t, P, a) + (IF entries[t][p] = a THEN 1 ELSE 0)
            BY OneMorePosition
          <6> QED
            BY <5>1, <6>1
        <5> QED
          BY <5>2 DEF positions
      <4>9. \A a \in ACEs : Excess(s, i, a) = Excess(s, i - 1, a) + (IF entry = a THEN 1 ELSE 0)
        BY <3>3, <3>4, <3>5, <3>9
      <4> QED
        <5>1. \A a \in ACEs : Held(s, Positions(leftover[s]), a) = Excess(s, i - 1, a)
          BY <1>1, <3>1
        <5>2. \A a \in ACEs : Held(s, Positions(leftover[s]), a)' = Excess(s, Struck(s), a)'
          BY <3>6, <4>7, <4>8, <4>9, <5>1
        <5>3. (Positions(leftover[s]) \subseteq 1 .. Struck(s))'
          BY <3>1, <4>6
        <5> QED
          BY <4>5, <5>2, <5>3
    <3> QED
      BY <3>8, <3>9
  <2> QED
    BY <2>3, <2>4
<1>6. CASE LoopEnds
  <2>1. leftover' = leftover /\ entries' = entries /\ Struck(s)' = Struck(s)
    BY <1>0, <1>6, StruckKept, LoopEndsInto
  <2> QED
    BY <1>2, <2>1
<1>7. CASE UNCHANGED vars
  <2>1. UNCHANGED <<entries, leftover, pc, side, i>>
    BY <1>7 DEF vars, leftoverVars
  <2> QED
    BY <1>2, <2>1 DEF Struck, Fresh, At
<1> QED
  BY <1>3, <1>4, <1>5, <1>6, <1>7, StepCases

(* The end of a loop queues, pairs and collects nothing.                   *)
LEMMA TurnsKept ==
  ASSUME TypeOK, PlaceInv, LoopEnds
  PROVE  Queued' = Queued /\ Met' = Met /\ Collected' = Collected
<1>1. /\ i' = 1 /\ i' - 1 = 0 /\ leftover' = leftover
      /\ pc \in {"queue", "collect"} => i - 1 = Len(Gone)
      /\ pc = "pair" => i - 1 = Len(Come)
  BY LoopEndsInto
<1>2. Gone' = Gone /\ Come' = Come
  BY <1>1 DEF Gone, Come
<1>3. CASE \/ Passes("select", "before", "select", "after")
           \/ Passes("select", "after", "count", "before")
           \/ Passes("count", "before", "strike", "before")
           \/ Passes("count", "after", "strike", "after")
           \/ Passes("strike", "before", "count", "after")
  BY <1>3 DEF Passes, At, Queued, Met, Collected
<1>4. CASE \/ Passes("strike", "after", "queue", "before")
           \/ Passes("queue", "before", "pair", "after")
  BY <1>1, <1>2, <1>4 DEF Passes, At, Queued, Met, Collected
<1>5. CASE \/ Passes("pair", "after", "collect", "before")
           \/ Passes("collect", "before", "done", "before")
  BY <1>1, <1>2, <1>5 DEF Passes, At, Queued, Met, Collected
<1> QED
  BY <1>3, <1>4, <1>5, LoopEndsInto

(* Before queueing begins, nothing waits in a queue.                       *)
LEMMA NothingQueued ==
  ASSUME QueueInv, PairInv, Queued = 0
  PROVE  paired = {} /\ Waiting = {} /\ \A k \in Keys : Positions(queues[k]) = {}
<1>1. First(Gone, Queued) = {}
  BY FirstNone
<1>2. paired = {} /\ Waiting = {}
  BY <1>1 DEF PairInv, Waiting
<1> QED
  BY <1>2 DEF QueueInv

(* The removed position that a turn of its loop is about, if it is queued  *)
(* or collected then.                                                      *)
LEMMA NextGone ==
  ASSUME TypeOK, PlaceInv, LeftInv, i \in 1 .. Len(Gone)
  PROVE  /\ Gone[i] \in Nat /\ Gone[i] \in Positions(Gone)
         /\ \A p \in First(Gone, i - 1) : p < Gone[i]
         /\ First(Gone, i) = First(Gone, i - 1) \cup {Gone[i]}
         /\ EntryGone(Gone[i]) \in ACEs /\ EntryGone(Gone[i]).key \in Keys
<1>1. Gone \in Seq(Nat) /\ Increasing(Gone) /\ i - 1 \in Nat /\ (i - 1) + 1 = i
      /\ Gone = leftover["before"] /\ "before" \in Sides
  BY Shapes DEF LeftInv
<1>2. \A seq \in Seq(Nat), n \in Nat :
        Increasing(seq) /\ n + 1 <= Len(seq) =>
          /\ seq[n + 1] \in Nat /\ seq[n + 1] \in Positions(seq)
          /\ \A p \in First(seq, n) : p < seq[n + 1]
  BY NextIsNew
<1>3. /\ Gone[i] \in Nat /\ Gone[i] \in Positions(Gone)
      /\ \A p \in First(Gone, i - 1) : p < Gone[i]
  BY <1>1, <1>2
<1>4. First(Gone, i) = First(Gone, i - 1) \cup {Gone[i]}
  <2>1. \A n \in Nat : First(Gone, n + 1) = First(Gone, n) \cup {Gone[n + 1]}
    BY FirstGrows
  <2> QED
    BY <1>1, <2>1
<1>5. EntryGone(Gone[i]) \in ACEs
  BY <1>1, <1>3, LeftAreEntries DEF EntryGone
<1>6. EntryGone(Gone[i]).key \in Keys
  BY <1>5 DEF ACEs
<1> QED
  BY <1>3, <1>4, <1>5, <1>6

(* The same of an added position.                                          *)
LEMMA NextCome ==
  ASSUME TypeOK, PlaceInv, LeftInv, i \in 1 .. Len(Come)
  PROVE  /\ Come[i] \in Nat /\ Come[i] \in Positions(Come)
         /\ \A p \in First(Come, i - 1) : p < Come[i]
         /\ First(Come, i) = First(Come, i - 1) \cup {Come[i]}
         /\ EntryCome(Come[i]) \in ACEs /\ EntryCome(Come[i]).key \in Keys
<1>1. Come \in Seq(Nat) /\ Increasing(Come) /\ i - 1 \in Nat /\ (i - 1) + 1 = i
      /\ Come = leftover["after"] /\ "after" \in Sides
  BY Shapes DEF LeftInv
<1>2. \A seq \in Seq(Nat), n \in Nat :
        Increasing(seq) /\ n + 1 <= Len(seq) =>
          /\ seq[n + 1] \in Nat /\ seq[n + 1] \in Positions(seq)
          /\ \A p \in First(seq, n) : p < seq[n + 1]
  BY NextIsNew
<1>3. /\ Come[i] \in Nat /\ Come[i] \in Positions(Come)
      /\ \A p \in First(Come, i - 1) : p < Come[i]
  BY <1>1, <1>2
<1>4. First(Come, i) = First(Come, i - 1) \cup {Come[i]}
  <2>1. \A n \in Nat : First(Come, n + 1) = First(Come, n) \cup {Come[n + 1]}
    BY FirstGrows
  <2> QED
    BY <1>1, <2>1
<1>5. EntryCome(Come[i]) \in ACEs
  BY <1>1, <1>3, LeftAreEntries DEF EntryCome
<1>6. EntryCome(Come[i]).key \in Keys
  BY <1>5 DEF ACEs
<1> QED
  BY <1>3, <1>4, <1>5, <1>6

(* What waits in a queue is of some identity.                              *)
LEMMA WaitingAreEntries ==
  ASSUME TypeOK, PlaceInv, LeftInv
  PROVE  \A p \in Waiting : EntryGone(p).key \in Keys
<1>1. \A p \in Waiting : p \in Positions(Gone)
  BY TurnsInRange, FirstIsSome, Shapes DEF Waiting
<1>2. \A p \in Waiting : EntryGone(p) \in ACEs
  BY <1>1, LeftAreEntries, Shapes DEF EntryGone
<1> QED
  BY <1>2 DEF ACEs

(* Queueing and pairing keep the queues apart, ordered and complete.       *)
LEMMA QueueStep == IInv /\ [Next]_vars => QueueInv'
<1> SUFFICES ASSUME IInv, [Next]_vars PROVE QueueInv'
  OBVIOUS
<1>0. TypeOK /\ PlaceInv /\ LeftInv /\ QueueInv /\ PairInv
  BY DEF IInv
<1>1. ASSUME UNCHANGED <<queues, paired, entries, leftover>>, Queued' = Queued
      PROVE  QueueInv'
  <2>1. Waiting' = Waiting /\ \A p : EntryGone(p)' = EntryGone(p)
    BY <1>1 DEF Waiting, Gone, EntryGone
  <2> QED
    BY <1>0, <1>1, <2>1 DEF QueueInv
<1>2. CASE Select \/ Count \/ Strike
  <2>1. pc \in {"select", "count", "strike"} /\ pc' = pc /\ queues' = queues /\ paired' = paired
    BY <1>2 DEF Select, Count, Strike, Turn, pairVars
  <2>2. Queued = 0 /\ Queued' = 0
    BY <2>1 DEF Queued
  <2>3. paired = {} /\ \A k \in Keys : Positions(queues[k]) = {}
    BY <1>0, <2>2, NothingQueued
  <2>4. Waiting' = {}
    BY <2>2, FirstNone DEF Waiting
  <2> QED
    BY <1>0, <2>1, <2>3, <2>4 DEF QueueInv
<1>3. CASE Queue
  <2> DEFINE g == Gone[i]
             key == EntryGone(g).key
  <2>1. Turn("queue") /\ UNCHANGED <<entries, leftover, paired>>
        /\ queues' = [queues EXCEPT ![key] = Append(queues[key], g)]
    BY <1>3 DEF Queue, leftoverVars
  <2>2. pc = "queue" /\ pc' = "queue" /\ i \in 1 .. Len(Gone) /\ i' - 1 = i
    BY <1>0, <2>1, TurnFacts
  <2>3. Queued = i - 1 /\ Queued' = i
    BY <2>2 DEF Queued
  <2>4. /\ g \in Nat /\ (\A p \in First(Gone, i - 1) : p < g)
        /\ First(Gone, i) = First(Gone, i - 1) \cup {g} /\ key \in Keys
    BY <1>0, <2>2, NextGone
  <2>5. paired \subseteq First(Gone, i - 1)
    BY <1>0, <2>3 DEF PairInv
  <2>6. Waiting = First(Gone, i - 1) \ paired
    BY <2>3 DEF Waiting
  <2>7. g \notin First(Gone, i - 1)
    BY <2>4
  <2>8. Waiting' = Waiting \cup {g}
    <3>1. Waiting' = First(Gone, i) \ paired
      BY <2>1, <2>3 DEF Waiting, Gone
    <3> QED
      BY <2>4, <2>5, <2>6, <2>7, <3>1
  <2>9. \A p : EntryGone(p)' = EntryGone(p)
    BY <2>1 DEF EntryGone
  <2>10. queues[key] \in Seq(Nat) /\ Increasing(queues[key])
         /\ \A p \in Positions(queues[key]) : p \in First(Gone, i - 1)
    BY <1>0, <2>4, <2>6, Shapes DEF QueueInv
  <2>11. EntryGone(g).key = key
    OBVIOUS
  <2> HIDE DEF g, key
  <2>12. Increasing(Append(queues[key], g))
    BY <2>4, <2>10, AppendedIncreasing
  <2>13. Positions(Append(queues[key], g)) = Positions(queues[key]) \cup {g}
    BY <2>4, <2>10, AppendedPositions
  <2>14. /\ queues'[key] = Append(queues[key], g)
         /\ \A k \in Keys : k # key => queues'[k] = queues[k]
    BY <1>0, <2>1, <2>4 DEF TypeOK
  <2>15. \A k \in Keys :
           /\ Increasing(queues'[k])
           /\ \A p \in Positions(queues'[k]) : p \in Waiting' /\ EntryGone(p).key = k
    <3> TAKE k \in Keys
    <3>1. CASE k = key
      BY <1>0, <2>8, <2>11, <2>12, <2>13, <2>14, <3>1 DEF QueueInv
    <3>2. CASE k # key
      BY <1>0, <2>8, <2>14, <3>2 DEF QueueInv
    <3> QED
      BY <3>1, <3>2
  <2>16. \A p \in Waiting' : p \in Positions(queues'[EntryGone(p).key])
    <3> TAKE p \in Waiting'
    <3>1. CASE p = g
      BY <2>11, <2>13, <2>14, <3>1
    <3>2. CASE p \in Waiting
      <4>1. p \in Positions(queues[EntryGone(p).key])
        BY <1>0, <3>2 DEF QueueInv
      <4>2. EntryGone(p).key \in Keys
        BY <1>0, <3>2, WaitingAreEntries
      <4>3. CASE EntryGone(p).key = key
        BY <2>13, <2>14, <4>1, <4>3
      <4>4. CASE EntryGone(p).key # key
        BY <2>14, <4>1, <4>2, <4>4
      <4> QED
        BY <4>3, <4>4
    <3> QED
      BY <2>8, <3>1, <3>2
  <2> QED
    BY <2>9, <2>15, <2>16 DEF QueueInv
<1>4. CASE Pair
  <2> DEFINE key == EntryCome(Come[i]).key
  <2>1. Turn("pair") /\ UNCHANGED <<entries, leftover>>
        /\ (queues[key] = <<>> => NoCounterpart)
        /\ (queues[key] # <<>> => PairWith(key, Tail(queues[key])))
    BY <1>4 DEF Pair, leftoverVars
  <2>2. pc = "pair" /\ pc' = "pair" /\ i \in 1 .. Len(Come)
    BY <1>0, <2>1, TurnFacts
  <2>3. Queued' = Queued /\ Queued = Len(Gone)
    BY <2>1, <2>2 DEF Queued, Gone
  <2>4. key \in Keys
    BY <1>0, <2>2, NextCome
  <2> HIDE DEF key
  <2>5. CASE queues[key] = <<>>
    <3>1. UNCHANGED <<queues, paired>>
      BY <2>1, <2>5 DEF NoCounterpart
    <3> QED
      BY <1>1, <2>1, <2>3, <3>1
  <2>6. CASE queues[key] # <<>>
    <3> DEFINE head == Head(queues[key])
               rest == Tail(queues[key])
    <3>1. /\ queues' = [queues EXCEPT ![key] = rest]
          /\ paired' = paired \cup {head}
      BY <2>1, <2>6 DEF PairWith
    <3>2. /\ Increasing(rest) /\ Positions(queues[key]) = Positions(rest) \cup {head}
          /\ head \notin Positions(rest) /\ EntryGone(head).key = key
      BY <1>0, <2>4, <2>6, HeadOfQueue
    <3> HIDE DEF head, rest
    <3>3. Waiting' = Waiting \ {head} /\ \A p : EntryGone(p)' = EntryGone(p)
      BY <2>1, <2>3, <3>1 DEF Waiting, Gone, EntryGone
    <3>4. /\ queues'[key] = rest
          /\ \A k : k # key /\ k \in Keys => queues'[k] = queues[k]
      BY <1>0, <2>4, <3>1 DEF TypeOK
    <3>5. \A k \in Keys :
            /\ Increasing(queues'[k])
            /\ \A p \in Positions(queues'[k]) : p \in Waiting' /\ EntryGone(p).key = k
      <4> TAKE k \in Keys
      <4>1. CASE k = key
        BY <1>0, <2>4, <3>2, <3>3, <3>4, <4>1 DEF QueueInv
      <4>2. CASE k # key
        BY <1>0, <3>2, <3>3, <3>4, <4>2 DEF QueueInv
      <4> QED
        BY <4>1, <4>2
    <3>6. \A p \in Waiting' : p \in Positions(queues'[EntryGone(p).key])
      <4> TAKE p \in Waiting'
      <4>1. p \in Waiting /\ p # head /\ p \in Positions(queues[EntryGone(p).key])
        BY <1>0, <3>3 DEF QueueInv
      <4>2. CASE EntryGone(p).key = key
        BY <3>2, <3>4, <4>1, <4>2
      <4>3. CASE EntryGone(p).key # key
        BY <1>0, <3>4, <4>1, <4>3, WaitingAreEntries
      <4> QED
        BY <4>2, <4>3
    <3> QED
      BY <3>3, <3>5, <3>6 DEF QueueInv
  <2> QED
    BY <2>5, <2>6
<1>5. CASE Collect
  <2>1. pc = "collect" /\ pc' = "collect" /\ UNCHANGED <<queues, paired, entries, leftover>>
    BY <1>5 DEF Collect, Turn, leftoverVars, pairVars
  <2>2. Queued' = Queued
    BY <2>1 DEF Queued, Gone
  <2> QED
    BY <1>1, <2>1, <2>2
<1>6. CASE LoopEnds
  <2>1. UNCHANGED <<queues, paired, entries, leftover>> /\ Queued' = Queued
    BY <1>0, <1>6, LoopEndsInto, TurnsKept
  <2> QED
    BY <1>1, <2>1
<1>7. CASE UNCHANGED vars
  <2>1. UNCHANGED <<queues, paired, entries, leftover, pc, i>>
    BY <1>7 DEF vars, leftoverVars, pairVars
  <2> QED
    BY <1>1, <2>1 DEF Queued, Gone
<1> QED
  BY <1>2, <1>3, <1>4, <1>5, <1>6, <1>7, StepCases

(* Once both lists are struck off, no ACE is left over of both: what is    *)
(* left over of one exceeds the other.                                     *)
LEMMA NoneOnBothSides == IInv => NothingBothGoneAndCome
<1> SUFFICES ASSUME IInv, pc \notin {"select", "count", "strike"},
                    NEW p \in Positions(Gone), NEW q \in Positions(Come),
                    EntryGone(p) = EntryCome(q)
             PROVE  FALSE
  BY DEF NothingBothGoneAndCome
<1>0. TypeOK /\ PlaceInv /\ LeftInv
  BY DEF IInv
<1> DEFINE a == EntryGone(p)
<1>1. a \in ACEs
  BY <1>0, LeftAreEntries, Shapes DEF EntryGone
<1>2. \A s \in Sides : Struck(s) = Len(entries[s])
  BY DEF Struck, Fresh, At
<1>3. \A s \in Sides : Held(s, Positions(leftover[s]), a) = Excess(s, Len(entries[s]), a)
  BY <1>0, <1>1, <1>2 DEF LeftInv
<1>4. \A s \in Sides : IsFiniteSet(Positions(leftover[s]))
  <2>1. \A n \in Nat : \A S \in SUBSET (1 .. n) : IsFiniteSet(S)
    BY FinitePositions
  <2>2. \A s \in Sides : Positions(leftover[s]) \in SUBSET (1 .. Len(entries[s])) /\ Len(entries[s]) \in Nat
    BY <1>0, <1>2, Shapes DEF LeftInv
  <2> QED
    BY <2>1, <2>2
<1>5. \A s, P, r : IsFiniteSet(P) /\ r \in P => Held(s, P, entries[s][r]) # 0
  BY HeldIsPositive
<1>6. Held("before", Positions(leftover["before"]), a) # 0
  BY <1>0, <1>4, <1>5, Shapes DEF EntryGone
<1>7. Held("after", Positions(leftover["after"]), a) # 0
  <2>1. a = entries["after"][q]
    BY DEF EntryCome
  <2> HIDE DEF a
  <2> QED
    BY <1>0, <1>4, <1>5, <2>1, Shapes
<1>8. Whole("before", a) \in Nat /\ Whole("after", a) \in Nat
  BY <1>0, <1>1, WholeIsCounted, Shapes
<1>9. /\ Excess("before", Len(entries["before"]), a)
           = IF Whole("before", a) > Whole("after", a) THEN Whole("before", a) - Whole("after", a) ELSE 0
      /\ Excess("after", Len(entries["after"]), a)
           = IF Whole("after", a) > Whole("before", a) THEN Whole("after", a) - Whole("before", a) ELSE 0
  <2> HIDE DEF a
  <2>1. \A s \in Sides : Standing(s, Len(entries[s]), a) = Whole(s, a)
    BY DEF Whole
  <2> QED
    BY <1>0, <2>1, Opposite, Shapes DEF Excess
<1> HIDE DEF a
<1> QED
  BY <1>0, <1>3, <1>6, <1>7, <1>8, <1>9, Shapes

(* One mask change more.                                                   *)
LEMMA OneMoreChange ==
  ASSUME TypeOK, NEW m \in MaskChanges, changed' = Append(changed, m)
  PROVE  /\ ChangedBefore' = ChangedBefore \cup {m.before}
         /\ ChangedAfter' = ChangedAfter \cup {m.after}
         /\ Len(changed) \in Nat /\ Len(changed') = Len(changed) + 1
         /\ changed'[Len(changed) + 1] = m
         /\ \A j \in 1 .. Len(changed) : changed'[j] = changed[j]
         /\ \A j \in 1 .. Len(changed') : j \in 1 .. Len(changed) \/ j = Len(changed) + 1
<1>1. changed \in Seq(MaskChanges)
  BY DEF TypeOK
<1>2. Len(changed) \in Nat
  BY <1>1, LenProperties
<1>3. /\ Len(changed') = Len(changed) + 1
      /\ changed'[Len(changed) + 1] = m
      /\ \A j \in 1 .. Len(changed) : changed'[j] = changed[j]
  BY <1>1, AppendProperties
<1>4. 1 .. Len(changed') = (1 .. Len(changed)) \cup {Len(changed) + 1}
  BY <1>2, <1>3
<1>5. ChangedBefore' = ChangedBefore \cup {m.before}
  BY <1>3, <1>4 DEF ChangedBefore
<1>6. ChangedAfter' = ChangedAfter \cup {m.after}
  BY <1>3, <1>4 DEF ChangedAfter
<1> QED
  BY <1>2, <1>3, <1>4, <1>5, <1>6

(* Pairing tells each position once, and in its own way.                   *)
LEMMA PairStep == IInv /\ [Next]_vars => PairInv'
<1> SUFFICES ASSUME IInv, [Next]_vars PROVE PairInv'
  OBVIOUS
<1>0. TypeOK /\ PlaceInv /\ LeftInv /\ QueueInv /\ PairInv
  BY DEF IInv
<1>1. ASSUME UNCHANGED <<queues, paired, added, changed, entries, leftover>>,
             Queued' = Queued, Met' = Met
      PROVE  PairInv'
  <2>1. /\ \A p : EntryGone(p)' = EntryGone(p) /\ EntryCome(p)' = EntryCome(p)
        /\ Gone' = Gone /\ Come' = Come
        /\ ChangedBefore' = ChangedBefore /\ ChangedAfter' = ChangedAfter
    BY <1>1 DEF Gone, Come, EntryGone, EntryCome, ChangedBefore, ChangedAfter
  <2>2. EveryMaskChangeMovesARight'
    BY <1>0, <1>1, <2>1 DEF PairInv, EveryMaskChangeMovesARight
  <2> QED
    BY <1>0, <1>1, <2>1, <2>2 DEF PairInv
<1>2. CASE Select \/ Count \/ Strike
  <2>1. /\ pc \in {"select", "count", "strike"} /\ pc' = pc
        /\ UNCHANGED <<queues, paired, added, changed>>
    BY <1>2 DEF Select, Count, Strike, Turn, pairVars
  <2>2. Queued = 0 /\ Queued' = 0 /\ Met = 0 /\ Met' = 0
    BY <2>1 DEF Queued, Met
  <2>3. First(Come, Met) = {} /\ First(Come, Met)' = {}
    BY <2>2, FirstNone
  <2>4. paired = {} /\ ChangedBefore = {} /\ ChangedAfter = {} /\ Positions(added) = {}
    BY <1>0, <2>2, <2>3, NothingQueued DEF PairInv
  <2>5. 1 .. Len(changed) = {}
    BY <2>4 DEF ChangedBefore
  <2>6. EveryMaskChangeMovesARight'
    BY <2>1, <2>5 DEF EveryMaskChangeMovesARight
  <2>7. ChangedBefore' = {} /\ ChangedAfter' = {}
    BY <2>1, <2>4 DEF ChangedBefore, ChangedAfter
  <2> QED
    BY <2>1, <2>3, <2>4, <2>5, <2>6, <2>7 DEF PairInv
<1>3. CASE Queue
  <2>1. Turn("queue") /\ UNCHANGED <<entries, leftover, paired, added, changed>>
    BY <1>3 DEF Queue, leftoverVars
  <2>2. pc = "queue" /\ pc' = "queue" /\ i \in 1 .. Len(Gone) /\ i' - 1 = i
    BY <1>0, <2>1, TurnFacts
  <2>3. Queued = i - 1 /\ Queued' = i /\ Met = 0 /\ Met' = 0
    BY <2>2 DEF Queued, Met
  <2>4. First(Gone, i) = First(Gone, i - 1) \cup {Gone[i]}
    BY <1>0, <2>2, NextGone
  <2>5. First(Come, Met) = {} /\ First(Come, Met)' = {}
    BY <2>3, FirstNone
  <2>6. Positions(added) = {}
    BY <1>0, <2>5 DEF PairInv
  <2>7. (paired \subseteq First(Gone, Queued))'
    BY <1>0, <2>1, <2>3, <2>4 DEF PairInv, Gone
  <2>8. EveryMaskChangeMovesARight'
    BY <1>0, <2>1 DEF PairInv, EveryMaskChangeMovesARight, EntryGone, EntryCome
  <2>9. ChangedBefore' = ChangedBefore /\ ChangedAfter' = ChangedAfter
    BY <2>1 DEF ChangedBefore, ChangedAfter
  <2> QED
    BY <1>0, <2>1, <2>5, <2>6, <2>7, <2>8, <2>9 DEF PairInv
<1>4. CASE Pair
  <2> DEFINE c == Come[i]
             key == EntryCome(c).key
  <2>1. Turn("pair") /\ UNCHANGED <<entries, leftover>>
        /\ (queues[key] = <<>> => NoCounterpart)
        /\ (queues[key] # <<>> => PairWith(key, Tail(queues[key])))
    BY <1>4 DEF Pair, leftoverVars
  <2>2. pc = "pair" /\ pc' = "pair" /\ i \in 1 .. Len(Come) /\ i' - 1 = i
    BY <1>0, <2>1, TurnFacts
  <2>3. Queued' = Queued /\ Met = i - 1 /\ Met' = i
    BY <2>1, <2>2 DEF Queued, Met, Gone
  <2>4. /\ c \in Nat /\ c \in Positions(Come) /\ (\A q \in First(Come, i - 1) : q < c)
        /\ First(Come, i) = First(Come, i - 1) \cup {c}
        /\ EntryCome(c) \in ACEs /\ key \in Keys
    BY <1>0, <2>2, NextCome
  <2>5. c \notin First(Come, i - 1)
    BY <2>4
  <2>6. Positions(added) \cup ChangedAfter = First(Come, i - 1)
    BY <1>0, <2>3 DEF PairInv
  <2>7. First(Come, Met)' = First(Come, i) /\ First(Gone, Queued)' = First(Gone, Queued)
    BY <2>1, <2>3 DEF Come, Gone
  <2>8. \A p : EntryGone(p)' = EntryGone(p) /\ EntryCome(p)' = EntryCome(p)
    BY <2>1 DEF EntryGone, EntryCome
  <2>9. EntryCome(c).key = key
    OBVIOUS
  <2>10. CASE queues[key] = <<>>
    <3>1. added' = Append(added, c) /\ UNCHANGED <<queues, paired, changed>>
      BY <2>1, <2>10 DEF NoCounterpart
    <3> HIDE DEF key, c
    <3>2. Positions(added') = Positions(added) \cup {c}
      <4>1. added \in Seq(Nat)
        BY <1>0 DEF TypeOK
      <4> QED
        BY <2>4, <3>1, <4>1, AppendedPositions
    <3>3. ChangedBefore' = ChangedBefore /\ ChangedAfter' = ChangedAfter
      BY <3>1 DEF ChangedBefore, ChangedAfter
    <3>4. EveryMaskChangeMovesARight'
      BY <1>0, <2>8, <3>1 DEF PairInv, EveryMaskChangeMovesARight
    <3>5. \A q \in Positions(added') : queues'[EntryCome(q).key] = <<>>
      <4>1. \A q \in Positions(added) : queues[EntryCome(q).key] = <<>>
        BY <1>0 DEF PairInv
      <4> QED
        BY <2>9, <2>10, <3>1, <3>2, <4>1
    <3>6. /\ (Positions(added) \cup ChangedAfter = First(Come, Met))'
          /\ (Positions(added) \cap ChangedAfter = {})'
      <4>1. Positions(added) \cap ChangedAfter = {}
        BY <1>0 DEF PairInv
      <4> QED
        BY <2>4, <2>5, <2>6, <2>7, <3>2, <3>3, <4>1
    <3>7. (paired = ChangedBefore /\ paired \subseteq First(Gone, Queued))'
      BY <1>0, <2>7, <3>1, <3>3 DEF PairInv
    <3> QED
      BY <1>0, <2>8, <3>1, <3>4, <3>5, <3>6, <3>7 DEF PairInv
  <2>11. CASE queues[key] # <<>>
    <3> DEFINE head == Head(queues[key])
               m == MaskChange(head, c)
    <3>1. /\ queues' = [queues EXCEPT ![key] = Tail(queues[key])]
          /\ paired' = paired \cup {head} /\ changed' = Append(changed, m) /\ added' = added
      BY <2>1, <2>11 DEF PairWith
    <3>2. /\ head \in Nat /\ head \in Positions(Gone) /\ head \in First(Gone, Queued)
          /\ head \notin paired /\ EntryGone(head).key = key
      BY <1>0, <2>4, <2>11, HeadOfQueue
    <3>3. EntryGone(head) \in ACEs
      BY <1>0, <3>2, LeftAreEntries, Shapes DEF EntryGone
    <3>4. EntryGone(head) # EntryCome(c)
      BY <2>2, <2>4, <3>2, NoneOnBothSides DEF NothingBothGoneAndCome
    <3> HIDE DEF c, key, head
    <3>5. EntryGone(head).mask # EntryCome(c).mask
      BY <2>4, <2>9, <3>2, <3>3, <3>4 DEF ACEs
    <3>6. /\ m.before = head /\ m.after = c
          /\ m.granted = EntryCome(c).mask \ EntryGone(head).mask
          /\ m.revoked = EntryGone(head).mask \ EntryCome(c).mask
      BY DEF MaskChange
    <3>7. EntryGone(head).mask \in SUBSET Rights /\ EntryCome(c).mask \in SUBSET Rights
      BY <2>4, <3>3 DEF ACEs
    <3>8. m.granted \cup m.revoked # {}
      BY <3>5, <3>6, <3>7
    <3>9. m \in MaskChanges
      BY <2>4, <3>2, <3>7 DEF MaskChange, MaskChanges
    <3> HIDE DEF m
    <3>10. /\ ChangedBefore' = ChangedBefore \cup {head}
           /\ ChangedAfter' = ChangedAfter \cup {c}
           /\ Len(changed) \in Nat
           /\ changed'[Len(changed) + 1] = m
           /\ \A j \in 1 .. Len(changed) : changed'[j] = changed[j]
           /\ \A j \in 1 .. Len(changed') : j \in 1 .. Len(changed) \/ j = Len(changed) + 1
      BY <1>0, <3>1, <3>6, <3>9, OneMoreChange
    <3>11. (paired = ChangedBefore /\ paired \subseteq First(Gone, Queued))'
      BY <1>0, <2>7, <3>1, <3>2, <3>10 DEF PairInv
    <3>12. /\ (Positions(added) \cup ChangedAfter = First(Come, Met))'
           /\ (Positions(added) \cap ChangedAfter = {})'
      <4>1. Positions(added) \cap ChangedAfter = {}
        BY <1>0 DEF PairInv
      <4> QED
        BY <2>4, <2>5, <2>6, <2>7, <3>1, <3>10, <4>1
    <3>13. \A j \in 1 .. Len(changed) : /\ changed[j].before # head
                                        /\ changed[j].after # c
      <4>1. \A j \in 1 .. Len(changed) : /\ changed[j].before \in ChangedBefore
                                         /\ changed[j].after \in ChangedAfter
        BY DEF ChangedBefore, ChangedAfter
      <4>2. head \notin ChangedBefore /\ c \notin ChangedAfter
        BY <1>0, <2>5, <2>6, <3>2 DEF PairInv
      <4> QED
        BY <4>1, <4>2
    <3>14. (\A j, k \in 1 .. Len(changed) :
              j # k => changed[j].before # changed[k].before /\ changed[j].after # changed[k].after)'
      <4> SUFFICES ASSUME NEW j \in 1 .. Len(changed'), NEW k \in 1 .. Len(changed'), j # k
                   PROVE  /\ changed'[j].before # changed'[k].before
                          /\ changed'[j].after # changed'[k].after
        OBVIOUS
      <4>1. CASE j \in 1 .. Len(changed) /\ k \in 1 .. Len(changed)
        BY <1>0, <3>10, <4>1 DEF PairInv
      <4>2. CASE j \in 1 .. Len(changed) /\ k = Len(changed) + 1
        BY <3>6, <3>10, <3>13, <4>2
      <4>3. CASE j = Len(changed) + 1 /\ k \in 1 .. Len(changed)
        BY <3>6, <3>10, <3>13, <4>3
      <4> QED
        BY <3>10, <4>1, <4>2, <4>3
    <3>15. EveryMaskChangeMovesARight'
      <4> SUFFICES ASSUME NEW j \in 1 .. Len(changed')
                   PROVE  /\ EntryGone(changed'[j].before).key = EntryCome(changed'[j].after).key
                          /\ changed'[j].granted \cup changed'[j].revoked # {}
        BY <2>8 DEF EveryMaskChangeMovesARight
      <4>1. CASE j \in 1 .. Len(changed)
        BY <1>0, <3>10, <4>1 DEF PairInv, EveryMaskChangeMovesARight
      <4>2. CASE j = Len(changed) + 1
        BY <2>9, <3>2, <3>6, <3>8, <3>10, <4>2
      <4> QED
        BY <3>10, <4>1, <4>2
    <3>16. \A q \in Positions(added') : queues'[EntryCome(q).key] = <<>>
      <4> SUFFICES ASSUME NEW q \in Positions(added)
                   PROVE  queues'[EntryCome(q).key] = <<>>
        BY <3>1
      <4>1. queues[EntryCome(q).key] = <<>>
        BY <1>0 DEF PairInv
      <4>2. q \in Positions(Come)
        BY <1>0, TurnsInRange, FirstIsSome, Shapes DEF PairInv
      <4>3. EntryCome(q) \in ACEs
        BY <1>0, <4>2, LeftAreEntries, Shapes DEF EntryCome
      <4>4. EntryCome(q).key \in Keys
        BY <4>3 DEF ACEs
      <4>5. EntryCome(q).key # key
        BY <2>11, <4>1
      <4> QED
        BY <1>0, <3>1, <4>1, <4>4, <4>5 DEF TypeOK
    <3> QED
      BY <2>8, <3>11, <3>12, <3>14, <3>15, <3>16 DEF PairInv
  <2> QED
    BY <2>10, <2>11
<1>5. CASE Collect
  <2>1. /\ pc = "collect" /\ pc' = "collect"
        /\ UNCHANGED <<queues, paired, added, changed, entries, leftover>>
    BY <1>5 DEF Collect, Turn, leftoverVars, pairVars
  <2>2. Queued' = Queued /\ Met' = Met
    BY <2>1 DEF Queued, Met, Gone, Come
  <2> QED
    BY <1>1, <2>1, <2>2
<1>6. CASE LoopEnds
  <2>1. /\ UNCHANGED <<queues, paired, added, changed, entries, leftover>>
        /\ Queued' = Queued /\ Met' = Met
    BY <1>0, <1>6, LoopEndsInto, TurnsKept
  <2> QED
    BY <1>1, <2>1
<1>7. CASE UNCHANGED vars
  <2>1. UNCHANGED <<queues, paired, added, changed, entries, leftover, pc, i>>
    BY <1>7 DEF vars, leftoverVars, pairVars
  <2>2. Queued' = Queued /\ Met' = Met
    BY <2>1 DEF Queued, Met, Gone, Come
  <2> QED
    BY <1>1, <2>1, <2>2
<1> QED
  BY <1>2, <1>3, <1>4, <1>5, <1>6, <1>7, StepCases

(* Collecting keeps what was not paired.                                   *)
LEMMA CollectStep == IInv /\ [Next]_vars => CollectInv'
<1> SUFFICES ASSUME IInv, [Next]_vars PROVE CollectInv'
  OBVIOUS
<1>0. TypeOK /\ PlaceInv /\ LeftInv /\ CollectInv
  BY DEF IInv
<1>1. ASSUME Collected = 0, Collected' = 0, removed' = removed
      PROVE  CollectInv'
  <2>1. First(Gone, Collected) = {} /\ First(Gone, Collected)' = {}
    BY <1>1, FirstNone
  <2> QED
    BY <1>0, <1>1, <2>1 DEF CollectInv
<1>2. CASE Select \/ Count \/ Strike \/ Queue \/ Pair
  <2>1. /\ pc \in {"select", "count", "strike", "queue", "pair"} /\ pc' = pc
        /\ removed' = removed
    BY <1>2 DEF Select, Count, Strike, Queue, Pair, Turn
  <2> QED
    BY <1>1, <2>1 DEF Collected
<1>3. CASE Collect
  <2>1. /\ Turn("collect") /\ UNCHANGED <<leftover, paired>>
        /\ removed' = IF Gone[i] \in paired THEN removed ELSE Append(removed, Gone[i])
    BY <1>3 DEF Collect, leftoverVars, pairVars
  <2>2. pc = "collect" /\ pc' = "collect" /\ i \in 1 .. Len(Gone) /\ i' - 1 = i
    BY <1>0, <2>1, TurnFacts
  <2>3. Collected = i - 1 /\ Collected' = i /\ Gone' = Gone
    BY <2>1, <2>2 DEF Collected, Gone
  <2>4. Gone[i] \in Nat /\ First(Gone, i) = First(Gone, i - 1) \cup {Gone[i]}
    BY <1>0, <2>2, NextGone
  <2>5. Positions(removed) = First(Gone, i - 1) \ paired
    BY <1>0, <2>3 DEF CollectInv
  <2>6. CASE Gone[i] \in paired
    <3>1. removed' = removed
      BY <2>1, <2>6
    <3> QED
      BY <2>1, <2>3, <2>4, <2>5, <2>6, <3>1 DEF CollectInv
  <2>7. CASE Gone[i] \notin paired
    <3>1. Positions(removed') = Positions(removed) \cup {Gone[i]}
      <4>1. removed \in Seq(Nat)
        BY <1>0 DEF TypeOK
      <4>2. removed' = Append(removed, Gone[i])
        BY <2>1, <2>7
      <4>3. \A p \in Nat : Positions(Append(removed, p)) = Positions(removed) \cup {p}
        BY <4>1, AppendedPositions
      <4> QED
        BY <2>4, <4>2, <4>3
    <3> QED
      BY <2>1, <2>3, <2>4, <2>5, <2>7, <3>1 DEF CollectInv
  <2> QED
    BY <2>6, <2>7
<1>4. CASE LoopEnds
  <2>1. UNCHANGED <<leftover, paired, removed>> /\ Collected' = Collected
    BY <1>0, <1>4, LoopEndsInto, TurnsKept
  <2> QED
    BY <1>0, <2>1 DEF CollectInv, Gone
<1>5. CASE UNCHANGED vars
  <2>1. UNCHANGED <<leftover, paired, removed, pc, i>>
    BY <1>5 DEF vars, leftoverVars, pairVars
  <2> QED
    BY <1>0, <2>1 DEF CollectInv, Collected, Gone
<1> QED
  BY <1>2, <1>3, <1>4, <1>5, StepCases

-----------------------------------------------------------------------------
(* Whatever the lists, the options and the turn reached, the counts, the   *)
(* queues and the result stand in the relations above.                     *)
THEOREM Inductive == Spec => []IInv
<1>1. Init => IInv
  BY InitIInv
<1>2. IInv /\ [Next]_vars => IInv'
  <2> SUFFICES ASSUME IInv, [Next]_vars PROVE IInv'
    OBVIOUS
  <2>1. TypeOK' /\ AvailableInv' /\ LeftInv' /\ QueueInv' /\ PairInv' /\ CollectInv'
    BY TypeStep, AvailableStep, LeftStep, QueueStep, PairStep, CollectStep
  <2>2. PlaceInv'
    BY <2>1, PlaceStep
  <2> QED
    BY <2>1, <2>2 DEF IInv
<1> QED
  BY <1>1, <1>2, PTL DEF Spec

(* No position a loop takes an entry at is out of its list, and no count   *)
(* goes below zero.                                                        *)
THEOREM TypeCorrect == Spec => []TypeOK
<1>1. IInv => TypeOK
  BY DEF IInv
<1> QED
  BY <1>1, Inductive, PTL

(* leftover leaves an ACE on one side at most, by multiplicity.            *)
THEOREM NoneGoneAndCome == Spec => []NothingBothGoneAndCome
BY Inductive, NoneOnBothSides, PTL

(* A pair diffEntries makes is of one identity and of two masks: what      *)
(* leftover leaves on both sides of an identity differs in the mask.       *)
THEOREM MaskChangesAreReal == Spec => []EveryMaskChangeMovesARight
<1>1. IInv => EveryMaskChangeMovesARight
  BY DEF IInv, PairInv
<1> QED
  BY <1>1, Inductive, PTL

(* What is told when the last loop has ended: all that came, and all that  *)
(* went.                                                                   *)
LEMMA ToldAtTheEnd ==
  ASSUME IInv, pc = "done"
  PROVE  /\ Positions(added) \cup ChangedAfter = Positions(Come)
         /\ Positions(added) \cap ChangedAfter = {}
         /\ Positions(removed) \cup ChangedBefore = Positions(Gone)
         /\ Positions(removed) \cap ChangedBefore = {}
         /\ Waiting = Positions(removed)
<1>1. Queued = Len(Gone) /\ Met = Len(Come) /\ Collected = Len(Gone)
  BY DEF Queued, Met, Collected
<1>2. First(Gone, Len(Gone)) = Positions(Gone) /\ First(Come, Len(Come)) = Positions(Come)
  BY FirstAll
<1> QED
  BY <1>1, <1>2 DEF IInv, PairInv, CollectInv, Waiting

(* The loops of diffEntries tell every entry left over, and none twice.    *)
THEOREM ToldOnce == Spec => []EveryEntryToldOnce
<1>1. IInv => EveryEntryToldOnce
  BY ToldAtTheEnd DEF EveryEntryToldOnce, IInv, PairInv
<1> QED
  BY <1>1, Inductive, PTL

(* An addition and a removal are told apart only if no mask change could   *)
(* have told them together.                                                *)
NothingLeftToPair ==
  pc = "done" =>
    \A p \in Positions(removed), q \in Positions(added) :
      EntryGone(p).key # EntryCome(q).key

(* An added position found the queue of its identity empty, and queues     *)
(* only ever shrink from then on: nothing removed of that identity is left. *)
LEMMA UnpairedAreApart == IInv => NothingLeftToPair
<1> SUFFICES ASSUME IInv, pc = "done",
                    NEW p \in Positions(removed), NEW q \in Positions(added),
                    EntryGone(p).key = EntryCome(q).key
             PROVE  FALSE
  BY DEF NothingLeftToPair
<1>1. p \in Waiting
  BY ToldAtTheEnd
<1>2. p \in Positions(queues[EntryGone(p).key])
  BY <1>1 DEF IInv, QueueInv
<1>3. queues[EntryCome(q).key] = <<>>
  BY DEF IInv, PairInv
<1> QED
  BY <1>2, <1>3, NoPositions

(* diffEntries reports the difference of two multisets: what is told of    *)
(* each side is its excess over the other, ACE by ACE.                     *)
THEOREM ReportExplains == Spec => []ReportExplainsTheNewList
<1>1. IInv => ReportExplainsTheNewList
  <2> SUFFICES ASSUME IInv, pc = "done", NEW a \in ACEs
               PROVE  HeldBefore(a) + Held("after", Positions(added) \cup ChangedAfter, a)
                        = HeldAfter(a) + Held("before", Positions(removed) \cup ChangedBefore, a)
    BY DEF ReportExplainsTheNewList
  <2>0. TypeOK /\ LeftInv
    BY DEF IInv
  <2>1. \A s \in Sides : Struck(s) = Len(entries[s])
    BY DEF Struck, Fresh, At
  <2>2. \A s \in Sides : Held(s, Positions(leftover[s]), a) = Excess(s, Len(entries[s]), a)
    BY <2>0, <2>1 DEF LeftInv
  <2>3. HeldBefore(a) = Whole("before", a) /\ HeldAfter(a) = Whole("after", a)
    BY DEF HeldBefore, HeldAfter, Whole, Standing
  <2>4. Whole("before", a) \in Nat /\ Whole("after", a) \in Nat
    BY <2>0, WholeIsCounted, Shapes
  <2>5. /\ Excess("before", Len(entries["before"]), a)
             = IF Whole("before", a) > Whole("after", a) THEN Whole("before", a) - Whole("after", a) ELSE 0
        /\ Excess("after", Len(entries["after"]), a)
             = IF Whole("after", a) > Whole("before", a) THEN Whole("after", a) - Whole("before", a) ELSE 0
    BY Opposite DEF Excess, Whole
  <2>6. /\ Held("after", Positions(added) \cup ChangedAfter, a)
             = Excess("after", Len(entries["after"]), a)
        /\ Held("before", Positions(removed) \cup ChangedBefore, a)
             = Excess("before", Len(entries["before"]), a)
    BY <2>0, <2>2, ToldAtTheEnd, Shapes
  <2> QED
    BY <2>3, <2>4, <2>5, <2>6
<1> QED
  BY <1>1, Inductive, PTL
-----------------------------------------------------------------------------
(* The matching the loops make without ever building it: what was struck   *)
(* off is matched with its like on the other side.                         *)

(* The positions that were struck off, and those that hold an ACE.         *)
Kept(s) == (1 .. Len(entries[s])) \ Positions(leftover[s])
KeptOf(s, a) == {p \in Kept(s) : entries[s][p] = a}

(* As many of an ACE are struck off on one side as on the other.           *)
LEMMA KeptAlike ==
  ASSUME IInv, pc = "done", NEW a \in ACEs
  PROVE  /\ IsFiniteSet(KeptOf("before", a)) /\ IsFiniteSet(KeptOf("after", a))
         /\ Cardinality(KeptOf("before", a)) = Cardinality(KeptOf("after", a))
<1>0. TypeOK /\ PlaceInv /\ LeftInv
  BY DEF IInv
<1>1. \A s \in Sides : Struck(s) = Len(entries[s])
  BY DEF Struck, Fresh, At
<1>2. ASSUME NEW s \in Sides
      PROVE  /\ IsFiniteSet(KeptOf(s, a))
             /\ Cardinality(KeptOf(s, a)) = Whole(s, a) - Excess(s, Len(entries[s]), a)
  <2> DEFINE All == {p \in 1 .. Len(entries[s]) : entries[s][p] = a}
             Left == {p \in Positions(leftover[s]) : entries[s][p] = a}
  <2>1. Len(entries[s]) \in Nat /\ Positions(leftover[s]) \subseteq 1 .. Len(entries[s])
    BY <1>0, <1>1, Shapes DEF LeftInv
  <2>2. IsFiniteSet(1 .. Len(entries[s]))
    BY <2>1, FS_Interval
  <2>3. IsFiniteSet(KeptOf(s, a)) /\ IsFiniteSet(Left)
    <3>1. KeptOf(s, a) \in SUBSET (1 .. Len(entries[s])) /\ Left \in SUBSET (1 .. Len(entries[s]))
      BY <2>1 DEF KeptOf, Kept
    <3> QED
      BY <2>2, <3>1, FS_Subset
  <2>4. All = KeptOf(s, a) \cup Left /\ KeptOf(s, a) \cap Left = {}
    BY <2>1 DEF KeptOf, Kept
  <2>5. Cardinality(All) = Whole(s, a)
    BY DEF Whole, Standing, Occurrences
  <2>6. Cardinality(Left) = Excess(s, Len(entries[s]), a)
    BY <1>0, <1>1 DEF LeftInv, Held
  <2>7. Cardinality(KeptOf(s, a)) \in Nat /\ Cardinality(Left) \in Nat
    BY <2>3, FS_CardinalityType
  <2> HIDE DEF All, Left
  <2>8. Cardinality(All) = Cardinality(KeptOf(s, a)) + Cardinality(Left) - Cardinality({})
    BY <2>3, <2>4, FS_Union
  <2> QED
    BY <2>3, <2>5, <2>6, <2>7, <2>8, FS_EmptySet
<1>3. /\ Excess("before", Len(entries["before"]), a)
           = IF Whole("before", a) > Whole("after", a) THEN Whole("before", a) - Whole("after", a) ELSE 0
      /\ Excess("after", Len(entries["after"]), a)
           = IF Whole("after", a) > Whole("before", a) THEN Whole("after", a) - Whole("before", a) ELSE 0
  BY Opposite DEF Excess, Whole
<1>4. Whole("before", a) \in Nat /\ Whole("after", a) \in Nat
  BY <1>0, WholeIsCounted, Shapes
<1>5. "before" \in Sides /\ "after" \in Sides
  BY DEF Sides
<1> QED
  BY <1>2, <1>3, <1>4, <1>5

(* A function from what was struck off of one list to its likes in the     *)
(* other, one to one and onto.                                             *)
IsPartner(f) ==
  /\ f \in [Kept("before") -> Kept("after")]
  /\ \A p \in Kept("before") : entries["after"][f[p]] = entries["before"][p]
  /\ \A p, q \in Kept("before") : f[p] = f[q] => p = q
  /\ \A q \in Kept("after") : \E p \in Kept("before") : f[p] = q

(* There is one, put together of a bijection for each ACE.                 *)
LEMMA KeptArePartners ==
  ASSUME IInv, pc = "done"
  PROVE  \E f : IsPartner(f)
<1>0. TypeOK
  BY DEF IInv
<1>1. ASSUME NEW s \in Sides, NEW p \in Kept(s)
      PROVE  entries[s][p] \in ACEs /\ p \in KeptOf(s, entries[s][p])
  BY <1>0, Shapes DEF Kept, KeptOf
<1> DEFINE B(a) == Bijection(KeptOf("before", a), KeptOf("after", a))
           match == [a \in ACEs |-> CHOOSE f : f \in B(a)]
           partner == [p \in Kept("before") |-> match[entries["before"][p]][p]]
<1>2. ASSUME NEW a \in ACEs PROVE match[a] \in B(a)
  <2>1. ExistsBijection(KeptOf("before", a), KeptOf("after", a))
    BY KeptAlike, FS_SameCardinalityBij
  <2>2. B(a) # {}
    BY <2>1 DEF ExistsBijection
  <2> HIDE DEF B
  <2> QED
    BY <2>2
<1>3. ASSUME NEW a \in ACEs
      PROVE  /\ match[a] \in [KeptOf("before", a) -> KeptOf("after", a)]
             /\ \A p, q \in KeptOf("before", a) : match[a][p] = match[a][q] => p = q
             /\ \A q \in KeptOf("after", a) : \E p \in KeptOf("before", a) : match[a][p] = q
  <2> HIDE DEF match
  <2> QED
    BY <1>2, Fun_BijectionProperties
<1> HIDE DEF match
<1>4. "before" \in Sides /\ "after" \in Sides
  BY DEF Sides
<1>5. ASSUME NEW p \in Kept("before")
      PROVE  /\ partner[p] \in Kept("after") /\ partner[p] \in KeptOf("after", entries["before"][p])
             /\ entries["after"][partner[p]] = entries["before"][p]
  <2>1. partner[p] = match[entries["before"][p]][p]
    OBVIOUS
  <2> HIDE DEF partner
  <2>2. entries["before"][p] \in ACEs /\ p \in KeptOf("before", entries["before"][p])
    BY <1>1, <1>4
  <2>3. partner[p] \in KeptOf("after", entries["before"][p])
    BY <1>3, <2>1, <2>2
  <2> QED
    BY <2>3 DEF KeptOf
<1>6. ASSUME NEW p \in Kept("before"), NEW q \in Kept("before"), partner[p] = partner[q]
      PROVE  p = q
  <2>1. entries["before"][p] = entries["before"][q]
    BY <1>5, <1>6
  <2> QED
    BY <1>1, <1>3, <1>4, <1>6, <2>1
<1>7. ASSUME NEW q \in Kept("after")
      PROVE  \E p \in Kept("before") : partner[p] = q
  <2>1. PICK p \in KeptOf("before", entries["after"][q]) : match[entries["after"][q]][p] = q
    BY <1>1, <1>3, <1>4
  <2> QED
    BY <2>1 DEF KeptOf
<1>8. partner \in [Kept("before") -> Kept("after")]
  BY <1>5
<1>9. IsPartner(partner)
  <2> HIDE DEF partner
  <2> QED
    BY <1>5, <1>6, <1>7, <1>8 DEF IsPartner
<1> QED
  BY <1>9

(* The pairs of positions matched: partners, and what changed.             *)
ChangedPairs == {<<changed[j].before, changed[j].after>> : j \in 1 .. Len(changed)}
Matched(f) == {<<p, f[p]>> : p \in Kept("before")} \cup ChangedPairs
EntryPair(x) == <<EntryAt("before", x[1]), EntryAt("after", x[2])>>
MatchedEntries(f) == {EntryPair(x) : x \in Matched(f)}

(* What changed, pair by pair.                                             *)
LEMMA ChangedPairsFacts ==
  ASSUME IInv, pc = "done", NEW x \in ChangedPairs
  PROVE  /\ x = <<x[1], x[2]>>
         /\ x[1] \in Positions(Gone) /\ x[2] \in Positions(Come)
         /\ x[1] \in ChangedBefore /\ x[2] \in ChangedAfter
         /\ entries["before"][x[1]].key = entries["after"][x[2]].key
         /\ entries["before"][x[1]] # entries["after"][x[2]]
<1>1. PICK j \in 1 .. Len(changed) : x = <<changed[j].before, changed[j].after>>
  BY DEF ChangedPairs
<1>2. x[1] = changed[j].before /\ x[2] = changed[j].after /\ x = <<x[1], x[2]>>
  BY <1>1
<1>3. x[1] \in ChangedBefore /\ x[2] \in ChangedAfter
  BY <1>2 DEF ChangedBefore, ChangedAfter
<1>4. x[1] \in Positions(Gone) /\ x[2] \in Positions(Come)
  BY <1>3, ToldAtTheEnd
<1>5. entries["before"][x[1]].key = entries["after"][x[2]].key
  BY <1>2 DEF IInv, PairInv, EveryMaskChangeMovesARight, EntryGone, EntryCome
<1>6. entries["before"][x[1]] # entries["after"][x[2]]
  BY <1>4, NoneOnBothSides DEF NothingBothGoneAndCome, EntryGone, EntryCome
<1> QED
  BY <1>2, <1>3, <1>4, <1>5, <1>6

(* Each position is in one pair at most.                                   *)
LEMMA ChangedPairsAreApart ==
  ASSUME IInv, NEW x \in ChangedPairs, NEW y \in ChangedPairs
  PROVE  x[1] = y[1] <=> x[2] = y[2]
<1>1. PICK j \in 1 .. Len(changed) : x = <<changed[j].before, changed[j].after>>
  BY DEF ChangedPairs
<1>2. PICK k \in 1 .. Len(changed) : y = <<changed[k].before, changed[k].after>>
  BY DEF ChangedPairs
<1>3. j # k => changed[j].before # changed[k].before /\ changed[j].after # changed[k].after
  BY DEF IInv, PairInv
<1> QED
  BY <1>1, <1>2, <1>3

(* Which positions of each list are matched, and with what.                *)
LEMMA MatchedFacts ==
  ASSUME IInv, pc = "done", NEW f, IsPartner(f)
  PROVE  /\ \A x \in Matched(f) :
              /\ x = <<x[1], x[2]>>
              /\ x[1] \in 1 .. Len(entries["before"]) /\ x[2] \in 1 .. Len(entries["after"])
              /\ entries["before"][x[1]].key = entries["after"][x[2]].key
              /\ entries["before"][x[1]] # entries["after"][x[2]] <=> x \in ChangedPairs
         /\ \A x, y \in Matched(f) : x[1] = y[1] <=> x[2] = y[2]
         /\ \A p \in 1 .. Len(entries["before"]) :
              p \in Positions(removed) <=> \A x \in Matched(f) : x[1] # p
         /\ \A q \in 1 .. Len(entries["after"]) :
              q \in Positions(added) <=> \A x \in Matched(f) : x[2] # q
<1>0. TypeOK /\ PlaceInv /\ LeftInv
  BY DEF IInv
<1>1. /\ Positions(Gone) \subseteq 1 .. Len(entries["before"])
      /\ Positions(Come) \subseteq 1 .. Len(entries["after"])
      /\ Kept("before") = (1 .. Len(entries["before"])) \ Positions(Gone)
      /\ Kept("after") = (1 .. Len(entries["after"])) \ Positions(Come)
  BY <1>0, LeftAreEntries, Shapes DEF Kept
<1>2. ASSUME NEW x \in Matched(f), x \notin ChangedPairs
      PROVE  /\ x = <<x[1], f[x[1]]>> /\ x[1] \in Kept("before")
             /\ x[2] = f[x[1]] /\ x[2] \in Kept("after")
             /\ entries["before"][x[1]] = entries["after"][x[2]]
  <2>1. PICK p \in Kept("before") : x = <<p, f[p]>>
    BY <1>2 DEF Matched
  <2> QED
    BY <2>1 DEF IsPartner
<1>3. \A p \in Kept("before") : <<p, f[p]>> \in Matched(f)
  BY DEF Matched
<1>4. ChangedPairs \subseteq Matched(f)
  BY DEF Matched
<1>5. ASSUME NEW x \in Matched(f)
      PROVE  /\ x = <<x[1], x[2]>>
             /\ x[1] \in 1 .. Len(entries["before"]) /\ x[2] \in 1 .. Len(entries["after"])
             /\ entries["before"][x[1]].key = entries["after"][x[2]].key
             /\ entries["before"][x[1]] # entries["after"][x[2]] <=> x \in ChangedPairs
  BY <1>1, <1>2, ChangedPairsFacts
<1>6. ASSUME NEW x \in Matched(f), NEW y \in Matched(f)
      PROVE  x[1] = y[1] <=> x[2] = y[2]
  <2>1. CASE x \in ChangedPairs /\ y \in ChangedPairs
    BY <2>1, ChangedPairsAreApart
  <2>2. CASE x \notin ChangedPairs /\ y \notin ChangedPairs
    BY <1>2, <2>2 DEF IsPartner
  <2>3. CASE x \in ChangedPairs /\ y \notin ChangedPairs
    BY <1>1, <1>2, <2>3, ChangedPairsFacts
  <2>4. CASE x \notin ChangedPairs /\ y \in ChangedPairs
    BY <1>1, <1>2, <2>4, ChangedPairsFacts
  <2> QED
    BY <2>1, <2>2, <2>3, <2>4
<1>7. /\ Positions(added) = Positions(Come) \ ChangedAfter
      /\ Positions(removed) = Positions(Gone) \ ChangedBefore
  BY ToldAtTheEnd
<1>8. /\ \A p \in ChangedBefore : \E x \in ChangedPairs : x[1] = p
      /\ \A q \in ChangedAfter : \E x \in ChangedPairs : x[2] = q
  <2>1. \A j \in 1 .. Len(changed) : <<changed[j].before, changed[j].after>> \in ChangedPairs
    BY DEF ChangedPairs
  <2>2. ASSUME NEW p \in ChangedBefore PROVE \E x \in ChangedPairs : x[1] = p
    <3>1. PICK j \in 1 .. Len(changed) : p = changed[j].before
      BY DEF ChangedBefore
    <3>2. <<changed[j].before, changed[j].after>>[1] = p
      BY <3>1
    <3> QED
      BY <2>1, <3>2
  <2>3. ASSUME NEW q \in ChangedAfter PROVE \E x \in ChangedPairs : x[2] = q
    <3>1. PICK j \in 1 .. Len(changed) : q = changed[j].after
      BY DEF ChangedAfter
    <3>2. <<changed[j].before, changed[j].after>>[2] = q
      BY <3>1
    <3> QED
      BY <2>1, <3>2
  <2> QED
    BY <2>2, <2>3
<1>9. ASSUME NEW p \in 1 .. Len(entries["before"])
      PROVE  p \in Positions(removed) <=> \A x \in Matched(f) : x[1] # p
  <2>1. CASE p \in Kept("before")
    BY <1>1, <1>3, <1>7, <2>1
  <2>2. CASE p \in ChangedBefore
    BY <1>4, <1>7, <1>8, <2>2
  <2>3. CASE p \notin Kept("before") /\ p \notin ChangedBefore
    BY <1>1, <1>2, <1>7, <2>3, ChangedPairsFacts
  <2> QED
    BY <2>1, <2>2, <2>3
<1>10. ASSUME NEW q \in 1 .. Len(entries["after"])
       PROVE  q \in Positions(added) <=> \A x \in Matched(f) : x[2] # q
  <2>1. CASE q \in Kept("after")
    <3>1. PICK p \in Kept("before") : f[p] = q
      BY <2>1 DEF IsPartner
    <3>2. <<p, q>> \in Matched(f) /\ <<p, q>>[2] = q
      BY <1>3, <3>1
    <3> QED
      BY <1>1, <1>7, <2>1, <3>2
  <2>2. CASE q \in ChangedAfter
    BY <1>4, <1>7, <1>8, <2>2
  <2>3. CASE q \notin Kept("after") /\ q \notin ChangedAfter
    BY <1>1, <1>2, <1>7, <2>3, ChangedPairsFacts
  <2> QED
    BY <2>1, <2>2, <2>3
<1> QED
  BY <1>5, <1>6, <1>9, <1>10

(* An entry is its position and its ACE.                                   *)
LEMMA EntryFacts ==
  \A s, p, q : /\ EntryAt(s, p).at = p /\ EntryAt(s, p).ace = entries[s][p]
               /\ EntryAt(s, p) = EntryAt(s, q) => p = q
BY DEF EntryAt

(* What a matching leaves out is what was removed and what was added, and   *)
(* what differs in it is what changed.                                     *)
LEMMA GapsAreReported ==
  ASSUME IInv, pc = "done", NEW f, IsPartner(f)
  PROVE  Gaps(EntriesOf("before"), EntriesOf("after"), MatchedEntries(f)) = Report
<1> DEFINE m == MatchedEntries(f)
<1>0. TypeOK /\ PlaceInv /\ LeftInv
  BY DEF IInv
<1>1. /\ Positions(removed) \subseteq 1 .. Len(entries["before"])
      /\ Positions(added) \subseteq 1 .. Len(entries["after"])
  BY <1>0, LeftAreEntries, ToldAtTheEnd, Shapes
<1>2. \A x : EntryPair(x)[1] = EntryAt("before", x[1]) /\ EntryPair(x)[2] = EntryAt("after", x[2])
  BY DEF EntryPair
<1>3. EntriesOf("before") \ {p[1] : p \in m} = Report.removed
  <2>1. ASSUME NEW e PROVE e \in {p[1] : p \in m} <=> \E x \in Matched(f) : e = EntryAt("before", x[1])
    BY <1>2 DEF MatchedEntries
  <2>2. ASSUME NEW e
        PROVE  e \in EntriesOf("before") \ {p[1] : p \in m}
                 <=> \E p \in 1 .. Len(entries["before"]) :
                       e = EntryAt("before", p) /\ \A x \in Matched(f) : x[1] # p
    <3>1. e \in EntriesOf("before") <=> \E p \in 1 .. Len(entries["before"]) : e = EntryAt("before", p)
      BY DEF EntriesOf
    <3>2. \A k : e = EntryAt("before", k) =>
            (e \in {p[1] : p \in m} <=> \E x \in Matched(f) : x[1] = k)
      BY <2>1, EntryFacts
    <3> HIDE DEF m
    <3> QED
      BY <3>1, <3>2
  <2>3. ASSUME NEW e
        PROVE  e \in Report.removed <=> \E p \in Positions(removed) : e = EntryAt("before", p)
    BY DEF Report
  <2>4. \A e : e \in EntriesOf("before") \ {p[1] : p \in m} <=> e \in Report.removed
    <3>1. \A p \in 1 .. Len(entries["before"]) :
            p \in Positions(removed) <=> \A x \in Matched(f) : x[1] # p
      BY MatchedFacts
    <3> HIDE DEF m
    <3> QED
      BY <1>1, <2>2, <2>3, <3>1
  <2> QED
    BY <2>4
<1>4. EntriesOf("after") \ {p[2] : p \in m} = Report.added
  <2>1. ASSUME NEW e PROVE e \in {p[2] : p \in m} <=> \E x \in Matched(f) : e = EntryAt("after", x[2])
    BY <1>2 DEF MatchedEntries
  <2>2. ASSUME NEW e
        PROVE  e \in EntriesOf("after") \ {p[2] : p \in m}
                 <=> \E q \in 1 .. Len(entries["after"]) :
                       e = EntryAt("after", q) /\ \A x \in Matched(f) : x[2] # q
    <3>1. e \in EntriesOf("after") <=> \E q \in 1 .. Len(entries["after"]) : e = EntryAt("after", q)
      BY DEF EntriesOf
    <3>2. \A q : e = EntryAt("after", q) =>
            (e \in {p[2] : p \in m} <=> \E x \in Matched(f) : x[2] = q)
      BY <2>1, EntryFacts
    <3> HIDE DEF m
    <3> QED
      BY <3>1, <3>2
  <2>3. ASSUME NEW e
        PROVE  e \in Report.added <=> \E q \in Positions(added) : e = EntryAt("after", q)
    BY DEF Report
  <2>4. \A e : e \in EntriesOf("after") \ {p[2] : p \in m} <=> e \in Report.added
    <3>1. \A q \in 1 .. Len(entries["after"]) :
            q \in Positions(added) <=> \A x \in Matched(f) : x[2] # q
      BY MatchedFacts
    <3> HIDE DEF m
    <3> QED
      BY <1>1, <2>2, <2>3, <3>1
  <2> QED
    BY <2>4
<1>5. {p \in m : p[1].ace # p[2].ace} = Report.changed
  <2>1. ASSUME NEW x \in Matched(f)
        PROVE  EntryPair(x)[1].ace # EntryPair(x)[2].ace <=> x \in ChangedPairs
    BY <1>2, EntryFacts, MatchedFacts
  <2>2. {p \in m : p[1].ace # p[2].ace} = {EntryPair(x) : x \in ChangedPairs}
    <3>1. ChangedPairs \subseteq Matched(f)
      BY DEF Matched
    <3> QED
      BY <2>1, <3>1 DEF MatchedEntries
  <2>3. {EntryPair(x) : x \in ChangedPairs}
          = {<<EntryAt("before", changed[j].before), EntryAt("after", changed[j].after)>> :
               j \in 1 .. Len(changed)}
    <3> DEFINE at(j) == <<changed[j].before, changed[j].after>>
               pair(j) == <<EntryAt("before", changed[j].before), EntryAt("after", changed[j].after)>>
    <3>1. \A j : EntryPair(at(j)) = pair(j)
      BY DEF EntryPair
    <3>2. ChangedPairs = {at(j) : j \in 1 .. Len(changed)}
      BY DEF ChangedPairs
    <3> HIDE DEF at, pair
    <3>3. {EntryPair(x) : x \in ChangedPairs} = {pair(j) : j \in 1 .. Len(changed)}
      BY <3>1, <3>2
    <3> QED
      BY <3>3 DEF pair
  <2> QED
    BY <2>2, <2>3 DEF Report
<1>6. Report = [removed |-> Report.removed, added |-> Report.added, changed |-> Report.changed]
  BY DEF Report
<1> QED
  BY <1>3, <1>4, <1>5, <1>6 DEF Gaps

(* The matching is one to one, of equal identities.                        *)
LEMMA MatchedOneToOne ==
  ASSUME IInv, pc = "done", NEW f, IsPartner(f)
  PROVE  /\ OneToOne(MatchedEntries(f))
         /\ MatchedEntries(f) \subseteq
              {p \in EntriesOf("before") \X EntriesOf("after") : p[1].ace.key = p[2].ace.key}
<1>1. \A x : EntryPair(x)[1] = EntryAt("before", x[1]) /\ EntryPair(x)[2] = EntryAt("after", x[2])
  BY DEF EntryPair
<1>2. ASSUME NEW x \in Matched(f), NEW y \in Matched(f)
      PROVE  EntryPair(x)[1] = EntryPair(y)[1] <=> EntryPair(x)[2] = EntryPair(y)[2]
  BY <1>1, EntryFacts, MatchedFacts
<1>3. ASSUME NEW x \in Matched(f)
      PROVE  /\ EntryPair(x) \in EntriesOf("before") \X EntriesOf("after")
             /\ EntryPair(x)[1].ace.key = EntryPair(x)[2].ace.key
  <2>1. /\ x[1] \in 1 .. Len(entries["before"]) /\ x[2] \in 1 .. Len(entries["after"])
        /\ entries["before"][x[1]].key = entries["after"][x[2]].key
    BY MatchedFacts
  <2>2. EntryAt("before", x[1]) \in EntriesOf("before") /\ EntryAt("after", x[2]) \in EntriesOf("after")
    BY <2>1 DEF EntriesOf
  <2>3. EntryPair(x) \in EntriesOf("before") \X EntriesOf("after")
    BY <2>2 DEF EntryPair
  <2> QED
    BY <1>1, <2>1, <2>3, EntryFacts
<1>4. \A e \in MatchedEntries(f) : \E x \in Matched(f) : e = EntryPair(x)
  BY DEF MatchedEntries
<1>5. OneToOne(MatchedEntries(f))
  BY <1>2, <1>4 DEF OneToOne
<1> QED
  BY <1>3, <1>4, <1>5

(* What is told of the older list is what went, and of the newer what came. *)
LEMMA ReportTells ==
  ASSUME IInv, pc = "done"
  PROVE  /\ \A a \in Told(Report, 1) : \E p \in Positions(Gone) : a = EntryGone(p)
         /\ \A a \in Told(Report, 2) : \E q \in Positions(Come) : a = EntryCome(q)
<1> DEFINE pair(j) == <<EntryAt("before", changed[j].before), EntryAt("after", changed[j].after)>>
<1>1. /\ Report.removed = {EntryAt("before", p) : p \in Positions(removed)}
      /\ Report.added = {EntryAt("after", p) : p \in Positions(added)}
      /\ Report.changed = {pair(j) : j \in 1 .. Len(changed)}
  BY DEF Report
<1>2. /\ \A j \in 1 .. Len(changed) : changed[j].before \in Positions(Gone)
                                       /\ changed[j].after \in Positions(Come)
      /\ Positions(removed) \subseteq Positions(Gone) /\ Positions(added) \subseteq Positions(Come)
  BY ToldAtTheEnd DEF ChangedBefore, ChangedAfter
<1>3. \A j : pair(j)[1].ace = entries["before"][changed[j].before]
             /\ pair(j)[2].ace = entries["after"][changed[j].after]
  BY EntryFacts
<1>4. /\ Told(Report, 1) = {p[1].ace : p \in Report.changed} \cup {p.ace : p \in Report.removed}
      /\ Told(Report, 2) = {p[2].ace : p \in Report.changed} \cup {p.ace : p \in Report.added}
  BY DEF Told
<1> HIDE DEF pair
<1>5. ASSUME NEW a \in Told(Report, 1) PROVE \E p \in Positions(Gone) : a = EntryGone(p)
  BY <1>1, <1>2, <1>3, <1>4, EntryFacts DEF EntryGone
<1>6. ASSUME NEW a \in Told(Report, 2) PROVE \E q \in Positions(Come) : a = EntryCome(q)
  BY <1>1, <1>2, <1>3, <1>4, EntryFacts DEF EntryCome
<1> QED
  BY <1>5, <1>6

(* The report of the loops is one that Comparison allows, for lists of     *)
(* every length: Descriptor rests on no more of diffEntries than it does.  *)
THEOREM ReportMatches == Spec => []ReportIsOfAMatching
<1>1. IInv => ReportIsOfAMatching
  <2> SUFFICES ASSUME IInv, pc = "done"
               PROVE  Report \in DiffEntries(EntriesOf("before"), EntriesOf("after"))
    BY DEF ReportIsOfAMatching
  <2>1. PICK f : IsPartner(f)
    BY KeptArePartners
  <2>2. Report = Gaps(EntriesOf("before"), EntriesOf("after"), MatchedEntries(f))
    BY <2>1, GapsAreReported
  <2>3. /\ OneToOne(MatchedEntries(f))
        /\ MatchedEntries(f) \subseteq
             {p \in EntriesOf("before") \X EntriesOf("after") : p[1].ace.key = p[2].ace.key}
    BY <2>1, MatchedOneToOne
  <2>4. AsDiffEntriesLeaves(Report)
    <3>1. Told(Report, 1) \cap Told(Report, 2) = {}
      BY ReportTells, NoneOnBothSides DEF NothingBothGoneAndCome
    <3>2. NothingLeftToPair
      BY UnpairedAreApart
    <3>3. \A p \in Report.removed, q \in Report.added : p.ace.key # q.ace.key
      BY <3>2, EntryFacts DEF NothingLeftToPair, Report, EntryGone, EntryCome
    <3> QED
      BY <3>1, <3>3 DEF AsDiffEntriesLeaves
  <2> QED
    BY <2>2, <2>3, <2>4 DEF DiffEntries
<1> QED
  BY <1>1, Inductive, PTL
=============================================================================
