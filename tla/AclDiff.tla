------------------------------- MODULE AclDiff -------------------------------
(***************************************************************************)
(* diffEntries of acls/diff.go, with selectEntries and leftover, which it  *)
(* calls on each of the two lists: one action per turn of a loop.          *)
(*                                                                         *)
(* An ACE is its identity key, which is everything but the mask, and its   *)
(* mask, a set of rights.  Whether it is inherited is one of its flags,    *)
(* hence a matter of its key.  A pointer of the code is a position in the  *)
(* list it points into.  Definitions named Mutant... are wrong on purpose: *)
(* with one in place of what follows it, a run must break a property.      *)
(***************************************************************************)
EXTENDS Naturals, Sequences, FiniteSets, Comparison

CONSTANTS
  Keys,       \* identity keys: type, flags, object types, trustee, data
  Inherited,  \* those whose flags say the ACE was inherited
  Rights,     \* the bits of an access mask
  Lists       \* the lists compared: a bound on the inputs

ACEs == [key : Keys, mask : SUBSET Rights]

ASSUME ListsAssumption == Inherited \subseteq Keys /\ Lists \subseteq Seq(ACEs)

VARIABLES
  given,            \* the two lists, as "before" and "after"
  ignoreInherited,  \* the option of that name
  pc,               \* which loop is running
  side,             \* over which list
  i,                \* its next turn
  entries,          \* the entries selected from each list
  available,        \* leftover: what the other list still accounts for
  leftover,         \* the positions of each list it does not account for
  queues,           \* removedByIdentity: unpaired positions of "before", per key
  paired,           \* the positions of "before" that found a counterpart
  added, removed, changed  \* the result

leftoverVars == <<available, leftover>>
pairVars == <<queues, paired, added, changed>>
vars == <<given, ignoreInherited, pc, side, i, entries, leftoverVars, pairVars, removed>>

Sides == {"before", "after"}
OtherSide == [before |-> "after", after |-> "before"]

MaskChanges == [before : Nat, after : Nat, granted : SUBSET Rights, revoked : SUBSET Rights]

NoneAvailable == [a \in ACEs |-> 0]

(* What was removed and what was added, before they are paired.            *)
Gone == leftover["before"]
Come == leftover["after"]
EntryGone(p) == entries["before"][p]
EntryCome(p) == entries["after"][p]

Init ==
  /\ given \in [Sides -> Lists]
  /\ ignoreInherited \in BOOLEAN
  /\ pc = "select" /\ side = "before" /\ i = 1
  /\ entries = [s \in Sides |-> <<>>]
  /\ available = NoneAvailable
  /\ leftover = [s \in Sides |-> <<>>]
  /\ queues = [k \in Keys |-> <<>>]
  /\ paired = {}
  /\ added = <<>> /\ removed = <<>> /\ changed = <<>>

(* The list each loop ranges over, and the loop that follows it.           *)
Ranged ==
  CASE pc = "select" -> given[side]
    [] pc = "count" -> entries[OtherSide[side]]
    [] pc = "strike" -> entries[side]
    [] pc \in {"queue", "collect"} -> Gone
    [] pc = "pair" -> Come

Successor ==
  [select  |-> [before |-> <<"select", "after">>, after |-> <<"count", "before">>],
   count   |-> [before |-> <<"strike", "before">>, after |-> <<"strike", "after">>],
   strike  |-> [before |-> <<"count", "after">>, after |-> <<"queue", "before">>],
   queue   |-> [before |-> <<"pair", "after">>],
   pair    |-> [after |-> <<"collect", "before">>],
   collect |-> [before |-> <<"done", "before">>]]

Turn(loop) ==
  /\ pc = loop
  /\ i <= Len(Ranged)
  /\ i' = i + 1
  /\ UNCHANGED <<given, ignoreInherited, pc, side>>

(* The end of a loop; leftover starts from empty counts every time.        *)
MutantLoopEndsKeepingCounts ==
  /\ pc # "done"
  /\ i > Len(Ranged)
  /\ i' = 1
  /\ pc' = Successor[pc][side][1] /\ side' = Successor[pc][side][2]
  /\ UNCHANGED <<given, ignoreInherited, entries, leftoverVars, pairVars, removed>>

LoopEnds ==
  /\ pc # "done"
  /\ i > Len(Ranged)
  /\ i' = 1
  /\ pc' = Successor[pc][side][1] /\ side' = Successor[pc][side][2]
  /\ available' = IF pc = "strike" THEN NoneAvailable ELSE available
  /\ UNCHANGED <<given, ignoreInherited, entries, leftover, pairVars, removed>>

(* selectEntries.                                                          *)
Select ==
  /\ Turn("select")
  /\ LET entry == given[side][i]
     IN  entries' = IF ignoreInherited /\ entry.key \in Inherited
                    THEN entries
                    ELSE [entries EXCEPT ![side] = Append(@, entry)]
  /\ UNCHANGED <<leftoverVars, pairVars, removed>>

(* leftover counts what the other list holds ...                           *)
MutantCountOnce ==
  /\ Turn("count")
  /\ available' = [available EXCEPT ![entries[OtherSide[side]][i]] = 1]
  /\ UNCHANGED <<entries, leftover, pairVars, removed>>

Count ==
  /\ Turn("count")
  /\ available' = [available EXCEPT ![entries[OtherSide[side]][i]] = @ + 1]
  /\ UNCHANGED <<entries, leftover, pairVars, removed>>

(* ... and strikes it off.                                                 *)
MutantStrikeBelowZero ==
  /\ Turn("strike")
  /\ LET entry == entries[side][i]
     IN  /\ available' = [available EXCEPT ![entry] = @ - 1]
         /\ leftover' = IF available[entry] > 0
                        THEN leftover
                        ELSE [leftover EXCEPT ![side] = Append(@, i)]
  /\ UNCHANGED <<entries, pairVars, removed>>

Strike ==
  /\ Turn("strike")
  /\ LET entry == entries[side][i]
     IN  IF available[entry] > 0
         THEN /\ available' = [available EXCEPT ![entry] = @ - 1]
              /\ UNCHANGED leftover
         ELSE /\ leftover' = [leftover EXCEPT ![side] = Append(@, i)]
              /\ UNCHANGED available
  /\ UNCHANGED <<entries, pairVars, removed>>

(* diffEntries queues what was removed by identity ...                     *)
Queue ==
  /\ Turn("queue")
  /\ queues' = [queues EXCEPT ![EntryGone(Gone[i]).key] = Append(@, Gone[i])]
  /\ UNCHANGED <<entries, leftoverVars, paired, added, changed, removed>>

(* ... pairs what was added with the head of the queue of its identity ... *)
MaskChange(b, a) ==
  [before |-> b, after |-> a,
   granted |-> EntryCome(a).mask \ EntryGone(b).mask,
   revoked |-> EntryGone(b).mask \ EntryCome(a).mask]

PairWith(key, rest) ==
  /\ queues' = [queues EXCEPT ![key] = rest]
  /\ paired' = paired \cup {Head(queues[key])}
  /\ changed' = Append(changed, MaskChange(Head(queues[key]), Come[i]))
  /\ UNCHANGED added

NoCounterpart ==
  /\ added' = Append(added, Come[i])
  /\ UNCHANGED <<queues, paired, changed>>

MutantPairNeverDequeues ==
  /\ Turn("pair")
  /\ LET key == EntryCome(Come[i]).key
     IN  IF queues[key] = <<>> THEN NoCounterpart ELSE PairWith(key, queues[key])
  /\ UNCHANGED <<entries, leftoverVars, removed>>

MutantPairOnlyTheFirst ==
  /\ Turn("pair")
  /\ LET key == EntryCome(Come[i]).key
     IN  IF queues[key] = <<>> THEN NoCounterpart ELSE PairWith(key, <<>>)
  /\ UNCHANGED <<entries, leftoverVars, removed>>

Pair ==
  /\ Turn("pair")
  /\ LET key == EntryCome(Come[i]).key
     IN  IF queues[key] = <<>> THEN NoCounterpart ELSE PairWith(key, Tail(queues[key]))
  /\ UNCHANGED <<entries, leftoverVars, removed>>

(* ... and keeps of what was removed what found no counterpart.            *)
Collect ==
  /\ Turn("collect")
  /\ removed' = IF Gone[i] \in paired THEN removed ELSE Append(removed, Gone[i])
  /\ UNCHANGED <<entries, leftoverVars, pairVars>>

Loops == Select \/ Count \/ Strike \/ Queue \/ Pair \/ Collect \/ LoopEnds

Returned == pc = "done" /\ UNCHANGED vars

Next == Loops \/ Returned

Spec == Init /\ [][Next]_vars

-----------------------------------------------------------------------------
(* How often an ACE stands among the first n entries of a list.            *)
Occurrences(list, n, a) == Cardinality({j \in 1 .. n : list[j] = a})
HeldBefore(a) == Occurrences(entries["before"], Len(entries["before"]), a)
HeldAfter(a) == Occurrences(entries["after"], Len(entries["after"]), a)

(* The positions a sequence of positions names, and how many of them hold  *)
(* a given ACE.                                                            *)
Positions(positions) == {positions[j] : j \in 1 .. Len(positions)}
ChangedBefore == {changed[j].before : j \in 1 .. Len(changed)}
ChangedAfter == {changed[j].after : j \in 1 .. Len(changed)}
Held(s, positions, a) == Cardinality({p \in positions : entries[s][p] = a})

(* Every variable stays in its type.                                       *)
TypeOK ==
  /\ given \in [Sides -> Lists]
  /\ ignoreInherited \in BOOLEAN
  /\ pc \in {"select", "count", "strike", "queue", "pair", "collect", "done"}
  /\ side \in Sides
  /\ i \in Nat \ {0}
  /\ entries \in [Sides -> Seq(ACEs)]
  /\ available \in [ACEs -> Nat]
  /\ leftover \in [Sides -> Seq(Nat)]
  /\ queues \in [Keys -> Seq(Nat)]
  /\ paired \in SUBSET Nat
  /\ added \in Seq(Nat) /\ removed \in Seq(Nat)
  /\ changed \in Seq(MaskChanges)

(* The report accounts for the whole difference of the two lists, as       *)
(* multisets of ACEs, duplicates included: taking out of the older list    *)
(* what was removed or re-masked and putting in what was added or          *)
(* re-masked gives the newer one.                                          *)
ReportExplainsTheNewList ==
  pc = "done" =>
    \A a \in ACEs :
      HeldBefore(a) + Held("after", Positions(added) \cup ChangedAfter, a)
        = HeldAfter(a) + Held("before", Positions(removed) \cup ChangedBefore, a)

(* And no more than the difference: an ACE reported as having left is not  *)
(* also reported as having come, so a reordered or merely duplicated-alike *)
(* list reports nothing at all.                                            *)
NothingBothGoneAndCome ==
  pc \notin {"select", "count", "strike"} =>
    \A p \in Positions(Gone), q \in Positions(Come) : EntryGone(p) # EntryCome(q)

(* A re-masked ACE has one identity and really gains or loses a right.     *)
EveryMaskChangeMovesARight ==
  \A j \in 1 .. Len(changed) :
    /\ EntryGone(changed[j].before).key = EntryCome(changed[j].after).key
    /\ changed[j].granted \cup changed[j].revoked # {}

(* Every entry left over is told in exactly one way: one side of a mask    *)
(* change, or an addition or a removal of its own.                         *)
EveryEntryToldOnce ==
  pc = "done" =>
    /\ Positions(added) \cup ChangedAfter = Positions(Come)
    /\ Positions(added) \cap ChangedAfter = {}
    /\ Positions(removed) \cup ChangedBefore = Positions(Gone)
    /\ Positions(removed) \cap ChangedBefore = {}
    /\ \A j, k \in 1 .. Len(changed) :
         j # k => /\ changed[j].before # changed[k].before
                  /\ changed[j].after # changed[k].after

(* Put together, the loops return what Comparison promises of diffEntries:  *)
(* there is a matching of the two lists, entries the loops struck off       *)
(* against each other included, of which the report is what is left out and *)
(* what differs.  Descriptor takes no more than this for granted.           *)
EntryAt(s, p) == [at |-> p, ace |-> entries[s][p]]
EntriesOf(s) == {EntryAt(s, p) : p \in 1 .. Len(entries[s])}
Report ==
  [removed |-> {EntryAt("before", p) : p \in Positions(removed)},
   added |-> {EntryAt("after", p) : p \in Positions(added)},
   changed |-> {<<EntryAt("before", changed[j].before), EntryAt("after", changed[j].after)>> :
                  j \in 1 .. Len(changed)}]
ReportIsOfAMatching ==
  pc = "done" => Report \in DiffEntries(EntriesOf("before"), EntriesOf("after"))
=============================================================================
