-------------------------- MODULE OfflineDiffProofs --------------------------
(***************************************************************************)
(* Theorems about OfflineDiff, for every directory, scope, account, number *)
(* of captures and of writes.                                              *)
(***************************************************************************)
EXTENDS OfflineDiff, SequenceTheorems, TLAPS

(* What a capture keeps of a descriptor.                                   *)
View(c, d) == [dacl |-> d.dacl, sacl |-> IF scope[c].includeSACL THEN d.sacl ELSE NoList]

(* The types that TypeOK leaves open: the domains of functions.            *)
ShapeInv ==
  /\ scope \in [Captures -> Scopes] /\ account \in [Captures -> Accounts]
  /\ base \in [Captures -> Nat]
  /\ snapshot = [c \in Captures |-> snapshot[c]]
  /\ \A c \in Captures : snapshot[c] = [o \in DOMAIN snapshot[c] |-> snapshot[c][o]]

(* What is in a snapshot was in the directory while it was taken ...       *)
Faithful(c) ==
  \A o \in DOMAIN snapshot[c] :
    o \in Objects /\ \E d \in seen[c][o] \ {Gone} : snapshot[c][o] = View(c, d)

(* ... and what is missing from it, of the bases queried so far, was gone   *)
(* from the directory at some instant of the capture, or refused to it.    *)
Missing(c, n) ==
  (Below[scope[c].searchBases[n]] \cap Matching[Filter(scope[c])])
    \ (DOMAIN snapshot[c] \cup Refused(c))
Complete(c) == \A n \in 1 .. base[c] : \A o \in Missing(c, n) : Gone \in seen[c][o]

SnapshotInv == \A c \in Captures : Faithful(c) /\ Complete(c)

(* What is filed, and what diff mode has read, is of captures that were    *)
(* taken to the end.                                                       *)
FiledInv ==
  /\ \A name \in Names : holds[name] \in Captures => ended[holds[name]] = "succeeded"
  /\ {before, after} \ {Nothing} \subseteq {c \in Captures : ended[c] = "succeeded"}
  /\ pc \in {"after", "compared"} => before # Nothing
  /\ pc = "compared" => after # Nothing

IInv == TypeOK /\ ShapeInv /\ SnapshotInv /\ FiledInv

-----------------------------------------------------------------------------
(* Lemmas.                                                                 *)

(* No step changes what a capture was asked for.                           *)
LEMMA ScopesStay == Next => scope' = scope /\ account' = account
BY DEF Next, WriteObject, QueryBase, WriteSnapshot, CaptureFails, ReadBefore, ReadAfter,
       EndDiff, captureVars

(* What is in scope is an object, and so is what is refused.               *)
LEMMA ScopeTypes ==
  ASSUME ShapeInv, NEW c \in Captures
  PROVE  /\ scope[c].searchBases \in Seq(DOMAIN Below)
         /\ Len(scope[c].searchBases) \in Nat
         /\ Filter(scope[c]) \in Filters
         /\ scope[c].includeSACL \in BOOLEAN
         /\ InScope(scope[c]) \subseteq Objects
         /\ \A n \in 1 .. Len(scope[c].searchBases) :
              Below[scope[c].searchBases[n]] \cap Matching[Filter(scope[c])]
                \subseteq InScope(scope[c])
<1>1. scope[c] \in Scopes
  BY DEF ShapeInv
<1>2. /\ scope[c].searchBases \in Seq(DOMAIN Below)
      /\ scope[c].ldapFilter \in Filters /\ scope[c].includeSACL \in BOOLEAN
  BY <1>1, OfflineAssumption
<1>3. Len(scope[c].searchBases) \in Nat
      /\ DOMAIN scope[c].searchBases = 1 .. Len(scope[c].searchBases)
  BY <1>2, LenProperties
<1>4. Filter(scope[c]) \in Filters
  BY <1>2, OfflineAssumption DEF Filter
<1>5. InScope(scope[c]) \subseteq Objects
  <2>1. Matching[Filter(scope[c])] \subseteq Objects
    BY <1>4, OfflineAssumption
  <2> QED
    BY <2>1 DEF InScope
<1>6. \A n \in 1 .. Len(scope[c].searchBases) :
        Below[scope[c].searchBases[n]] \cap Matching[Filter(scope[c])] \subseteq InScope(scope[c])
  <2> SUFFICES ASSUME NEW n \in 1 .. Len(scope[c].searchBases),
                      NEW o \in Below[scope[c].searchBases[n]],
                      o \in Matching[Filter(scope[c])]
               PROVE  o \in InScope(scope[c])
    OBVIOUS
  <2>1. scope[c].searchBases[n] \in BasesOf(scope[c])
    BY <1>3 DEF BasesOf
  <2>2. o \in UNION {Below[b] : b \in BasesOf(scope[c])}
    BY <2>1
  <2> QED
    BY <2>2 DEF InScope
<1> QED
  BY <1>2, <1>3, <1>4, <1>5, <1>6

(* What one query records: objects of the scope that are not refused, each  *)
(* with what the directory holds.                                          *)
LEMMA RecordedTypes ==
  ASSUME TypeOK, ShapeInv, NEW c \in Captures, base[c] < Len(scope[c].searchBases)
  PROVE  /\ Recorded(c) \subseteq InScope(scope[c]) \ Refused(c)
         /\ \A o \in Recorded(c) : o \in Objects /\ directory[o] \in Contents
<1>1. base[c] \in Nat /\ Len(scope[c].searchBases) \in Nat
  BY ScopeTypes DEF ShapeInv
<1>2. base[c] + 1 \in 1 .. Len(scope[c].searchBases)
  BY <1>1
<1>3. Entries(c) \subseteq InScope(scope[c])
  BY <1>2, ScopeTypes DEF Entries
<1>4. \A o \in Entries(c) : directory[o] # Gone
  BY DEF Entries
<1>5. \A o \in Entries(c) : o \in Objects
  BY <1>3, ScopeTypes
<1> QED
  BY <1>3, <1>4, <1>5 DEF Recorded, TypeOK

(* A descriptor as it comes back, under the controls of the capture.       *)
LEMMA ReturnedIsView ==
  ASSUME NEW c \in Captures, NEW o, directory[o] \in Contents
  PROVE  Returned(c, o) = View(c, directory[o])
<1> DEFINE d == directory[o]
           sacl == IF scope[c].includeSACL THEN d.sacl ELSE NoList
<1>1. d = [dacl |-> d.dacl, sacl |-> d.sacl]
  BY OfflineAssumption
<1>2. Returned(c, o) = [d EXCEPT !.sacl = sacl]
  BY DEF Returned
<1> HIDE DEF d
<1>3. [d EXCEPT !.sacl = sacl] = [dacl |-> d.dacl, sacl |-> sacl]
  BY <1>1
<1> QED
  BY <1>2, <1>3 DEF View, d

(* What is kept of a descriptor is a reading.                              *)
LEMMA ViewTypes == \A c \in Captures, d \in Contents : View(c, d) \in Readings
BY DEF View, Readings

-----------------------------------------------------------------------------
(* The inductive invariant.                                                *)

(* The invariant holds before the first capture.                           *)
LEMMA InitIInv == Init => IInv
<1> SUFFICES ASSUME Init PROVE IInv
  OBVIOUS
<1>1. ShapeInv
  BY DEF Init, ShapeInv
<1>2. TypeOK
  <2>1. \A c \in Captures : Len(scope[c].searchBases) \in Nat
    BY <1>1, ScopeTypes
  <2>2. 0 \in 0 .. MaxWrites
    BY OfflineAssumption
  <2>3. \A c \in Captures :
          /\ scope[c] \in Scopes /\ account[c] \in Accounts
          /\ base[c] \in 0 .. Len(scope[c].searchBases)
          /\ DOMAIN snapshot[c] = {} /\ ended[c] = "running"
    BY <2>1 DEF Init
  <2> QED
    BY <2>2, <2>3 DEF Init, TypeOK
<1>3. SnapshotInv
  BY DEF Init, SnapshotInv, Faithful, Complete
<1>4. FiledInv
  BY OfflineAssumption DEF Init, FiledInv
<1> QED
  BY <1>1, <1>2, <1>3, <1>4 DEF IInv

(* Every step keeps the domains of functions.                              *)
LEMMA ShapeStep == IInv /\ Next => ShapeInv'
<1> SUFFICES ASSUME IInv, Next PROVE ShapeInv'
  OBVIOUS
<1>1. scope' \in [Captures -> Scopes] /\ account' \in [Captures -> Accounts]
  BY ScopesStay DEF IInv, ShapeInv
<1>2. CASE UNCHANGED <<base, snapshot>>
  BY <1>1, <1>2 DEF IInv, ShapeInv
<1>3. ASSUME NEW c \in Captures, QueryBase(c) PROVE ShapeInv'
  <2> DEFINE grown == [o \in DOMAIN snapshot[c] \cup Recorded(c) |->
                         IF o \in DOMAIN snapshot[c] THEN snapshot[c][o] ELSE Returned(c, o)]
  <2>1. base' = [base EXCEPT ![c] = base[c] + 1] /\ snapshot' = [snapshot EXCEPT ![c] = grown]
    BY <1>3 DEF QueryBase
  <2>2. grown = [o \in DOMAIN grown |-> grown[o]]
    OBVIOUS
  <2> HIDE DEF grown
  <2>3. base' \in [Captures -> Nat]
    BY <2>1 DEF IInv, ShapeInv
  <2>4. DOMAIN snapshot = Captures
    BY DEF IInv, ShapeInv
  <2>5. snapshot' = [v \in Captures |-> IF v = c THEN grown ELSE snapshot[v]]
    BY <2>1, <2>4
  <2>6. \A v \in Captures :
          snapshot'[v] = [o \in DOMAIN snapshot'[v] |-> snapshot'[v][o]]
    BY <2>2, <2>5 DEF IInv, ShapeInv
  <2>7. snapshot' = [v \in Captures |-> snapshot'[v]]
    BY <2>5
  <2> QED
    BY <1>1, <2>3, <2>6, <2>7 DEF ShapeInv
<1> QED
  BY <1>2, <1>3 DEF Next, WriteObject, WriteSnapshot, CaptureFails, ReadBefore, ReadAfter,
                    EndDiff, captureVars

(* A capture that is not at a query keeps what it has, and what was seen of *)
(* the directory only grows.                                               *)
LEMMA Kept ==
  ASSUME IInv, Next, NEW c \in Captures,
         base'[c] = base[c], snapshot'[c] = snapshot[c],
         \A o \in Objects : seen[c][o] \subseteq seen'[c][o]
  PROVE  (Faithful(c) /\ Complete(c))'
<1> USE DEF IInv
<1>1. scope'[c] = scope[c] /\ Refused(c)' = Refused(c)
  BY ScopesStay DEF Refused
<1>2. Faithful(c) /\ Complete(c)
  BY DEF SnapshotInv
<1>3. Faithful(c)'
  <2> SUFFICES ASSUME NEW o \in DOMAIN snapshot[c]
               PROVE  /\ o \in Objects
                      /\ \E d \in seen'[c][o] \ {Gone} : snapshot[c][o] = View(c, d)'
    BY DEF Faithful
  <2>1. o \in Objects /\ \E d \in seen[c][o] \ {Gone} : snapshot[c][o] = View(c, d)
    BY <1>2 DEF Faithful
  <2> QED
    BY <1>1, <2>1 DEF View
<1>4. Complete(c)'
  <2> SUFFICES ASSUME NEW n \in 1 .. base[c], NEW o \in Missing(c, n)'
               PROVE  Gone \in seen'[c][o]
    BY DEF Complete
  <2>1. o \in Missing(c, n)
    BY <1>1 DEF Missing
  <2>2. o \in Objects
    <3>1. n \in 1 .. Len(scope[c].searchBases)
      BY ScopeTypes DEF TypeOK
    <3>2. Below[scope[c].searchBases[n]] \cap Matching[Filter(scope[c])] \subseteq Objects
      BY <3>1, ScopeTypes
    <3> QED
      BY <2>1, <3>2 DEF Missing
  <2>3. Gone \in seen[c][o]
    BY <1>2, <2>1 DEF Complete
  <2> QED
    BY <2>2, <2>3
<1> QED
  BY <1>3, <1>4

(* Every step keeps what the snapshots hold within what was seen.          *)
LEMMA SnapshotStep == IInv /\ Next => SnapshotInv'
<1> SUFFICES ASSUME IInv, Next, NEW c \in Captures PROVE (Faithful(c) /\ Complete(c))'
  BY DEF SnapshotInv
<1> USE DEF IInv
<1>1. CASE UNCHANGED <<base, snapshot, seen>>
  BY <1>1, Kept
<1>2. CASE WriteObject
  <2>1. PICK o \in Objects, d \in Contents \cup {Gone} :
          seen' = [v \in Captures |->
                     IF Reading(v) THEN [seen[v] EXCEPT ![o] = @ \cup {d}] ELSE seen[v]]
    BY <1>2 DEF WriteObject
  <2>2. \A p \in Objects : seen[c][p] \subseteq seen'[c][p]
    BY <2>1 DEF TypeOK
  <2>3. base'[c] = base[c] /\ snapshot'[c] = snapshot[c]
    BY <1>2 DEF WriteObject, captureVars
  <2> QED
    BY <2>2, <2>3, Kept
<1>3. ASSUME NEW v \in Captures, QueryBase(v), v # c PROVE (Faithful(c) /\ Complete(c))'
  <2>1. base'[c] = base[c] /\ snapshot'[c] = snapshot[c] /\ seen'[c] = seen[c]
    BY <1>3 DEF QueryBase, ShapeInv, TypeOK
  <2> QED
    BY <2>1, Kept
<1>4. ASSUME QueryBase(c) PROVE (Faithful(c) /\ Complete(c))'
  <2> DEFINE old == DOMAIN snapshot[c]
  <2>1. /\ base'[c] = base[c] + 1 /\ base[c] \in Nat
        /\ snapshot'[c] = [o \in old \cup Recorded(c) |->
                             IF o \in old THEN snapshot[c][o] ELSE Returned(c, o)]
        /\ \A o \in Objects : seen'[c][o] = seen[c][o] \cup {directory[o]}
    BY <1>4 DEF QueryBase, ShapeInv, TypeOK
  <2>2. DOMAIN snapshot'[c] = old \cup Recorded(c)
    BY <2>1
  <2>3. scope'[c] = scope[c] /\ Refused(c)' = Refused(c)
    BY ScopesStay DEF Refused
  <2>4. Faithful(c) /\ Complete(c)
    BY DEF SnapshotInv
  <2>5. \A o \in Recorded(c) : o \in Objects /\ directory[o] \in Contents
    BY <1>4, RecordedTypes DEF QueryBase
  <2>6. Faithful(c)'
    <3> SUFFICES ASSUME NEW o \in old \cup Recorded(c)
                 PROVE  /\ o \in Objects
                        /\ \E d \in seen'[c][o] \ {Gone} : snapshot'[c][o] = View(c, d)'
      BY <2>2 DEF Faithful
    <3>1. CASE o \in old
      <4>1. o \in Objects /\ \E d \in seen[c][o] \ {Gone} : snapshot[c][o] = View(c, d)
        BY <2>4, <3>1 DEF Faithful
      <4>2. snapshot'[c][o] = snapshot[c][o]
        BY <2>1, <3>1
      <4> QED
        BY <2>1, <2>3, <4>1, <4>2 DEF View
    <3>2. CASE o \in Recorded(c) /\ o \notin old
      <4>1. o \in Objects /\ directory[o] \in Contents
        BY <2>5, <3>2
      <4>2. snapshot'[c][o] = View(c, directory[o])
        BY <2>1, <3>2, <4>1, ReturnedIsView
      <4>3. directory[o] \in seen'[c][o] \ {Gone}
        BY <2>1, <4>1, OfflineAssumption
      <4>4. View(c, directory[o]) = [dacl |-> directory[o].dacl,
              sacl |-> IF scope'[c].includeSACL THEN directory[o].sacl ELSE NoList]
        BY <2>3 DEF View
      <4> QED
        BY <4>1, <4>2, <4>3, <4>4 DEF View
    <3> QED
      BY <3>1, <3>2
  <2>7. Complete(c)'
    <3> SUFFICES ASSUME NEW n \in 1 .. base[c] + 1, NEW o \in Missing(c, n)'
                 PROVE  Gone \in seen'[c][o]
      BY <2>1 DEF Complete
    <3>1. o \in Missing(c, n) /\ o \notin Recorded(c)
      BY <2>2, <2>3 DEF Missing
    <3>2. o \in Objects
      <4>1. base[c] < Len(scope[c].searchBases) /\ Len(scope[c].searchBases) \in Nat
        BY <1>4, ScopeTypes DEF QueryBase
      <4>2. n \in 1 .. Len(scope[c].searchBases)
        BY <2>1, <4>1
      <4>3. Below[scope[c].searchBases[n]] \cap Matching[Filter(scope[c])] \subseteq Objects
        BY <4>2, ScopeTypes
      <4> QED
        BY <3>1, <4>3 DEF Missing
    <3>3. CASE n \in 1 .. base[c]
      <4>1. Gone \in seen[c][o]
        BY <2>4, <3>1, <3>3 DEF Complete
      <4> QED
        BY <2>1, <3>2, <4>1
    <3>4. CASE n = base[c] + 1
      <4>1. o \notin Entries(c)
        BY <3>1 DEF Missing, Recorded
      <4>2. directory[o] = Gone
        BY <3>1, <3>4, <4>1 DEF Missing, Entries
      <4> QED
        BY <2>1, <3>2, <4>2
    <3> QED
      BY <2>1, <3>3, <3>4
  <2> QED
    BY <2>6, <2>7
<1> QED
  BY <1>1, <1>2, <1>3, <1>4
     DEF Next, WriteSnapshot, CaptureFails, ReadBefore, ReadAfter, EndDiff, captureVars

(* Every step keeps the types.                                             *)
LEMMA TypeStep == IInv /\ Next => TypeOK'
<1> SUFFICES ASSUME IInv, Next PROVE TypeOK'
  OBVIOUS
<1> USE DEF IInv
<1> DEFINE CaptureOK(c) ==
             /\ scope[c] \in Scopes /\ account[c] \in Accounts
             /\ base[c] \in 0 .. Len(scope[c].searchBases)
             /\ DOMAIN snapshot[c] \subseteq InScope(scope[c]) \ Refused(c)
             /\ \A o \in DOMAIN snapshot[c] : snapshot[c][o] \in Readings
             /\ ended[c] = "succeeded" => base[c] = Len(scope[c].searchBases)
<1>s. /\ scope' = scope
      /\ \A c \in Captures : Refused(c)' = Refused(c) /\ scope'[c] = scope[c]
  BY ScopesStay DEF Refused
<1>i. \A c \in Captures : CaptureOK(c)
  BY DEF TypeOK
<1>1. ASSUME NEW c \in Captures, base'[c] = base[c], snapshot'[c] = snapshot[c],
             ended'[c] = "succeeded" => base[c] = Len(scope[c].searchBases)
      PROVE  CaptureOK(c)'
  BY <1>s, <1>i, <1>1, ScopesStay
<1>2. CASE WriteObject
  <2>1. writes' \in 0 .. MaxWrites
    BY <1>2, OfflineAssumption DEF WriteObject, TypeOK
  <2>2. PICK o \in Objects, d \in Contents \cup {Gone} :
          /\ directory' = [directory EXCEPT ![o] = d]
          /\ seen' = [v \in Captures |->
               IF Reading(v) THEN [seen[v] EXCEPT ![o] = @ \cup {d}] ELSE seen[v]]
    BY <1>2 DEF WriteObject
  <2>3. directory' \in [Objects -> Contents \cup {Gone}]
    BY <2>2 DEF TypeOK
  <2>4. seen' \in [Captures -> [Objects -> SUBSET (Contents \cup {Gone})]]
    <3>1. ASSUME NEW v \in Captures
          PROVE  [seen[v] EXCEPT ![o] = @ \cup {d}] \in [Objects -> SUBSET (Contents \cup {Gone})]
      BY DEF TypeOK
    <3> QED
      BY <2>2, <3>1 DEF TypeOK
  <2>5. UNCHANGED <<base, snapshot, holds, ended, pc, before, after>>
    BY <1>2 DEF WriteObject, captureVars, diffVars
  <2>6. \A c \in Captures : CaptureOK(c)'
    BY <1>1, <1>i, <2>5
  <2> HIDE DEF CaptureOK
  <2> QED
    BY <2>1, <2>3, <2>4, <2>5, <2>6 DEF TypeOK, CaptureOK
<1>3. ASSUME NEW v \in Captures, QueryBase(v) PROVE TypeOK'
  <2>1. UNCHANGED <<directory, writes, holds, ended, pc, before, after>>
    BY <1>3 DEF QueryBase, diffVars
  <2>2. seen' \in [Captures -> [Objects -> SUBSET (Contents \cup {Gone})]]
    <3>1. [o \in Objects |-> seen[v][o] \cup {directory[o]}]
            \in [Objects -> SUBSET (Contents \cup {Gone})]
      BY DEF TypeOK
    <3> QED
      BY <1>3, <3>1 DEF QueryBase, TypeOK
  <2>3. ASSUME NEW c \in Captures, c # v PROVE CaptureOK(c)'
    <3>1. base'[c] = base[c] /\ snapshot'[c] = snapshot[c]
      BY <1>3, <2>3 DEF QueryBase, ShapeInv
    <3> QED
      BY <1>1, <1>i, <2>1, <3>1
  <2>4. CaptureOK(v)'
    <3>1. /\ ended[v] = "running" /\ base[v] < Len(scope[v].searchBases)
          /\ base'[v] = base[v] + 1
          /\ DOMAIN snapshot'[v] = DOMAIN snapshot[v] \cup Recorded(v)
      BY <1>3 DEF QueryBase, ShapeInv
    <3>2. base'[v] \in 0 .. Len(scope[v].searchBases)
      BY <1>i, <3>1, ScopeTypes
    <3>3. DOMAIN snapshot'[v] \subseteq InScope(scope[v]) \ Refused(v)
      BY <1>i, <3>1, RecordedTypes
    <3>4. ASSUME NEW o \in DOMAIN snapshot'[v] PROVE snapshot'[v][o] \in Readings
      <4>1. /\ o \in Objects
            /\ \E d \in seen'[v][o] \ {Gone} : snapshot'[v][o] = View(v, d)'
        BY SnapshotStep DEF SnapshotInv, Faithful
      <4>2. seen'[v][o] \subseteq Contents \cup {Gone}
        BY <2>2, <4>1
      <4>3. \A d \in Contents : View(v, d)' \in Readings
        BY <1>s, ViewTypes DEF View
      <4> QED
        BY <4>1, <4>2, <4>3
    <3>5. scope'[v] \in Scopes /\ account'[v] \in Accounts
      BY <1>i, ScopesStay
    <3> QED
      BY <1>s, <2>1, <3>1, <3>2, <3>3, <3>4, <3>5
  <2>5. \A c \in Captures : CaptureOK(c)'
    BY <2>3, <2>4
  <2> HIDE DEF CaptureOK
  <2> QED
    BY <2>1, <2>2, <2>5 DEF TypeOK, CaptureOK
<1>4. ASSUME NEW v \in Captures, WriteSnapshot(v) \/ CaptureFails(v) PROVE TypeOK'
  <2>1. UNCHANGED <<directory, writes, base, snapshot, pc, before, after, seen>>
    BY <1>4 DEF WriteSnapshot, CaptureFails, diffVars
  <2>2. /\ holds' \in [Names -> Captures \cup {Nothing}]
        /\ ended' \in [Captures -> {"running", "succeeded", "failed"}]
    <3>1. Target[v] \in Names
      BY OfflineAssumption
    <3>2. CASE WriteSnapshot(v)
      BY <3>1, <3>2 DEF WriteSnapshot, Files!Publish, TypeOK
    <3>3. CASE CaptureFails(v)
      BY <3>3 DEF CaptureFails, Files!GiveUp, TypeOK
    <3> QED
      BY <1>4, <3>2, <3>3
  <2>3. ASSUME NEW c \in Captures, ended'[c] = "succeeded"
        PROVE  base[c] = Len(scope[c].searchBases)
    <3>1. CASE ended[c] = "succeeded"
      BY <1>i, <3>1
    <3>2. CASE ended[c] # "succeeded"
      BY <1>4, <2>3, <3>2
         DEF WriteSnapshot, CaptureFails, Files!Publish, Files!GiveUp, TypeOK
    <3> QED
      BY <3>1, <3>2
  <2>4. \A c \in Captures : CaptureOK(c)'
    BY <1>1, <2>1, <2>3
  <2> HIDE DEF CaptureOK
  <2> QED
    BY <2>1, <2>2, <2>4 DEF TypeOK, CaptureOK
<1>5. CASE ReadBefore \/ ReadAfter \/ EndDiff
  <2>1. UNCHANGED <<directory, writes, base, snapshot, holds, ended, seen>>
    BY <1>5 DEF ReadBefore, ReadAfter, EndDiff, captureVars
  <2>2. /\ pc' \in {"before", "after", "compared"}
        /\ {before', after'} \subseteq Captures \cup {Nothing}
    BY <1>5, OfflineAssumption DEF ReadBefore, ReadAfter, EndDiff, TypeOK
  <2>3. \A c \in Captures : CaptureOK(c)'
    BY <1>1, <1>i, <2>1
  <2> HIDE DEF CaptureOK
  <2> QED
    BY <2>1, <2>2, <2>3 DEF TypeOK, CaptureOK
<1> QED
  BY <1>2, <1>3, <1>4, <1>5 DEF Next

(* Every step keeps the files snapshots of finished captures.              *)
LEMMA FiledStep == IInv /\ Next => FiledInv'
<1> SUFFICES ASSUME IInv, Next PROVE FiledInv'
  OBVIOUS
<1> USE DEF IInv
<1>1. \A c \in Captures : ended[c] = "succeeded" => ended'[c] = "succeeded"
  BY DEF Next, WriteObject, QueryBase, WriteSnapshot, CaptureFails, Files!Publish,
         Files!GiveUp, ReadBefore, ReadAfter, EndDiff, captureVars, TypeOK
<1>2. ASSUME NEW name \in Names, holds'[name] \in Captures
      PROVE  ended'[holds'[name]] = "succeeded"
  <2>1. CASE \E c \in Captures : WriteSnapshot(c)
    <3>1. PICK c \in Captures : WriteSnapshot(c)
      BY <2>1
    <3>2. /\ holds' = [holds EXCEPT ![Target[c]] = c]
          /\ ended' = [ended EXCEPT ![c] = "succeeded"]
      BY <3>1 DEF WriteSnapshot, Files!Publish
    <3> QED
      BY <1>1, <1>2, <3>2 DEF FiledInv, TypeOK
  <2>2. CASE holds' = holds
    BY <1>1, <1>2, <2>2 DEF FiledInv
  <2> QED
    BY <2>1, <2>2 DEF Next, WriteObject, QueryBase, CaptureFails, Files!GiveUp, ReadBefore,
                      ReadAfter, EndDiff, captureVars
<1>3. /\ {before', after'} \ {Nothing} \subseteq {c \in Captures : ended'[c] = "succeeded"}
      /\ pc' \in {"after", "compared"} => before' # Nothing
      /\ pc' = "compared" => after' # Nothing
  <2>1. CASE UNCHANGED diffVars
    BY <1>1, <2>1 DEF FiledInv, diffVars
  <2>2. CASE ReadBefore
    <3>1. before' \in Captures /\ ended'[before'] = "succeeded"
      BY <2>2, OfflineAssumption DEF ReadBefore, captureVars, FiledInv, TypeOK
    <3> QED
      BY <1>1, <2>2, <3>1 DEF ReadBefore, FiledInv
  <2>3. CASE ReadAfter
    <3>1. after' \in Captures /\ ended'[after'] = "succeeded"
      BY <2>3, OfflineAssumption DEF ReadAfter, captureVars, FiledInv, TypeOK
    <3> QED
      BY <1>1, <2>3, <3>1 DEF ReadAfter, FiledInv
  <2>4. CASE EndDiff
    BY <2>4 DEF EndDiff
  <2> QED
    BY <2>1, <2>2, <2>3, <2>4
       DEF Next, WriteObject, QueryBase, WriteSnapshot, CaptureFails
<1> QED
  BY <1>2, <1>3 DEF FiledInv

(* The invariant of the proofs holds of every behaviour.                   *)
THEOREM Inductive == Spec => []IInv
<1>1. Init => IInv
  BY InitIInv
<1>2. IInv /\ [Next]_vars => IInv'
  <2>1. IInv /\ Next => IInv'
    BY TypeStep, ShapeStep, SnapshotStep, FiledStep DEF IInv
  <2>2. IInv /\ UNCHANGED vars => IInv'
    BY DEF IInv, TypeOK, ShapeInv, SnapshotInv, Faithful, Complete, Missing, View, Refused,
           FiledInv, vars, captureVars, diffVars
  <2> QED
    BY <2>1, <2>2
<1> QED
  BY <1>1, <1>2, PTL DEF Spec

-----------------------------------------------------------------------------
(* The properties of the runs.                                             *)

(* Every variable stays in its type.                                       *)
THEOREM TypeCorrect == Spec => []TypeOK
<1>1. IInv => TypeOK
  BY DEF IInv
<1> QED
  BY <1>1, Inductive, PTL

(* The two captures compared, and what is known of each.                   *)
LEMMA Compared ==
  ASSUME IInv, pc = "compared", NEW c \in {before, after}
  PROVE  /\ c \in Captures
         /\ scope[c].includeSACL \in BOOLEAN
         /\ \A o \in DOMAIN snapshot[c] : \E d \in seen[c][o] \ {Gone} :
              snapshot[c][o] = View(c, d)
         /\ \A o \in InScope(scope[c]) \ (DOMAIN snapshot[c] \cup Refused(c)) :
              Gone \in seen[c][o]
<1> USE DEF IInv
<1>1. c \in Captures /\ ended[c] = "succeeded"
  BY DEF FiledInv
<1>2. base[c] = Len(scope[c].searchBases)
  BY <1>1 DEF TypeOK
<1>3. Faithful(c) /\ Complete(c)
  BY <1>1 DEF SnapshotInv
<1>4. ASSUME NEW o \in InScope(scope[c]) \ (DOMAIN snapshot[c] \cup Refused(c))
      PROVE  Gone \in seen[c][o]
  <2>1. PICK b \in BasesOf(scope[c]) : o \in Below[b]
    BY DEF InScope
  <2>2. PICK n \in 1 .. Len(scope[c].searchBases) : b = scope[c].searchBases[n]
    BY <1>1, ScopeTypes, LenProperties DEF BasesOf
  <2>3. o \in Missing(c, n)
    BY <2>1, <2>2 DEF Missing, InScope
  <2> QED
    BY <1>2, <1>3, <2>2, <2>3 DEF Complete
<1>5. scope[c].includeSACL \in BOOLEAN
  BY <1>1, ScopeTypes
<1> QED
  BY <1>1, <1>3, <1>4, <1>5 DEF Faithful

(* A change reported inside a descriptor is one of the directory, whatever  *)
(* the scopes, the accounts, the writes and the order of the two files.    *)
THEOREM ReportedChangesAreReal == Spec => []ChangesAreReal
<1>1. IInv => ChangesAreReal
  <2> SUFFICES ASSUME IInv, pc = "compared" PROVE ChangesAreReal
    BY DEF ChangesAreReal
  <2> DEFINE both == DOMAIN snapshot[before] \cap DOMAIN snapshot[after]
  <2>1. ASSUME NEW o \in both
        PROVE  \E x \in seen[before][o] \ {Gone}, y \in seen[after][o] \ {Gone} :
                 snapshot[before][o] = View(before, x) /\ snapshot[after][o] = View(after, y)
    BY Compared
  <2>2. scope[before].includeSACL \in BOOLEAN /\ scope[after].includeSACL \in BOOLEAN
    BY Compared
  <2>3. ASSUME NEW o \in Report.dacl PROVE Differ(o, LAMBDA d : d.dacl)
    <3>1. o \in both /\ snapshot[before][o].dacl # snapshot[after][o].dacl
      BY DEF Report, Compare, Changes
    <3>2. PICK x \in seen[before][o] \ {Gone}, y \in seen[after][o] \ {Gone} :
            snapshot[before][o] = View(before, x) /\ snapshot[after][o] = View(after, y)
      BY <2>1, <3>1
    <3>3. x.dacl # y.dacl
      BY <3>1, <3>2 DEF View
    <3> QED
      BY <3>3 DEF Differ
  <2>4. ASSUME NEW o \in Report.sacl PROVE Differ(o, LAMBDA d : d.sacl)
    <3>1. /\ o \in both /\ snapshot[before][o].sacl # snapshot[after][o].sacl
          /\ scope[before].includeSACL /\ scope[after].includeSACL
      BY DEF Report, Compare, Changes
    <3>2. PICK x \in seen[before][o] \ {Gone}, y \in seen[after][o] \ {Gone} :
            snapshot[before][o] = View(before, x) /\ snapshot[after][o] = View(after, y)
      BY <2>1, <3>1
    <3>3. x.sacl # y.sacl
      BY <3>1, <3>2 DEF View
    <3> QED
      BY <3>3 DEF Differ
  <2>5. ASSUME NEW o \in Report.flags, "sacl" \notin Warnings
        PROVE  Differ(o, LAMBDA d : d.sacl = NoList)
    <3>1. /\ o \in both
          /\ (snapshot[before][o].sacl = NoList) # (snapshot[after][o].sacl = NoList)
      BY DEF Report, Compare, Changes
    <3>2. scope[before].includeSACL = scope[after].includeSACL
      BY <2>5 DEF Warnings, ScopeMismatch
    <3>3. PICK x \in seen[before][o] \ {Gone}, y \in seen[after][o] \ {Gone} :
            snapshot[before][o] = View(before, x) /\ snapshot[after][o] = View(after, y)
      BY <2>1, <3>1
    <3>4. (x.sacl = NoList) # (y.sacl = NoList)
      BY <2>2, <3>1, <3>2, <3>3 DEF View
    <3> QED
      BY <3>4 DEF Differ
  <2> QED
    BY <2>3, <2>4, <2>5 DEF ChangesAreReal
<1> QED
  BY <1>1, Inductive, PTL

(* An object is reported as coming or going without a warning only if the  *)
(* directory lacked it while the capture that lacks it was taken, or the   *)
(* account of that capture was refused it.                                 *)
THEOREM AppearancesHaveAReason == Spec => []AppearancesAreWarnedOf
<1>1. IInv => AppearancesAreWarnedOf
  <2> SUFFICES ASSUME IInv, pc = "compared", Warnings = {},
                      NEW o \in Report.appeared \cup Report.disappeared
               PROVE  LET without == IF o \in Report.appeared THEN before ELSE after
                      IN  Gone \in seen[without][o] \/ o \in Refused(without)
    BY DEF AppearancesAreWarnedOf
  <2>1. InScope(scope[before]) = InScope(scope[after])
    <3>1. /\ BasesOf(scope[before]) = BasesOf(scope[after])
          /\ Filter(scope[before]) = Filter(scope[after])
      BY DEF Warnings, ScopeMismatch
    <3> QED
      BY <3>1 DEF InScope
  <2>2. \A c \in {before, after} : DOMAIN snapshot[c] \subseteq InScope(scope[c])
    BY Compared DEF IInv, TypeOK
  <2>3. CASE o \in Report.appeared
    <3>1. o \in DOMAIN snapshot[after] /\ o \notin DOMAIN snapshot[before]
      BY <2>3 DEF Report, Compare, Changes
    <3>2. o \in InScope(scope[before])
      BY <2>1, <2>2, <3>1
    <3> QED
      BY <2>3, <3>1, <3>2, Compared
  <2>4. CASE o \notin Report.appeared
    <3>1. o \in DOMAIN snapshot[before] /\ o \notin DOMAIN snapshot[after]
      BY <2>4 DEF Report, Compare, Changes
    <3>2. o \in InScope(scope[after])
      BY <2>1, <2>2, <3>1
    <3> QED
      BY <2>4, <3>1, <3>2, Compared
  <2> QED
    BY <2>3, <2>4
<1> QED
  BY <1>1, Inductive, PTL

(* What was different all through the two captures, in both scopes and for *)
(* both accounts, is reported.                                             *)
THEOREM NothingIsMissed == Spec => []NothingInScopeIsMissed
<1>1. IInv => NothingInScopeIsMissed
  <2> SUFFICES ASSUME IInv, pc = "compared",
                      NEW o \in (InScope(scope[before]) \cap InScope(scope[after]))
                                  \ (Refused(before) \cup Refused(after)),
                      NEW x \in Contents \cup {Gone}, NEW y \in Contents \cup {Gone},
                      seen[before][o] = {x}, seen[after][o] = {y}, x # y
               PROVE  /\ x = Gone => o \in Report.appeared
                      /\ y = Gone => o \in Report.disappeared
                      /\ x # Gone /\ y # Gone =>
                           /\ x.dacl # y.dacl => o \in Report.dacl
                           /\ x.sacl # y.sacl /\ scope[before].includeSACL
                                /\ scope[after].includeSACL => o \in Report.sacl
    BY Zenon DEF NothingInScopeIsMissed
  <2>1. ASSUME NEW c \in {before, after}, NEW z, seen[c][o] = {z}
        PROVE  /\ z = Gone => o \notin DOMAIN snapshot[c]
               /\ z # Gone => o \in DOMAIN snapshot[c] /\ snapshot[c][o] = View(c, z)
    <3>1. \A p \in DOMAIN snapshot[c] : \E d \in seen[c][p] \ {Gone} :
            snapshot[c][p] = View(c, d)
      BY Compared
    <3>2. o \notin DOMAIN snapshot[c] => Gone \in seen[c][o]
      BY Compared
    <3> QED
      BY <2>1, <3>1, <3>2
  <2>2. CASE x = Gone
    <3>1. o \notin DOMAIN snapshot[before] /\ o \in DOMAIN snapshot[after]
      BY <2>1, <2>2
    <3> QED
      BY <2>2, <3>1 DEF Report, Compare, Changes
  <2>3. CASE y = Gone
    <3>1. o \in DOMAIN snapshot[before] /\ o \notin DOMAIN snapshot[after]
      BY <2>1, <2>3
    <3> QED
      BY <2>3, <3>1 DEF Report, Compare, Changes
  <2>4. CASE x # Gone /\ y # Gone
    <3>1. /\ o \in DOMAIN snapshot[before] \cap DOMAIN snapshot[after]
          /\ snapshot[before][o] = View(before, x) /\ snapshot[after][o] = View(after, y)
      BY <2>1, <2>4
    <3>2. x.dacl # y.dacl => o \in Report.dacl
      BY <3>1 DEF Report, Compare, Changes, View
    <3>3. x.sacl # y.sacl /\ scope[before].includeSACL /\ scope[after].includeSACL
            => o \in Report.sacl
      BY <3>1 DEF Report, Compare, Changes, View
    <3> QED
      BY <2>4, <3>2, <3>3
  <2> QED
    BY <2>2, <2>3, <2>4
<1> QED
  BY <1>1, Inductive, PTL

(* Two files given in the wrong order give the mirror image of the report   *)
(* and the same warnings.                                                  *)
THEOREM SwappedFilesMirror == Spec => []SwappedFilesMirrorTheReport
<1>1. IInv => SwappedFilesMirrorTheReport
  <2> SUFFICES ASSUME IInv, pc = "compared" PROVE SwappedFilesMirrorTheReport
    BY DEF SwappedFilesMirrorTheReport
  <2> DEFINE was == snapshot[before]
             is == snapshot[after]
             both == scope[before].includeSACL /\ scope[after].includeSACL
  <2>1. Report = Changes(was, is, both)
    BY DEF Report, Compare
  <2>2. Compare(after, before) = Changes(is, was, both)
    <3>1. (scope[after].includeSACL /\ scope[before].includeSACL) = both
      BY Compared
    <3> QED
      BY <3>1 DEF Compare
  <2> HIDE DEF was, is, both
  <2>3. Changes(is, was, both) =
          [Changes(was, is, both) EXCEPT !.appeared = Changes(was, is, both).disappeared,
                                         !.disappeared = Changes(was, is, both).appeared]
    <3> DEFINE come == DOMAIN is \ DOMAIN was
               left == DOMAIN was \ DOMAIN is
               dacl == {o \in DOMAIN was \cap DOMAIN is : was[o].dacl # is[o].dacl}
               flags == {o \in DOMAIN was \cap DOMAIN is :
                           (was[o].sacl = NoList) # (is[o].sacl = NoList)}
               sacl == {o \in DOMAIN was \cap DOMAIN is : both /\ was[o].sacl # is[o].sacl}
    <3>1. Changes(was, is, both) = [appeared |-> come, disappeared |-> left, dacl |-> dacl,
                                    flags |-> flags, sacl |-> sacl]
      BY DEF Changes
    <3>2. /\ {o \in DOMAIN is \cap DOMAIN was : is[o].dacl # was[o].dacl} = dacl
          /\ {o \in DOMAIN is \cap DOMAIN was : (is[o].sacl = NoList) # (was[o].sacl = NoList)}
               = flags
          /\ {o \in DOMAIN is \cap DOMAIN was : both /\ is[o].sacl # was[o].sacl} = sacl
      OBVIOUS
    <3>3. Changes(is, was, both) = [appeared |-> left, disappeared |-> come, dacl |-> dacl,
                                    flags |-> flags, sacl |-> sacl]
      BY <3>2, Zenon DEF Changes
    <3> HIDE DEF come, left, dacl, flags, sacl
    <3>4. ASSUME NEW r, r = [appeared |-> come, disappeared |-> left, dacl |-> dacl,
                             flags |-> flags, sacl |-> sacl]
          PROVE  [r EXCEPT !.appeared = r.disappeared, !.disappeared = r.appeared]
                   = [appeared |-> left, disappeared |-> come, dacl |-> dacl,
                      flags |-> flags, sacl |-> sacl]
      <4> DEFINE q == [appeared |-> left, disappeared |-> left, dacl |-> dacl,
                       flags |-> flags, sacl |-> sacl]
      <4>1. [r EXCEPT !.appeared = left] = q
        BY <3>4
      <4>2. [q EXCEPT !.disappeared = come]
              = [appeared |-> left, disappeared |-> come, dacl |-> dacl, flags |-> flags,
                 sacl |-> sacl]
        OBVIOUS
      <4>3. r.disappeared = left /\ r.appeared = come
        BY <3>4
      <4> HIDE DEF q
      <4>4. [r EXCEPT !.appeared = left, !.disappeared = come] = [q EXCEPT !.disappeared = come]
        BY <4>1, Zenon
      <4> QED
        BY <4>2, <4>3, <4>4
    <3> QED
      BY <3>1, <3>3, <3>4, Zenon
  <2>4. ScopeMismatch(scope[after], scope[before]) = Warnings
    BY DEF Warnings, ScopeMismatch
  <2> QED
    BY <2>1, <2>2, <2>3, <2>4 DEF SwappedFilesMirrorTheReport
<1> QED
  BY <1>1, Inductive, PTL
=============================================================================
