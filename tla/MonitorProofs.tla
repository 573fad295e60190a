---------------------------- MODULE MonitorProofs ----------------------------
(***************************************************************************)
(* Proofs about Monitor, for any set of objects, any descriptors, any      *)
(* scope and any bounds.                                                   *)
(***************************************************************************)
EXTENDS Monitor, TLAPS

(* What a snapshot records, and what a comparison makes of it.             *)
LEMMA EntryType == \A state \in States : Entry(state) \in Recorded
  BY DEF States, Recorded, Entry

LEMMA ContentType == \A entry \in Recorded : Content(entry) \in Contents
  BY ValuesAssumption DEF Recorded, Contents, Content

LEMMA EmptyType == NewSnapshot \in [Objects -> Recorded] /\ NewSnapshot \in [Objects -> Contents]
  BY DEF NewSnapshot, Recorded, Contents

LEMMA BasesLength == Len(SearchBases) \in Nat
  BY BasesAssumption

LEMMA BelowType == \A b \in Nat \ {0} : Below(b) \in SUBSET Objects
  BY BasesAssumption DEF Below

(* Every change Diff returns is well formed.                               *)
LEMMA DiffType ==
  ASSUME NEW before \in [Objects -> Recorded], NEW after \in [Objects -> Recorded]
  PROVE  Diff(before, after) \in SUBSET Changes
<1>1. \A o \in Objects : Content(before[o]) \in Contents /\ Content(after[o]) \in Contents
  BY ContentType
<1>2. \A kind \in Kinds, o \in Objects : Change(kind, o, before, after) \in Changes
  BY <1>1 DEF Change, Changes
<1>3. QED
  BY <1>2 DEF Diff, Kinds

(* A change of Diff carries what the two readings say of its object, and   *)
(* they say different things.                                              *)
LEMMA DiffSound ==
  ASSUME NEW before \in [Objects -> Recorded], NEW after \in [Objects -> Recorded],
         NEW change \in Diff(before, after)
  PROVE  /\ change.object \in Objects
         /\ change.before = Content(before[change.object])
         /\ change.after = Content(after[change.object])
         /\ change.before # change.after
<1>1. \A o \in Objects : before[o] # Absent => Content(before[o]) # Absent
  BY ValuesAssumption DEF Content, Recorded
<1>2. \A o \in Objects : after[o] # Absent => Content(after[o]) # Absent
  BY ValuesAssumption DEF Content, Recorded
<1>3. \A o \in Objects : before[o] = Absent => Content(before[o]) = Absent
  BY DEF Content
<1>4. \A o \in Objects : after[o] = Absent => Content(after[o]) = Absent
  BY DEF Content
<1>5. PICK kind \in Kinds, o \in Objects :
         /\ change = Change(kind, o, before, after)
         /\ Content(before[o]) # Content(after[o])
  BY <1>1, <1>2, <1>3, <1>4 DEF Diff, Kinds
<1>6. QED
  BY <1>5 DEF Change

(* An object Diff says nothing of reads the same in both readings.         *)
LEMMA DiffComplete ==
  ASSUME NEW before \in [Objects -> Recorded], NEW after \in [Objects -> Recorded],
         NEW o \in Objects, Content(before[o]) # Content(after[o])
  PROVE  \E change \in Diff(before, after) : change.object = o
<1>1. \A kind \in Kinds : Change(kind, o, before, after).object = o
  BY DEF Change
<1>2. CASE before[o] = Absent
  <2>1. after[o] # Absent
    BY <1>2
  <2>2. Change("appeared", o, before, after) \in Diff(before, after)
    BY <1>2, <2>1 DEF Diff
  <2>3. QED
    BY <1>1, <2>2 DEF Kinds
<1>3. CASE before[o] # Absent /\ after[o] = Absent
  <2>1. Change("disappeared", o, before, after) \in Diff(before, after)
    BY <1>3 DEF Diff
  <2>2. QED
    BY <1>1, <2>1 DEF Kinds
<1>4. CASE before[o] # Absent /\ after[o] # Absent
  <2>1. before[o] # after[o]
    OBVIOUS
  <2>2. Change("changed", o, before, after) \in Diff(before, after)
    BY <1>4, <2>1 DEF Diff
  <2>3. QED
    BY <1>1, <2>2 DEF Kinds
<1>5. QED
  BY <1>2, <1>3, <1>4

(* Diff never says two things of one object.                               *)
LEMMA DiffFunctional ==
  ASSUME NEW before \in [Objects -> Recorded], NEW after \in [Objects -> Recorded],
         NEW c1 \in Diff(before, after), NEW c2 \in Diff(before, after),
         c1.object = c2.object
  PROVE  c1 = c2
<1> DEFINE KindOf(o) == IF before[o] = Absent THEN "appeared"
                        ELSE IF after[o] = Absent THEN "disappeared" ELSE "changed"
<1>1. \A c \in Diff(before, after) :
        \E o \in Objects : c = Change(KindOf(o), o, before, after)
  BY DEF Diff
<1>2. \A kind, o : Change(kind, o, before, after).object = o
  BY DEF Change
<1>3. QED
  BY <1>1, <1>2

-----------------------------------------------------------------------------
(* Type correctness.                                                       *)

LEMMA TypeInit == Init => TypeOK
<1> SUFFICES ASSUME Init PROVE TypeOK
  OBVIOUS
<1>1. base \in 1 .. Len(SearchBases) + 1
  BY BasesLength DEF Init
<1>2. writes \in 0 .. MaxWrites /\ sent \in 0 .. MaxSignals /\ startedAfterStop \in Nat
  BY BoundsAssumption DEF Init
<1>3. held \in [Objects -> SUBSET States]
  BY DEF Init
<1>4. /\ previousSnapshot \in [Objects -> Recorded]
      /\ currentSnapshot \in [Objects -> Recorded]
      /\ view \in [Objects -> Contents]
  BY EmptyType DEF Init
<1>5. QED
  BY <1>1, <1>2, <1>3, <1>4 DEF Init, TypeOK

LEMMA StartReadingType ==
  ASSUME TypeOK, NEW call \in {"initial", "first", "retry"}, StartReading(call)
  PROVE  /\ pc' = "reading"
         /\ attempt' \in {"initial", "first", "retry"}
         /\ base' \in 1 .. Len(SearchBases) + 1
         /\ unread' \in SUBSET Objects
         /\ currentSnapshot' \in [Objects -> Recorded]
         /\ held' \in [Objects -> SUBSET States]
         /\ startedAfterStop' \in Nat
  BY EmptyType, BasesLength, BelowType DEF TypeOK, StartReading

LEMMA EnvironmentType ==
  ASSUME TypeOK, Environment
  PROVE  TypeOK'
<1>1. ASSUME NEW o \in Objects, NEW state \in States, WriteDirectory(o, state)
      PROVE  TypeOK'
  BY <1>1, BoundsAssumption
     DEF TypeOK, WriteDirectory, reportVars, signalVars, exitVars
<1>2. CASE DropSession
  BY <1>2 DEF TypeOK, DropSession, readingVars, reportVars, signalVars, exitVars
<1>3. CASE SendInterrupt
  BY <1>3, BoundsAssumption
     DEF TypeOK, SendInterrupt, directoryVars, readingVars, reportVars
<1>4. QED
  BY <1>1, <1>2, <1>3 DEF Environment

LEMMA WatcherType ==
  ASSUME TypeOK, Watcher
  PROVE  TypeOK'
  BY DEF TypeOK, Watcher, ReceiveSignal, StopNotifying, RequestStop,
         directoryVars, readingVars, reportVars, exitVars

LEMMA MainType ==
  ASSUME TypeOK, Main
  PROVE  TypeOK'
<1> USE DEF TypeOK, directoryVars, readingVars, reportVars, signalVars, exitVars
<1>1. CASE Connect
  BY <1>1 DEF Connect
<1>2. CASE ResolveSearchBases \/ StartupFails
  BY <1>2 DEF ResolveSearchBases, StartupFails, ReturnError
<1>3. CASE WatchForInterrupt
  BY <1>3, StartReadingType DEF WatchForInterrupt
<1>4. ASSUME NEW o \in unread, ReadEntry(o)
      PROVE  TypeOK'
  <2>1. currentSnapshot' \in [Objects -> Recorded]
    BY <1>4, EntryType DEF ReadEntry
  <2>2. QED
    BY <1>4, <2>1 DEF ReadEntry
<1>5. CASE NextBase
  <2>1. base \in Nat \ {0} /\ base' \in 1 .. Len(SearchBases) + 1
    BY <1>5, BasesLength DEF NextBase
  <2>2. unread' \in SUBSET Objects
    BY <1>5, <2>1, BelowType DEF NextBase
  <2>3. QED
    BY <1>5, <2>1, <2>2 DEF NextBase
<1>6. CASE ReadingFails
  BY <1>6 DEF ReadingFails, ReturnError
<1>7. CASE InitialReadingDone
  <2>1. \A o \in Objects : Content(currentSnapshot[o]) \in Contents
    BY ContentType
  <2>2. view' \in [Objects -> Contents]
    BY <1>7, <2>1 DEF InitialReadingDone
  <2>3. QED
    BY <1>7, <2>2 DEF InitialReadingDone
<1>8. CASE CheckInterrupted
  BY <1>8 DEF CheckInterrupted, ReturnNil
<1>9. CASE WaitStopped
  BY <1>9 DEF WaitStopped, ReturnNil
<1>10. CASE WaitElapsed
  BY <1>10, StartReadingType DEF WaitElapsed
<1>11. CASE Reconnect
  BY <1>11, StartReadingType DEF Reconnect
<1>12. CASE ReconnectFails
  BY <1>12 DEF ReconnectFails, ReturnError
<1>13. CASE CompareReadings
  <2>1. pending' \in SUBSET Changes
    BY <1>13, DiffType DEF CompareReadings
  <2>2. QED
    BY <1>13, <2>1 DEF CompareReadings
<1>14. CASE EndCycle
  BY <1>14 DEF EndCycle
<1>15. ASSUME NEW change \in pending, RenderChange(change)
       PROVE  TypeOK'
  <2>1. change.object \in Objects /\ change.after \in Contents
    BY DEF Changes
  <2>2. view' \in [Objects -> Contents]
    BY <1>15, <2>1 DEF RenderChange
  <2>3. QED
    BY <1>15, <2>2 DEF RenderChange
<1>16. QED
  BY <1>1, <1>2, <1>3, <1>4, <1>5, <1>6, <1>7, <1>8, <1>9, <1>10, <1>11,
     <1>12, <1>13, <1>14, <1>15 DEF Main

LEMMA TypeStep == TypeOK /\ [Next]_vars => TypeOK'
<1>1. TypeOK /\ UNCHANGED vars => TypeOK'
  BY DEF TypeOK, vars, directoryVars, readingVars, reportVars, signalVars, exitVars
<1>2. QED
  BY <1>1, EnvironmentType, WatcherType, MainType DEF Next, Ended

(* Type correctness of the monitoring run.                                 *)
THEOREM TypeCorrect == Spec => []TypeOK
  BY TypeInit, TypeStep, PTL DEF Spec

-----------------------------------------------------------------------------
(* The inductive invariant: what every point of the run knows about the    *)
(* interrupt, about the reading under way and about the changes owed.      *)

StopInv ==
  /\ stopRequested <=> watcher = "done"
  /\ notified <=> watcher \in {"waiting", "received"}
  /\ pc \in {"connect", "resolve", "watch"} => watcher = "absent"
  /\ ~stopRequested => startedAfterStop = 0
  /\ attempt = "initial" => startedAfterStop = 0
  /\ pc = "wait" => startedAfterStop = 0
  /\ pc = "reconnect" => startedAfterStop <= 1
  /\ pc = "reading" /\ attempt = "first" => startedAfterStop <= 1
  /\ startedAfterStop <= 2

PhaseInv ==
  /\ pc \in {"connect", "resolve", "watch"} => attempt = "initial"
  /\ attempt = "initial" => pc \in {"connect", "resolve", "watch", "reading"}
  /\ pc # "report" => pending = {}
  /\ outcome = "clean" => pc \in {"check", "wait"}

SeenBefore(o) ==
  \E i \in 1 .. Len(SearchBases) :
    /\ o \in SearchBases[i]
    /\ i < base \/ (i = base /\ o \notin unread)

ReadInv ==
  /\ pc = "reading" =>
       \A o \in Objects :
         /\ directory[o] \in held[o]
         /\ currentSnapshot[o] # Absent \/ SeenBefore(o) =>
              \E state \in held[o] : Entry(state) = currentSnapshot[o]
  /\ ReadingIsOfItsOwnTime

ReportInv ==
  /\ pending \subseteq Diff(previousSnapshot, currentSnapshot)
  /\ NothingLostNothingInvented

IInv == TypeOK /\ StopInv /\ PhaseInv /\ ReadInv /\ ReportInv

LEMMA IInvInit == Init => IInv
<1> SUFFICES ASSUME Init PROVE IInv
  OBVIOUS
<1>1. TypeOK
  BY TypeInit
<1>2. StopInv /\ PhaseInv
  BY DEF Init, StopInv, PhaseInv
<1>3. ReadInv /\ ReportInv
  BY DEF Init, ReadInv, ReadingIsOfItsOwnTime, ReportInv, NothingLostNothingInvented
<1>4. QED
  BY <1>1, <1>2, <1>3 DEF IInv

LEMMA StopStep == TypeOK /\ StopInv /\ PhaseInv /\ [Next]_vars => StopInv'
<1> SUFFICES ASSUME TypeOK, StopInv, PhaseInv, [Next]_vars PROVE StopInv'
  OBVIOUS
<1> USE DEF StopInv, PhaseInv, TypeOK, directoryVars, readingVars, reportVars,
            signalVars, exitVars
<1>1. CASE UNCHANGED vars
  BY <1>1 DEF vars
<1>2. CASE Environment
  BY <1>2 DEF Environment, WriteDirectory, DropSession, SendInterrupt
<1>3. CASE Watcher
  BY <1>3 DEF Watcher, ReceiveSignal, StopNotifying, RequestStop
<1>4. CASE Connect \/ ResolveSearchBases \/ StartupFails \/ NextBase \/ ReadingFails
           \/ InitialReadingDone \/ \E o \in unread : ReadEntry(o)
  BY <1>4 DEF Connect, ResolveSearchBases, StartupFails, ReadEntry, NextBase,
              ReadingFails, InitialReadingDone, ReturnError
<1>5. CASE CheckInterrupted \/ WaitStopped \/ ReconnectFails
  BY <1>5 DEF CheckInterrupted, WaitStopped, ReconnectFails, ReturnNil, ReturnError
<1>6. CASE WatchForInterrupt \/ WaitElapsed \/ Reconnect
  BY <1>6 DEF WatchForInterrupt, WaitElapsed, Reconnect, StartReading
<1>7. CASE CompareReadings \/ EndCycle \/ \E change \in pending : RenderChange(change)
  BY <1>7 DEF CompareReadings, EndCycle, RenderChange
<1>8. QED
  BY <1>1, <1>2, <1>3, <1>4, <1>5, <1>6, <1>7 DEF Next, Main, Ended

LEMMA PhaseStep == TypeOK /\ PhaseInv /\ [Next]_vars => PhaseInv'
<1> SUFFICES ASSUME TypeOK, PhaseInv, [Next]_vars PROVE PhaseInv'
  OBVIOUS
<1> USE DEF PhaseInv, TypeOK, Running, directoryVars, readingVars, reportVars,
            signalVars, exitVars
<1>1. CASE UNCHANGED vars
  BY <1>1 DEF vars
<1>2. CASE Environment
  BY <1>2 DEF Environment, WriteDirectory, DropSession, SendInterrupt
<1>3. CASE Watcher
  BY <1>3 DEF Watcher, ReceiveSignal, StopNotifying, RequestStop
<1>4. CASE Connect \/ ResolveSearchBases \/ StartupFails \/ NextBase \/ ReadingFails
           \/ InitialReadingDone \/ \E o \in unread : ReadEntry(o)
  BY <1>4 DEF Connect, ResolveSearchBases, StartupFails, ReadEntry, NextBase,
              ReadingFails, InitialReadingDone, ReturnError
<1>5. CASE CheckInterrupted \/ WaitStopped \/ ReconnectFails
  BY <1>5 DEF CheckInterrupted, WaitStopped, ReconnectFails, ReturnNil, ReturnError
<1>6. CASE WatchForInterrupt \/ WaitElapsed \/ Reconnect
  BY <1>6 DEF WatchForInterrupt, WaitElapsed, Reconnect, StartReading
<1>7. CASE CompareReadings \/ EndCycle \/ \E change \in pending : RenderChange(change)
  BY <1>7 DEF CompareReadings, EndCycle, RenderChange
<1>8. QED
  BY <1>1, <1>2, <1>3, <1>4, <1>5, <1>6, <1>7 DEF Next, Main, Ended

(* A reading that starts has seen nothing yet and knows the directory.     *)
LEMMA FreshReading ==
  ASSUME TypeOK, NEW call \in {"initial", "first", "retry"}, StartReading(call),
         UNCHANGED directory
  PROVE  ReadInv'
<1>1. pc' = "reading" /\ base' = 1 /\ unread' = Below(1)
  BY DEF StartReading
<1>2. \A o \in Objects : currentSnapshot'[o] = Absent /\ directory'[o] \in held'[o]
  BY DEF StartReading, NewSnapshot
<1>3. \A o \in Objects : ~SeenBefore(o)'
  BY <1>1, BasesLength DEF SeenBefore, Below
<1>4. QED
  BY <1>1, <1>2, <1>3 DEF ReadInv, ReadingIsOfItsOwnTime

(* Steps that touch neither the directory, the reading nor its place.      *)
LEMMA ReadUnchanged ==
  ASSUME ReadInv, UNCHANGED <<directory, base, unread, currentSnapshot, held>>,
         pc' = pc \/ pc' \notin {"reading", "report"}
  PROVE  ReadInv'
  BY DEF ReadInv, ReadingIsOfItsOwnTime, SeenBefore

LEMMA WriteKeepsReadInv ==
  ASSUME TypeOK, ReadInv, NEW o \in Objects, NEW state \in States,
         WriteDirectory(o, state)
  PROVE  ReadInv'
<1> USE DEF TypeOK
<1>1. /\ UNCHANGED <<pc, base, unread, currentSnapshot>>
      /\ directory' = [directory EXCEPT ![o] = state]
      /\ pc = "reading" => held' = [held EXCEPT ![o] = @ \cup {state}]
      /\ pc # "reading" => held' = held
  BY DEF WriteDirectory
<1>2. \A p \in Objects : held[p] \subseteq held'[p]
  BY <1>1
<1>3. ASSUME pc = "reading"
      PROVE  \A p \in Objects : directory'[p] \in held'[p]
  BY <1>1, <1>3 DEF ReadInv
<1>4. QED
  BY <1>1, <1>2, <1>3 DEF ReadInv, ReadingIsOfItsOwnTime, SeenBefore

LEMMA EntryKeepsReadInv ==
  ASSUME TypeOK, ReadInv, NEW o \in unread, ReadEntry(o)
  PROVE  ReadInv'
<1> USE DEF TypeOK
<1>1. /\ pc = "reading" /\ UNCHANGED <<directory, pc, held, base>>
      /\ unread' = unread \ {o}
      /\ \A p \in Objects :
           currentSnapshot'[p] = IF p = o /\ currentSnapshot[p] = Absent
                                 THEN Entry(directory[p]) ELSE currentSnapshot[p]
  BY DEF ReadEntry, directoryVars
<1>2. ASSUME NEW p \in Objects, currentSnapshot'[p] # Absent \/ SeenBefore(p)'
      PROVE  \E state \in held'[p] : Entry(state) = currentSnapshot'[p]
  <2>1. CASE p = o /\ currentSnapshot[p] = Absent
    BY <1>1, <2>1 DEF ReadInv
  <2>2. CASE ~(p = o /\ currentSnapshot[p] = Absent)
    <3>1. currentSnapshot[p] # Absent \/ SeenBefore(p)
      BY <1>1, <1>2, <2>2 DEF SeenBefore
    <3>2. QED
      BY <1>1, <2>2, <3>1 DEF ReadInv
  <2>3. QED
    BY <2>1, <2>2
<1>3. QED
  BY <1>1, <1>2 DEF ReadInv, ReadingIsOfItsOwnTime

LEMMA NextBaseKeepsReadInv ==
  ASSUME TypeOK, ReadInv, NextBase
  PROVE  ReadInv'
<1> USE DEF TypeOK
<1>1. /\ pc = "reading" /\ UNCHANGED <<directory, pc, held, currentSnapshot>>
      /\ base' = base + 1 /\ base \in Nat
      /\ unread = {} /\ unread' = Below(base + 1)
  BY BasesLength DEF NextBase, directoryVars
<1>2. \A o \in Objects : SeenBefore(o)' => SeenBefore(o)
  BY <1>1, BasesLength DEF SeenBefore, Below
<1>3. QED
  BY <1>1, <1>2 DEF ReadInv, ReadingIsOfItsOwnTime

(* A reading that ran through every base has seen every object.            *)
LEMMA CompleteReading ==
  ASSUME TypeOK, base > Len(SearchBases)
  PROVE  \A o \in Objects : SeenBefore(o)
<1>1. \A i \in 1 .. Len(SearchBases) : i < base
  BY BasesLength DEF TypeOK
<1>2. QED
  BY <1>1, BasesAssumption DEF SeenBefore

LEMMA ReadStep == TypeOK /\ PhaseInv /\ ReadInv /\ [Next]_vars => ReadInv'
<1> SUFFICES ASSUME TypeOK, PhaseInv, ReadInv, [Next]_vars PROVE ReadInv'
  OBVIOUS
<1> USE DEF directoryVars, readingVars, reportVars, signalVars, exitVars
<1>1. CASE UNCHANGED vars
  BY <1>1, ReadUnchanged DEF vars
<1>2. CASE Environment
  BY <1>2, WriteKeepsReadInv, ReadUnchanged DEF Environment, DropSession, SendInterrupt
<1>3. CASE Watcher
  BY <1>3, ReadUnchanged DEF Watcher, ReceiveSignal, StopNotifying, RequestStop
<1>4. CASE Connect \/ ResolveSearchBases \/ StartupFails \/ ReadingFails
           \/ InitialReadingDone \/ EndCycle
  BY <1>4, ReadUnchanged
     DEF Connect, ResolveSearchBases, StartupFails, ReadingFails, InitialReadingDone,
         EndCycle, ReturnError
<1>5. CASE CheckInterrupted \/ WaitStopped \/ ReconnectFails
  BY <1>5, ReadUnchanged
     DEF CheckInterrupted, WaitStopped, ReconnectFails, ReturnNil, ReturnError
<1>6. CASE WatchForInterrupt \/ WaitElapsed \/ Reconnect
  BY <1>6, FreshReading DEF WatchForInterrupt, WaitElapsed, Reconnect
<1>7. CASE NextBase \/ \E o \in unread : ReadEntry(o)
  BY <1>7, EntryKeepsReadInv, NextBaseKeepsReadInv
<1>8. CASE CompareReadings
  BY <1>8, CompleteReading DEF CompareReadings, ReadInv, ReadingIsOfItsOwnTime
<1>9. CASE \E change \in pending : RenderChange(change)
  BY <1>9, ReadUnchanged DEF RenderChange
<1>10. QED
  BY <1>1, <1>2, <1>3, <1>4, <1>5, <1>6, <1>7, <1>8, <1>9 DEF Next, Main, Ended

(* Steps that leave the two readings and the changes owed alone.           *)
LEMMA ReportUnchanged ==
  ASSUME ReportInv, PhaseInv, UNCHANGED reportVars,
         \/ UNCHANGED <<pc, currentSnapshot, attempt>>
         \/ pc # "report" /\ pc' # "report" /\ (attempt' = "initial" \/ attempt # "initial")
  PROVE  ReportInv'
  BY DEF ReportInv, NothingLostNothingInvented, Owed, PhaseInv, reportVars

(* Printing a change settles its object and no other.                      *)
LEMMA RenderKeepsReportInv ==
  ASSUME TypeOK, PhaseInv, ReportInv, NEW change \in pending, RenderChange(change)
  PROVE  ReportInv'
<1> USE DEF TypeOK
<1>1. /\ pc = "report"
      /\ UNCHANGED <<pc, attempt, currentSnapshot, previousSnapshot>>
      /\ pending' = pending \ {change}
      /\ view' = [view EXCEPT ![change.object] = change.after]
  BY DEF RenderChange, readingVars
<1>2. /\ change \in Diff(previousSnapshot, currentSnapshot)
      /\ change.object \in Objects
      /\ change.after = Content(currentSnapshot[change.object])
  BY DiffSound DEF ReportInv
<1>3. Owed' = Owed \ {change.object}
  <2>1. \A other \in pending : other.object = change.object => other = change
    BY <1>2, DiffFunctional DEF ReportInv
  <2>2. QED
    BY <1>1, <2>1 DEF Owed
<1>4. ASSUME NEW o \in Objects, attempt # "initial"
      PROVE  view'[o] = IF o \notin Owed' THEN Content(currentSnapshot[o])
                        ELSE Content(previousSnapshot[o])
  <2>1. CASE o = change.object
    BY <1>1, <1>2, <1>3, <2>1
  <2>2. CASE o # change.object
    <3>1. view'[o] = view[o] /\ (o \in Owed' <=> o \in Owed)
      BY <1>1, <1>3, <2>2
    <3>2. view[o] = IF o \notin Owed THEN Content(currentSnapshot[o])
                    ELSE Content(previousSnapshot[o])
      BY <1>1, <1>4 DEF ReportInv, NothingLostNothingInvented
    <3>3. QED
      BY <3>1, <3>2
  <2>3. QED
    BY <2>1, <2>2
<1>5. NothingLostNothingInvented'
  BY <1>1, <1>4 DEF NothingLostNothingInvented
<1>6. QED
  BY <1>1, <1>5 DEF ReportInv

(* Comparing two readings makes the run owe a change for exactly the       *)
(* objects whose picture is out of date.                                   *)
LEMMA CompareKeepsReportInv ==
  ASSUME TypeOK, PhaseInv, ReportInv, CompareReadings
  PROVE  ReportInv'
<1> USE DEF TypeOK
<1>1. /\ pc = "reading" /\ pc' = "report" /\ attempt # "initial"
      /\ UNCHANGED <<attempt, currentSnapshot, previousSnapshot, view>>
      /\ pending' = Diff(previousSnapshot, currentSnapshot)
  BY DEF CompareReadings, readingVars
<1>2. ASSUME NEW o \in Objects
      PROVE  view[o] = Content(previousSnapshot[o])
  BY <1>1 DEF ReportInv, NothingLostNothingInvented
<1>3. ASSUME NEW o \in Objects, o \notin Owed'
      PROVE  Content(previousSnapshot[o]) = Content(currentSnapshot[o])
  BY <1>1, <1>3, DiffComplete DEF Owed
<1>4. NothingLostNothingInvented'
  BY <1>1, <1>2, <1>3 DEF NothingLostNothingInvented
<1>5. QED
  BY <1>1, <1>4 DEF ReportInv

LEMMA ReportStep == TypeOK /\ PhaseInv /\ ReportInv /\ [Next]_vars => ReportInv'
<1> SUFFICES ASSUME TypeOK, PhaseInv, ReportInv, [Next]_vars PROVE ReportInv'
  OBVIOUS
<1> USE DEF directoryVars, readingVars, reportVars, signalVars, exitVars
<1>1. CASE UNCHANGED vars
  BY <1>1, ReportUnchanged DEF vars
<1>2. CASE Environment
  BY <1>2, ReportUnchanged DEF Environment, WriteDirectory, DropSession, SendInterrupt
<1>3. CASE Watcher
  BY <1>3, ReportUnchanged DEF Watcher, ReceiveSignal, StopNotifying, RequestStop
<1>4. CASE Connect \/ ResolveSearchBases \/ StartupFails \/ ReadingFails
  BY <1>4, ReportUnchanged DEF Connect, ResolveSearchBases, StartupFails,
                               ReadingFails, ReturnError, PhaseInv
<1>5. CASE NextBase \/ \E o \in unread : ReadEntry(o)
  BY <1>5, ReportUnchanged DEF NextBase, ReadEntry, PhaseInv
<1>6. CASE CheckInterrupted \/ WaitStopped \/ ReconnectFails
  BY <1>6, ReportUnchanged
     DEF CheckInterrupted, WaitStopped, ReconnectFails, ReturnNil, ReturnError, PhaseInv
<1>7. CASE WatchForInterrupt \/ WaitElapsed \/ Reconnect
  BY <1>7, ReportUnchanged
     DEF WatchForInterrupt, WaitElapsed, Reconnect, StartReading, PhaseInv
<1>8. CASE InitialReadingDone
  BY <1>8 DEF InitialReadingDone, PhaseInv, ReportInv, NothingLostNothingInvented
<1>9. CASE CompareReadings
  BY <1>9, CompareKeepsReportInv
<1>10. CASE EndCycle
  BY <1>10 DEF EndCycle, PhaseInv, ReportInv, NothingLostNothingInvented, Owed
<1>11. CASE \E change \in pending : RenderChange(change)
  BY <1>11, RenderKeepsReportInv
<1>12. QED
  BY <1>1, <1>2, <1>3, <1>4, <1>5, <1>6, <1>7, <1>8, <1>9, <1>10, <1>11
     DEF Next, Main, Ended

LEMMA IInvStep == IInv /\ [Next]_vars => IInv'
  BY TypeStep, StopStep, PhaseStep, ReadStep, ReportStep DEF IInv

(* The strengthening holds of every reachable state of the run.            *)
THEOREM Inductive == Spec => []IInv
  BY IInvInit, IInvStep, PTL DEF Spec

-----------------------------------------------------------------------------
(* The safety properties.                                                  *)

(* Applying the printed changes to the first reading always gives the      *)
(* reading the next comparison starts from.                                *)
THEOREM NoChangeLost == Spec => []NothingLostNothingInvented
<1>1. IInv => NothingLostNothingInvented
  BY DEF IInv, ReportInv
<1>2. QED
  BY <1>1, Inductive, PTL

(* No reading mixes in what an earlier or a failed one saw.                *)
THEOREM NoStaleReading == Spec => []ReadingIsOfItsOwnTime
<1>1. IInv => ReadingIsOfItsOwnTime
  BY DEF IInv, ReadInv
<1>2. QED
  BY <1>1, Inductive, PTL

(* An interrupt is followed by at most one reading and its retry.          *)
THEOREM StopIsSoon == Spec => []BoundedWorkAfterStop
<1>1. IInv => BoundedWorkAfterStop
  BY DEF IInv, StopInv, BoundedWorkAfterStop
<1>2. QED
  BY <1>1, Inductive, PTL

(* A clean end owes the operator nothing.                                  *)
THEOREM CleanEndIsComplete == Spec => []CleanEndLeavesNothingPending
<1>1. IInv => CleanEndLeavesNothingPending
  BY DEF IInv, PhaseInv, ReportInv, NothingLostNothingInvented,
         CleanEndLeavesNothingPending
<1>2. QED
  BY <1>1, Inductive, PTL

(* An acknowledged interrupt leaves the default signal behaviour in place. *)
THEOREM StopIsKillable == Spec => []StopLeavesTheProcessKillable
<1>1. IInv => StopLeavesTheProcessKillable
  BY DEF IInv, StopInv, StopLeavesTheProcessKillable
<1>2. QED
  BY <1>1, Inductive, PTL

-----------------------------------------------------------------------------
(* What no step may do.                                                    *)

(* Only printing shortens the list of changes owed.                        *)
LEMMA OnlyRenderingSettles ==
  ASSUME TypeOK, PhaseInv, [Next]_vars, NEW change \in pending \ pending'
  PROVE  RenderChange(change)
<1> USE DEF directoryVars, readingVars, reportVars, signalVars, exitVars
<1>1. pc = "report"
  BY DEF PhaseInv
<1>2. ~(UNCHANGED vars \/ Environment \/ Watcher)
  BY DEF vars, Environment, WriteDirectory, DropSession, SendInterrupt, Watcher,
         ReceiveSignal, StopNotifying, RequestStop
<1>3. Main
  BY <1>2 DEF Next, Ended
<1>4. PICK printed \in pending : RenderChange(printed)
  BY <1>1, <1>3
     DEF Main, Connect, ResolveSearchBases, StartupFails, WatchForInterrupt, ReadEntry,
         NextBase, ReadingFails, InitialReadingDone, CheckInterrupted, WaitStopped, WaitElapsed,
         Reconnect, ReconnectFails, CompareReadings, EndCycle
<1>5. QED
  BY <1>4 DEF RenderChange

(* Every printed change continues the operator's picture of its object.    *)
THEOREM ReportsAreNews == Spec => EveryReportIsNews
<1>1. ASSUME IInv, [Next]_vars, NEW change \in pending \ pending'
      PROVE  change.before = view[change.object] /\ change.after # change.before
  <2>1. RenderChange(change)
    BY <1>1, OnlyRenderingSettles DEF IInv
  <2>2. /\ change.object \in Objects
        /\ change.before = Content(previousSnapshot[change.object])
        /\ change.before # change.after
    BY <1>1, DiffSound DEF IInv, TypeOK, ReportInv
  <2>3. view[change.object] = Content(previousSnapshot[change.object])
    BY <1>1, <2>1, <2>2 DEF RenderChange, IInv, PhaseInv, ReportInv,
       NothingLostNothingInvented, Owed
  <2>4. QED
    BY <2>2, <2>3
<1>2. IInv /\ [Next]_vars =>
        [\A change \in pending \ pending' :
           /\ change.before = view[change.object]
           /\ change.after # change.before]_vars
  BY <1>1
<1>3. QED
  BY <1>2, Inductive, PTL DEF Spec, EveryReportIsNews

(* A failed attempt moves neither the picture nor the baseline.            *)
THEOREM FailuresLeaveNoTrace == Spec => FailedReadingsLeaveNoTrace
<1> USE DEF directoryVars, readingVars, reportVars, signalVars, exitVars
<1>1. ASSUME [Next]_vars, pc # "report", attempt # "initial"
      PROVE  previousSnapshot' = previousSnapshot /\ view' = view
  <2>1. CASE UNCHANGED vars \/ Environment \/ Watcher
    BY <2>1 DEF vars, Environment, WriteDirectory, DropSession, SendInterrupt,
       Watcher, ReceiveSignal, StopNotifying, RequestStop
  <2>2. CASE Main
    BY <1>1, <2>2
       DEF Main, Connect, ResolveSearchBases, StartupFails, WatchForInterrupt,
           ReadEntry, NextBase, ReadingFails, InitialReadingDone, CheckInterrupted, WaitStopped, WaitElapsed,
           Reconnect, ReconnectFails, CompareReadings, EndCycle, RenderChange,
           ReturnNil, ReturnError
  <2>3. QED
    BY <1>1, <2>1, <2>2 DEF Next, Ended
<1>2. [Next]_vars =>
        [pc # "report" /\ attempt # "initial" =>
           /\ previousSnapshot' = previousSnapshot
           /\ view' = view]_vars
  BY <1>1
<1>3. QED
  BY <1>2, PTL DEF Spec, FailedReadingsLeaveNoTrace

-----------------------------------------------------------------------------
(* Monitor implements ChangeFeed.                                          *)

World == [o \in Objects |-> Content(Entry(directory[o]))]
Window == [o \in Objects |-> {Content(Entry(state)) : state \in held[o]}]

LEMMA FeedInitial == Init => Feed!FeedInit
<1> SUFFICES ASSUME Init PROVE Feed!FeedInit
  OBVIOUS
<1>1. World \in [Objects -> Contents]
  BY EntryType, ContentType DEF Init, World
<1>2. Window = [o \in Objects |-> {}]
  BY DEF Init, Window
<1>3. view \in [Objects -> Contents] /\ Owed = {}
  BY EmptyType DEF Init, Owed
<1>4. QED
  BY <1>1, <1>2, <1>3 DEF Feed!FeedInit, Init, Running, World, Window

(* A write to the directory is a move of the feed's world.                 *)
LEMMA WriteIsMove ==
  ASSUME TypeOK, NEW o \in Objects, NEW state \in States, WriteDirectory(o, state)
  PROVE  Feed!Move(o, Content(Entry(state)))
<1> DEFINE v == Content(Entry(state))
<1> USE DEF TypeOK, reportVars, signalVars, exitVars
<1>1. World' = [World EXCEPT ![o] = v]
  BY DEF WriteDirectory, World
<1>2. Window' = IF pc = "reading" THEN [Window EXCEPT ![o] = @ \cup {v}] ELSE Window
  <2>1. CASE pc = "reading"
    <3>1. held' = [held EXCEPT ![o] = @ \cup {state}]
      BY <2>1 DEF WriteDirectory
    <3>2. Window' = [p \in Objects |-> {Content(Entry(s)) : s \in held'[p]}]
      BY DEF Window
    <3>3. \A p \in Objects : {Content(Entry(s)) : s \in held'[p]} =
            IF p = o THEN Window[p] \cup {v} ELSE Window[p]
      BY <3>1 DEF Window
    <3>4. [Window EXCEPT ![o] = @ \cup {v}] =
            [p \in Objects |-> IF p = o THEN Window[p] \cup {v} ELSE Window[p]]
      BY DEF Window
    <3>5. QED
      BY <2>1, <3>2, <3>3, <3>4
  <2>2. CASE pc # "reading"
    BY <2>2 DEF WriteDirectory, Window
  <2>3. QED
    BY <2>1, <2>2
<1>3. UNCHANGED <<pc, attempt, view, Owed, Running>>
  BY DEF WriteDirectory, Owed, Running
<1>4. QED
  BY <1>1, <1>2, <1>3 DEF Feed!Move, World, Window

(* A call of TakeSnapshot is an observation of the feed.                   *)
LEMMA StartIsObserve ==
  ASSUME TypeOK, PhaseInv, Running, NEW call \in {"initial", "first", "retry"},
         pc \notin {"reading", "report"}, StartReading(call),
         call # "initial" <=> attempt # "initial",
         UNCHANGED <<directory, view, pending, outcome>>
  PROVE  Feed!Observe
<1>1. World' = World /\ Owed' = Owed /\ Owed = {} /\ Running'
  BY DEF World, Owed, PhaseInv, Running
<1>2. Window' = [o \in Objects |-> {World[o]}]
  BY DEF StartReading, Window, World
<1>3. pc' = "reading" /\ attempt' = call
  BY DEF StartReading
<1>4. QED
  BY <1>1, <1>2, <1>3 DEF Feed!Observe, World, Window

(* Steps the feed does not see.                                            *)
LEMMA UnseenStep ==
  ASSUME UNCHANGED <<directory, held, view, pending, outcome>>,
         pc' = "reading" <=> pc = "reading",
         attempt' # "initial" <=> attempt # "initial"
  PROVE  UNCHANGED Feed!feedVars
  BY DEF Feed!feedVars, Owed, Running

(* The process ending is the feed closing.                                 *)
LEMMA EndIsClose ==
  ASSUME Running, outcome' # "running",
         UNCHANGED <<directory, held, view, pending, pc, attempt>>
  PROVE  Feed!Close
  BY DEF Feed!Close, Owed, Running

LEMMA InitialReadingIsBaseline ==
  ASSUME IInv, InitialReadingDone
  PROVE  Feed!Baseline
<1> USE DEF IInv, TypeOK, signalVars, directoryVars, exitVars
<1>1. \A o \in Objects : \E state \in held[o] : Entry(state) = currentSnapshot[o]
  BY CompleteReading DEF InitialReadingDone, ReadInv
<1>2. \A o \in Objects : view'[o] \in Window[o]
  BY <1>1 DEF InitialReadingDone, Window
<1>3. view' \in [Objects -> Contents]
  BY MainType DEF Main
<1>4. UNCHANGED <<directory, held, pending, outcome>>
  BY DEF InitialReadingDone
<1>5. QED
  BY <1>2, <1>3, <1>4 DEF InitialReadingDone, Feed!Baseline, Window, Running, Owed

(* Comparing owes a change wherever the picture may be wrong.              *)
LEMMA CompareIsConclude ==
  ASSUME IInv, CompareReadings
  PROVE  Feed!Conclude
<1> USE DEF IInv, TypeOK, directoryVars, readingVars, signalVars, exitVars
<1>1. /\ UNCHANGED <<directory, held, view, attempt, outcome>>
      /\ pending' = Diff(previousSnapshot, currentSnapshot)
      /\ pc = "reading" /\ pc' = "report" /\ attempt # "initial" /\ Running
  BY DEF CompareReadings
<1>2. ASSUME NEW o \in Objects, o \notin Owed'
      PROVE  view[o] \in Window[o]
  <2>1. Content(previousSnapshot[o]) = Content(currentSnapshot[o])
    BY <1>1, <1>2, DiffComplete DEF Owed
  <2>2. view[o] = Content(previousSnapshot[o])
    BY <1>1 DEF ReportInv, NothingLostNothingInvented
  <2>3. \E state \in held[o] : Entry(state) = currentSnapshot[o]
    BY CompleteReading DEF CompareReadings, ReadInv
  <2>4. QED
    BY <2>1, <2>2, <2>3 DEF Window
<1>3. Owed' \in SUBSET Objects
  BY <1>1, DiffSound DEF Owed
<1>4. QED
  BY <1>1, <1>2, <1>3 DEF Feed!Conclude, Window, Running

LEMMA RenderIsAnnounce ==
  ASSUME IInv, NEW change \in pending, RenderChange(change)
  PROVE  change.object \in Objects /\ Feed!Announce(change.object)
<1> DEFINE o == change.object
<1> USE DEF IInv, TypeOK, directoryVars, readingVars, signalVars, exitVars
<1>1. /\ UNCHANGED <<directory, held, attempt, outcome, pc>>
      /\ pc = "report" /\ Running
      /\ pending' = pending \ {change}
      /\ view' = [view EXCEPT ![o] = change.after]
  BY DEF RenderChange
<1>2. /\ change \in Diff(previousSnapshot, currentSnapshot)
      /\ o \in Objects
      /\ change.before = Content(previousSnapshot[o])
      /\ change.after = Content(currentSnapshot[o])
      /\ change.before # change.after
  BY DiffSound DEF ReportInv
<1>3. view[o] = change.before
  BY <1>1, <1>2 DEF PhaseInv, ReportInv, NothingLostNothingInvented, Owed
<1>4. change.after \in Window[o] \ {view[o]}
  BY <1>1, <1>2, <1>3 DEF Window, ReadInv, ReadingIsOfItsOwnTime
<1>5. Owed' = Owed \ {o} /\ o \in Owed
  <2>1. \A other \in pending : other.object = o => other = change
    BY <1>2, DiffFunctional DEF ReportInv
  <2>2. QED
    BY <1>1, <2>1 DEF Owed
<1>6. QED
  BY <1>1, <1>2, <1>4, <1>5 DEF Feed!Announce, Window, Running

LEMMA FeedStep == IInv /\ [Next]_vars => [Feed!FeedNext]_Feed!feedVars
<1> SUFFICES ASSUME IInv, [Next]_vars PROVE [Feed!FeedNext]_Feed!feedVars
  OBVIOUS
<1> USE DEF IInv, directoryVars, readingVars, reportVars, signalVars, exitVars
<1>1. CASE UNCHANGED vars
  BY <1>1, UnseenStep DEF vars
<1>2. CASE Environment
  <2>1. ASSUME NEW o \in Objects, NEW state \in States, WriteDirectory(o, state)
        PROVE  Feed!FeedNext
    <3>1. Content(Entry(state)) \in Contents
      BY EntryType, ContentType
    <3>2. QED
      BY <2>1, <3>1, WriteIsMove DEF Feed!FeedNext
  <2>2. CASE DropSession
    BY <2>2, UnseenStep DEF DropSession
  <2>3. CASE SendInterrupt
    BY <2>3, UnseenStep, EndIsClose DEF SendInterrupt, Feed!FeedNext
  <2>4. QED
    BY <1>2, <2>1, <2>2, <2>3 DEF Environment
<1>3. CASE Watcher
  BY <1>3, UnseenStep DEF Watcher, ReceiveSignal, StopNotifying, RequestStop
<1>4. CASE StartupFails \/ ReconnectFails \/ WaitStopped
  BY <1>4, EndIsClose
     DEF StartupFails, ReconnectFails, WaitStopped, ReturnError, ReturnNil, Feed!FeedNext
<1>5. CASE CheckInterrupted
  BY <1>5, EndIsClose, UnseenStep DEF CheckInterrupted, ReturnNil, Feed!FeedNext
<1>6. CASE Connect \/ ResolveSearchBases \/ NextBase \/ EndCycle
           \/ \E o \in unread : ReadEntry(o)
  BY <1>6, UnseenStep DEF Connect, ResolveSearchBases, NextBase, EndCycle, ReadEntry
<1>7. CASE ReadingFails
  <2>1. CASE attempt = "first"
    <3>1. /\ pc = "reading" /\ pc' = "reconnect" /\ Running
          /\ UNCHANGED <<directory, held, view, pending, outcome, attempt>>
      BY <1>7, <2>1 DEF ReadingFails
    <3>2. QED
      BY <3>1 DEF Feed!FeedNext, Feed!Abandon, Owed, Running
  <2>2. CASE attempt # "first"
    BY <1>7, <2>2, EndIsClose DEF ReadingFails, ReturnError, Feed!FeedNext
  <2>3. QED
    BY <2>1, <2>2
<1>8. CASE WatchForInterrupt \/ WaitElapsed \/ Reconnect
  <2>1. CASE WatchForInterrupt
    BY <2>1, StartIsObserve DEF WatchForInterrupt, PhaseInv, Feed!FeedNext
  <2>2. CASE WaitElapsed
    BY <2>2, StartIsObserve DEF WaitElapsed, PhaseInv, Feed!FeedNext
  <2>3. CASE Reconnect
    BY <2>3, StartIsObserve DEF Reconnect, PhaseInv, Feed!FeedNext
  <2>4. QED
    BY <1>8, <2>1, <2>2, <2>3
<1>9. CASE InitialReadingDone
  BY <1>9, InitialReadingIsBaseline DEF Feed!FeedNext
<1>10. CASE CompareReadings
  BY <1>10, CompareIsConclude DEF Feed!FeedNext
<1>11. CASE \E change \in pending : RenderChange(change)
  BY <1>11, RenderIsAnnounce DEF Feed!FeedNext
<1>12. QED
  BY <1>1, <1>2, <1>3, <1>4, <1>5, <1>6, <1>7, <1>8, <1>9, <1>10, <1>11
     DEF Next, Main, Ended

(* Every run of monitor mode is a behaviour of the abstract feed.          *)
THEOREM MonitorImplementsFeed == Spec => ImplementsChangeFeed
  BY FeedInitial, FeedStep, Inductive, PTL DEF Spec, ImplementsChangeFeed, Feed!FeedSpec
=============================================================================
