------------------------------- MODULE Monitor -------------------------------
(***************************************************************************)
(* Monitor mode: modes/mode_monitor/run.go and the enumeration it calls in *)
(* acls/snapshot.go, with the exit paths of main.go.                       *)
(*                                                                         *)
(* Two goroutines run: the main one, which reads, compares and reports in  *)
(* cycles, and the one watchForInterrupt starts, which turns the first     *)
(* interrupt into a request to stop.  The directory, the connection and    *)
(* the operator's signals are the environment.                             *)
(*                                                                         *)
(* A descriptor is the bytes the server returned; all the model knows of   *)
(* those is what comparing two of them would find, their Meaning: two      *)
(* descriptors with one meaning differ in bytes and yield no detail.       *)
(***************************************************************************)
EXTENDS Naturals, Sequences

CONSTANTS
  Objects,      \* the distinguished names of the directory
  Descriptors,  \* what a server may return as nTSecurityDescriptor
  Meanings,     \* what a descriptor says once parsed
  Meaning,      \* [Descriptors -> Meanings]
  SearchBases,  \* each search base of the scope, as the objects below it
  MaxWrites,    \* bound on the writes to the directory during the run
  MaxSignals,   \* bound on the interrupts the operator sends
  Absent,       \* no such object, no such entry
  Unreadable    \* the object is there, its descriptor is not returned

ASSUME BasesAssumption ==
  /\ SearchBases \in Seq(SUBSET Objects)
  /\ \A o \in Objects : \E i \in 1 .. Len(SearchBases) : o \in SearchBases[i]

ASSUME ValuesAssumption ==
  /\ Meaning \in [Descriptors -> Meanings]
  /\ Absent \notin Descriptors /\ Unreadable \notin Descriptors
  /\ Absent # Unreadable
  /\ Absent \notin Meanings

ASSUME BoundsAssumption == MaxWrites \in Nat /\ MaxSignals \in Nat

VARIABLES
  directory,         \* what the domain controller holds, per object
  writes,            \* writes to the directory so far
  session,           \* "up" or "down": the LDAP connection
  sent,              \* interrupts the operator has sent
  pc,                \* where the main goroutine stands in Run
  attempt,           \* which call of TakeSnapshot is running or ran last
  base,              \* the search base that call is querying
  unread,            \* the objects below it the server has not returned yet
  previousSnapshot,  \* the reading changes are found against
  currentSnapshot,   \* the reading being taken, or being reported
  pending,           \* the changes of this cycle not printed yet
  notified,          \* is SIGINT/SIGTERM relayed to the signals channel
  signals,           \* the channel of one signal
  watcher,           \* where the goroutine of watchForInterrupt stands
  stopRequested,     \* is the stop channel closed
  outcome,           \* how the process ended, if it did
  logFile,           \* the file of --logfile
  \* history variables, which no action reads
  held,              \* what each object was during the latest reading
  view,              \* the first reading with every printed change applied
  startedAfterStop   \* readings started once a stop had been requested

directoryVars == <<directory, writes, session>>
readingVars == <<attempt, base, unread, currentSnapshot, held, startedAfterStop>>
reportVars == <<previousSnapshot, pending, view>>
signalVars == <<notified, signals, watcher, stopRequested, sent>>
exitVars == <<outcome, logFile>>
vars == <<directoryVars, pc, readingVars, reportVars, signalVars, exitVars>>

-----------------------------------------------------------------------------
States == Descriptors \cup {Absent, Unreadable}
Recorded == Descriptors \cup {Absent}
Contents == Meanings \cup {Absent}

(* Definitions named Mutant... are wrong on purpose: each is a slip one     *)
(* could make in the definition that follows it, and a run of the model    *)
(* with it in place must break a property.                                 *)
MutantEntryKeepsEmpty(state) == state

(* The snapshot entry of an object in a given state: none when there is    *)
(* no object and none when its descriptor came back empty.                 *)
Entry(state) == IF state = Unreadable THEN Absent ELSE state

(* What a snapshot says of an object, up to what a comparison can tell.    *)
Content(entry) == IF entry = Absent THEN Absent ELSE Meaning[entry]

(* What a query of a search base returns, a whole subtree.                 *)
Below(b) == IF b <= Len(SearchBases) THEN SearchBases[b] ELSE {}

NewSnapshot == [o \in Objects |-> Absent]

Kinds == {"appeared", "disappeared", "changed"}
Rank == [kind \in Kinds |->
          CASE kind = "appeared" -> 1
            [] kind = "disappeared" -> 2
            [] kind = "changed" -> 3]
Changes == [kind : Kinds, object : Objects, before : Contents, after : Contents]

Change(kind, o, before, after) ==
  [kind |-> kind, object |-> o,
   before |-> Content(before[o]), after |-> Content(after[o])]

MutantDiffOfNewerReadingOnly(before, after) ==
  {Change(IF before[o] = Absent THEN "appeared" ELSE "changed", o, before, after) :
      o \in {p \in Objects : after[p] # Absent /\ Content(before[p]) # Content(after[p])}}

(* Diff: appearances, disappearances, and the descriptors whose bytes      *)
(* moved and in which a difference was found.                              *)
Diff(before, after) ==
  {Change("appeared", o, before, after) :
      o \in {p \in Objects : before[p] = Absent /\ after[p] # Absent}}
  \cup
  {Change("disappeared", o, before, after) :
      o \in {p \in Objects : before[p] # Absent /\ after[p] = Absent}}
  \cup
  {Change("changed", o, before, after) :
      o \in {p \in Objects : /\ before[p] # Absent /\ after[p] # Absent
                             /\ before[p] # after[p]
                             /\ Content(before[p]) # Content(after[p])}}

-----------------------------------------------------------------------------
Running == outcome = "running"

Init ==
  /\ directory \in [Objects -> States]
  /\ writes = 0
  /\ session = "down"
  /\ sent = 0
  /\ pc = "connect"
  /\ attempt = "initial"
  /\ base = 1
  /\ unread = {}
  /\ previousSnapshot = NewSnapshot
  /\ currentSnapshot = NewSnapshot
  /\ pending = {}
  /\ notified = FALSE
  /\ signals = 0
  /\ watcher = "absent"
  /\ stopRequested = FALSE
  /\ outcome = "running"
  /\ logFile = "open"
  /\ held = [o \in Objects |-> {}]
  /\ view = NewSnapshot
  /\ startedAfterStop = 0

-----------------------------------------------------------------------------
(* The environment.                                                        *)

WriteDirectory(o, state) ==
  /\ Running
  /\ writes < MaxWrites
  /\ state # directory[o]
  /\ writes' = writes + 1
  /\ directory' = [directory EXCEPT ![o] = state]
  /\ held' = IF pc = "reading"
             THEN [held EXCEPT ![o] = @ \cup {state}] ELSE held
  /\ UNCHANGED <<session, pc, attempt, base, unread, currentSnapshot,
                 startedAfterStop, reportVars, signalVars, exitVars>>

DropSession ==
  /\ Running
  /\ session = "up"
  /\ session' = "down"
  /\ UNCHANGED <<directory, writes, pc, readingVars, reportVars, signalVars, exitVars>>

(* An interrupt kills the process unless it is relayed; the channel holds  *)
(* one, and one that finds it full is dropped.                             *)
SendInterrupt ==
  /\ Running
  /\ sent < MaxSignals
  /\ sent' = sent + 1
  /\ IF notified
     THEN signals' = 1 /\ UNCHANGED outcome
     ELSE outcome' = "killed" /\ UNCHANGED signals
  /\ UNCHANGED <<directoryVars, pc, readingVars, reportVars, notified,
                 watcher, stopRequested, logFile>>

-----------------------------------------------------------------------------
(* The goroutine of watchForInterrupt.                                     *)

ReceiveSignal ==
  /\ Running
  /\ watcher = "waiting" /\ signals = 1
  /\ signals' = 0
  /\ watcher' = "received"
  /\ UNCHANGED <<directoryVars, pc, readingVars, reportVars, notified,
                 stopRequested, sent, exitVars>>

MutantStopNotifyingNever ==
  /\ Running
  /\ watcher = "received"
  /\ watcher' = "restored"
  /\ UNCHANGED <<directoryVars, pc, readingVars, reportVars, notified, signals,
                 stopRequested, sent, exitVars>>

StopNotifying ==
  /\ Running
  /\ watcher = "received"
  /\ notified' = FALSE
  /\ watcher' = "restored"
  /\ UNCHANGED <<directoryVars, pc, readingVars, reportVars, signals,
                 stopRequested, sent, exitVars>>

MutantRequestStopNeverCloses ==
  /\ Running
  /\ watcher = "restored"
  /\ watcher' = "done"
  /\ UNCHANGED <<directoryVars, pc, readingVars, reportVars, notified,
                 signals, stopRequested, sent, exitVars>>

RequestStop ==
  /\ Running
  /\ watcher = "restored"
  /\ stopRequested' = TRUE
  /\ watcher' = "done"
  /\ UNCHANGED <<directoryVars, pc, readingVars, reportVars, notified,
                 signals, sent, exitVars>>

Watcher == ReceiveSignal \/ StopNotifying \/ RequestStop

-----------------------------------------------------------------------------
(* The main goroutine.                                                     *)

(* Run returned nil: main prints "Done." and its deferred call runs.       *)
ReturnNil ==
  /\ outcome' = "clean"
  /\ logFile' = "closed"
  /\ UNCHANGED <<directoryVars, pc, readingVars, reportVars, signalVars>>

(* Run returned an error: main calls os.Exit, which runs no deferred call. *)
ReturnError ==
  /\ outcome' = "error"
  /\ UNCHANGED <<directoryVars, pc, readingVars, reportVars, signalVars, logFile>>

MutantStartReadingKeepsPartial(call) ==
  /\ pc' = "reading"
  /\ attempt' = call
  /\ base' = 1
  /\ unread' = Below(1)
  /\ held' = [o \in Objects |-> {directory[o]}]
  /\ startedAfterStop' = startedAfterStop
  /\ UNCHANGED currentSnapshot

(* The first statements of TakeSnapshot: an empty snapshot, the first base. *)
StartReading(call) ==
  /\ pc' = "reading"
  /\ attempt' = call
  /\ base' = 1
  /\ unread' = Below(1)
  /\ currentSnapshot' = NewSnapshot
  /\ held' = [o \in Objects |-> {directory[o]}]
  /\ startedAfterStop' = IF stopRequested
                         THEN startedAfterStop + 1 ELSE startedAfterStop

(* NewSession, then ResolveSearchBases; no signal is relayed yet.          *)
Connect ==
  /\ Running /\ pc = "connect"
  /\ session' = "up"
  /\ pc' = "resolve"
  /\ UNCHANGED <<directory, writes, readingVars, reportVars, signalVars, exitVars>>

ResolveSearchBases ==
  /\ Running /\ pc = "resolve"
  /\ session = "up"
  /\ pc' = "watch"
  /\ UNCHANGED <<directoryVars, readingVars, reportVars, signalVars, exitVars>>

StartupFails ==
  /\ Running /\ pc \in {"connect", "resolve"}
  /\ ReturnError

WatchForInterrupt ==
  /\ Running /\ pc = "watch"
  /\ notified' = TRUE
  /\ watcher' = "waiting"
  /\ StartReading("initial")
  /\ UNCHANGED <<directoryVars, reportVars, signals, stopRequested, sent, exitVars>>

(* A query comes back in pages: each object is returned as it is when its  *)
(* page is made up.  An object two bases return is kept from the first     *)
(* that had a descriptor for it.                                           *)
ReadEntry(o) ==
  /\ Running /\ pc = "reading"
  /\ session = "up"
  /\ o \in unread
  /\ unread' = unread \ {o}
  /\ currentSnapshot' = IF currentSnapshot[o] = Absent
                        THEN [currentSnapshot EXCEPT ![o] = Entry(directory[o])]
                        ELSE currentSnapshot
  /\ UNCHANGED <<directoryVars, pc, attempt, base, held, startedAfterStop,
                 reportVars, signalVars, exitVars>>

NextBase ==
  /\ Running /\ pc = "reading"
  /\ base <= Len(SearchBases)
  /\ session = "up"
  /\ unread = {}
  /\ base' = base + 1
  /\ unread' = Below(base + 1)
  /\ UNCHANGED <<directoryVars, pc, attempt, currentSnapshot, held,
                 startedAfterStop, reportVars, signalVars, exitVars>>

MutantReadingFailsKeepingPartial ==
  /\ Running /\ pc = "reading"
  /\ base <= Len(SearchBases)
  /\ IF attempt = "first"
     THEN /\ pc' = "reconnect"
          /\ previousSnapshot' = currentSnapshot
          /\ UNCHANGED <<directoryVars, readingVars, pending, view, signalVars,
                         exitVars>>
     ELSE ReturnError

(* A query fails because the connection is gone, or because the server     *)
(* refused it: the reading is lost as a whole.  Only the first attempt of  *)
(* a cycle is retried.                                                     *)
ReadingFails ==
  /\ Running /\ pc = "reading"
  /\ base <= Len(SearchBases)
  /\ IF attempt = "first"
     THEN /\ pc' = "reconnect"
          /\ UNCHANGED <<directoryVars, readingVars, reportVars, signalVars,
                         exitVars>>
     ELSE ReturnError

InitialReadingDone ==
  /\ Running /\ pc = "reading"
  /\ base > Len(SearchBases)
  /\ attempt = "initial"
  /\ previousSnapshot' = currentSnapshot
  /\ view' = [o \in Objects |-> Content(currentSnapshot[o])]
  /\ attempt' = "first"
  /\ pc' = "check"
  /\ UNCHANGED <<directoryVars, base, unread, currentSnapshot, held,
                 startedAfterStop, pending, signalVars, exitVars>>

MutantCheckInterruptedAtSelectOnly ==
  /\ Running /\ pc = "check"
  /\ pc' = "wait"
  /\ UNCHANGED <<directoryVars, readingVars, reportVars, signalVars, exitVars>>

(* The top of the loop.                                                    *)
CheckInterrupted ==
  /\ Running /\ pc = "check"
  /\ IF stopRequested
     THEN ReturnNil
     ELSE /\ pc' = "wait"
          /\ UNCHANGED <<directoryVars, readingVars, reportVars, signalVars,
                         exitVars>>

(* The select: with both channels ready, either branch may be taken.       *)
WaitStopped ==
  /\ Running /\ pc = "wait"
  /\ stopRequested
  /\ ReturnNil

WaitElapsed ==
  /\ Running /\ pc = "wait"
  /\ StartReading("first")
  /\ UNCHANGED <<directoryVars, reportVars, signalVars, exitVars>>

Reconnect ==
  /\ Running /\ pc = "reconnect"
  /\ session' = "up"
  /\ StartReading("retry")
  /\ UNCHANGED <<directory, writes, reportVars, signalVars, exitVars>>

ReconnectFails ==
  /\ Running /\ pc = "reconnect"
  /\ ReturnError

MutantCompareReadingsSwapped ==
  /\ Running /\ pc = "reading"
  /\ base > Len(SearchBases)
  /\ attempt # "initial"
  /\ pending' = Diff(currentSnapshot, previousSnapshot)
  /\ pc' = "report"
  /\ UNCHANGED <<directoryVars, readingVars, previousSnapshot, view,
                 signalVars, exitVars>>

CompareReadings ==
  /\ Running /\ pc = "reading"
  /\ base > Len(SearchBases)
  /\ attempt # "initial"
  /\ pending' = Diff(previousSnapshot, currentSnapshot)
  /\ pc' = "report"
  /\ UNCHANGED <<directoryVars, readingVars, previousSnapshot, view,
                 signalVars, exitVars>>

(* Render prints the changes one by one, grouped by kind.                  *)
RenderChange(change) ==
  /\ Running /\ pc = "report"
  /\ change \in pending
  /\ \A other \in pending : Rank[change.kind] <= Rank[other.kind]
  /\ pending' = pending \ {change}
  /\ view' = [view EXCEPT ![change.object] = change.after]
  /\ UNCHANGED <<directoryVars, pc, readingVars, previousSnapshot,
                 signalVars, exitVars>>

MutantEndCycleKeepsBaseline ==
  /\ Running /\ pc = "report"
  /\ pending = {}
  /\ pc' = "check"
  /\ UNCHANGED <<directoryVars, readingVars, reportVars, signalVars, exitVars>>

MutantEndCycleCutShortByStop ==
  /\ Running /\ pc = "report"
  /\ pending = {} \/ stopRequested
  /\ previousSnapshot' = currentSnapshot
  /\ pc' = "check"
  /\ UNCHANGED <<directoryVars, readingVars, pending, view, signalVars, exitVars>>

EndCycle ==
  /\ Running /\ pc = "report"
  /\ pending = {}
  /\ previousSnapshot' = currentSnapshot
  /\ pc' = "check"
  /\ UNCHANGED <<directoryVars, readingVars, pending, view, signalVars, exitVars>>

Main ==
  \/ Connect \/ ResolveSearchBases \/ StartupFails \/ WatchForInterrupt
  \/ \E o \in unread : ReadEntry(o)
  \/ NextBase \/ ReadingFails \/ InitialReadingDone
  \/ CheckInterrupted \/ WaitStopped \/ WaitElapsed
  \/ Reconnect \/ ReconnectFails
  \/ CompareReadings \/ EndCycle
  \/ \E change \in pending : RenderChange(change)

Environment ==
  \/ \E o \in Objects, state \in States : WriteDirectory(o, state)
  \/ DropSession
  \/ SendInterrupt

(* The process has ended: nothing is left to happen.                       *)
Ended == ~Running /\ UNCHANGED vars

Next == Main \/ Watcher \/ Environment \/ Ended

Spec == Init /\ [][Next]_vars

(* Both goroutines are scheduled, every query returns and every timer      *)
(* fires.  Nothing is asked of the environment.                            *)
FairSpec == Spec /\ WF_vars(Main) /\ WF_vars(Watcher)

-----------------------------------------------------------------------------
(* Properties.                                                             *)

(* Every variable of the run stays in its type.                            *)
TypeOK ==
  /\ directory \in [Objects -> States]
  /\ writes \in 0 .. MaxWrites
  /\ session \in {"up", "down"}
  /\ sent \in 0 .. MaxSignals
  /\ pc \in {"connect", "resolve", "watch", "reading", "check", "wait",
            "reconnect", "report"}
  /\ attempt \in {"initial", "first", "retry"}
  /\ base \in 1 .. Len(SearchBases) + 1
  /\ unread \in SUBSET Objects
  /\ previousSnapshot \in [Objects -> Recorded]
  /\ currentSnapshot \in [Objects -> Recorded]
  /\ pending \in SUBSET Changes
  /\ notified \in BOOLEAN
  /\ signals \in {0, 1}
  /\ watcher \in {"absent", "waiting", "received", "restored", "done"}
  /\ stopRequested \in BOOLEAN
  /\ outcome \in {"running", "clean", "error", "killed"}
  /\ logFile \in {"open", "closed"}
  /\ held \in [Objects -> SUBSET States]
  /\ view \in [Objects -> Contents]
  /\ startedAfterStop \in Nat

(* The printed changes, applied in order to the first reading, give the    *)
(* reading the next comparison starts from, whatever readings failed, were *)
(* retried or are in the middle of being printed: an object owed a change  *)
(* still shows its old content, every other object its new one.            *)
Owed == {change.object : change \in pending}
NothingLostNothingInvented ==
  attempt # "initial" =>
    \A o \in Objects :
      view[o] = IF pc = "report" /\ o \notin Owed
                THEN Content(currentSnapshot[o])
                ELSE Content(previousSnapshot[o])

(* A reading is never mixed with an earlier one or with an attempt that    *)
(* failed: what it records of an object, that object was at some time      *)
(* since this very reading started, though not all at the same time.       *)
ReadingIsOfItsOwnTime ==
  pc = "report" =>
    \A o \in Objects : \E state \in held[o] : Entry(state) = currentSnapshot[o]

(* An interrupt lets the main goroutine start at most one more reading     *)
(* and its retry.                                                          *)
BoundedWorkAfterStop == startedAfterStop <= 2

(* Once a stop is acknowledged, the next interrupt kills the process: the  *)
(* operator is never left with a tool that ignores Ctrl-C.                 *)
StopLeavesTheProcessKillable == stopRequested => ~notified

(* A run that was asked to stop still prints everything its last complete  *)
(* reading found before it ends cleanly.                                   *)
CleanEndLeavesNothingPending ==
  outcome = "clean" =>
    /\ pending = {}
    /\ \A o \in Objects : view[o] = Content(previousSnapshot[o])

(* Each printed change starts where the operator's picture of the object   *)
(* stood and moves it: no change is printed twice, and none is printed     *)
(* that skips over one never printed.                                      *)
EveryReportIsNews ==
  [][\A change \in pending \ pending' :
        /\ change.before = view[change.object]
        /\ change.after # change.before]_vars

(* The picture the operator has moves only while a complete reading is     *)
(* being reported, and the reading it is compared with is replaced only    *)
(* when all of it was: an attempt that fails changes neither.              *)
FailedReadingsLeaveNoTrace ==
  [][pc # "report" /\ attempt # "initial" =>
        /\ previousSnapshot' = previousSnapshot
        /\ view' = view]_vars

(* Monitor mode keeps the promise of the abstract feed.                    *)
Feed == INSTANCE ChangeFeed WITH
  Values <- Contents,
  world <- [o \in Objects |-> Content(Entry(directory[o]))],
  window <- [o \in Objects |-> {Content(Entry(state)) : state \in held[o]}],
  observing <- pc = "reading",
  baselined <- attempt # "initial",
  due <- Owed,
  live <- Running
ImplementsChangeFeed == Feed!FeedSpec

(* An interrupt sent at any point of the run ends it, whatever the server  *)
(* and the connection do.                                                  *)
InterruptEndsTheRun == sent > 0 ~> ~Running

(* Once the directory stops moving the operator's picture catches up with  *)
(* it, unless the run ends: the changes a torn reading missed or made up   *)
(* are put right by the next.                                              *)
Informed ==
  /\ attempt # "initial"
  /\ \A o \in Objects : view[o] = Content(Entry(directory[o]))
QuietDirectoryIsReported ==
  []<><<directory' # directory>>_vars \/ <>[](Informed \/ ~Running)

-----------------------------------------------------------------------------
(* What the comments of the code say and the code does not do.             *)

(* run.go:66: an interrupt "has to end the run cleanly", closing the log   *)
(* file, "at every point of the run".                                      *)
InterruptClosesTheLogFile ==
  stopRequested /\ outcome \in {"clean", "error"} => logFile = "closed"

(* snapshot.go:150: an object whose descriptor cannot be read "is not      *)
(* reported as having disappeared either".                                 *)
OnlyGoneObjectsDisappear ==
  pc = "report" =>
    \A change \in pending : change.kind = "disappeared" => Absent \in held[change.object]
=============================================================================
