# A verification project for manticore-aclmonitor

`manticore-aclmonitor` reads the security descriptor of every object of an
Active Directory domain over LDAP and says what changed. It does so forever
(`monitor`), once, into a file (`snapshot`), or between two such files
(`diff`). This directory holds TLA+ specifications of its logic, the TLC runs
that check them on small instances, and TLAPS proofs for all instances.

Source paths are relative to the repository.

## 1. The system

| Part | State it keeps | Operations | Talks to |
|---|---|---|---|
| program entry, `main.go` | flags, a configuration copied from them, log file, credentials | parse, open the log, resolve the secret, pick the mode, exit | every mode |
| monitor mode, `modes/mode_monitor/run.go` | the previous reading, the stop channel, the signal channel | the cycle wait / read / compare / report, the retry, the signal goroutine | readings, comparison, resolver, filters, rendering |
| readings, `acls/snapshot.go` | the snapshot being built: descriptors by name, identity index | `TakeSnapshot` | the LDAP session |
| comparison, `acls/diff.go` | none (pure) | `Diff`, `diffDescriptors`, `diffEntries` | |
| names, `acls/resolve.go` | identity index, cache of lookups | `Name`, `Matches`, `UseIndex` | the LDAP session |
| filters, `acls/filter.go` | none (pure) | `FilterChanges` | the resolver, the interpretation |
| interpretation, `acls/interpret.go` | tables of rights | `DescribeMask`, `IsNotable` | |
| rendering, `acls/render.go` | none | `Render` | the resolver, the interpretation |
| snapshot files, `acls/store.go` | files on disk | `WriteSnapshot`, `ReadSnapshot`, `ScopeMismatch` | the file system |
| snapshot and diff modes, `modes/` | none | one reading to a file; two files compared | store, comparison |
| session, `utils/session.go` | the connection | `NewSession`, `ResolveSearchBases` | the domain controller |
| command line, `cli/`, `config/`, the `parser.go` files | options | declaring options, `ResolvePassword`, `PromptForPassword` | the terminal |

Only monitor mode is concurrent: the main goroutine, and the one
`watchForInterrupt` starts, which share a channel for signals and a channel
that is closed to request a stop. The directory and the connection change under
both of them.

**What is hard.** A reading takes time and comes back in pages: it is torn. A
reading may fail halfway and is retried once, on another connection. A change
is found against the previous *complete* reading, so replacing that reading too
early loses changes and too late repeats them. Interrupts may arrive at any
point, twice in a row, during a reading, a retry, a reconnection or a report. A
name that could not be looked up is remembered for the whole run. ACEs carry no
identity and may be duplicated, so which of them "changed" is inferred. A
snapshot file must survive a crash while it is written. Two snapshots may have
been taken under other scopes and other accounts, and what one capture did not
look at, or was refused, looks deleted. A mask is printed in two notations of
which one stands for thirteen rights. Flags are variables that four steps of
`main` write to, and the configuration is a copy of them. The list with lines is
in `PROJECT.json` under `hazards`.

**What makes each part correct.**

- monitor: whoever applies what was printed to the first reading gets the
  latest one; nothing printed is old news; a failed reading leaves no trace; an
  interrupt ends the run soon, cleanly, and leaves the process killable; once
  the directory is quiet, what was printed catches up with it.
- readings: what a reading says of an object was true during that reading.
- ACL comparison: the additions, removals and mask changes reported are exactly
  the difference of the two lists as multisets, each entry told once.
- names: answers agree within a cycle and follow the latest reading; a SID is
  looked up at most once per run; a lookup always ends.
- descriptor comparison, filters and rendering: silence means equal content, no
  filter hides a disappearance or an unreadable descriptor, and the lines
  printed add up to what was asked for.
- snapshot files: the name holds the old snapshot or the new one, whole, and
  nothing else passes for a snapshot.
- diff mode: a change it reports happened between the captures, or a warning
  explains it; what both captures could see is not missed.
- start and session: every bind is the one that was asked for; no secret is
  asked for in vain; no delay turns the cycle into a busy loop.

## 2. The modules

| Module | Models | Extends or instantiates |
|---|---|---|
| `ChangeFeed` | the promise of monitor mode to its reader: an abstract specification | |
| `Monitor` | `modes/mode_monitor/run.go`, `TakeSnapshot`, `Diff`, the exits of `main.go` | `ChangeFeed` (refinement) |
| `MCMonitor` | instances for TLC | `Monitor` |
| `MonitorProofs` | theorems about `Monitor` | `Monitor`, `ChangeFeed` |
| `Resolver`, `MCResolver`, `ResolverProofs` | `acls/resolve.go` and the identity index | |
| `Comparison` | what `diffEntries` of `acls/diff.go` may return: an abstract specification | |
| `AclDiff`, `MCAclDiff`, `AclDiffProofs` | `diffEntries`, `selectEntries`, `leftover` of `acls/diff.go` | `Comparison` (shown to return what it allows) |
| `Rendering` | `Details` and `Render` of `acls/render.go`, `DescribeMask` of `acls/interpret.go` | |
| `Descriptor`, `MCDescriptor`, `DescriptorProofs` | `diffDescriptors` of `acls/diff.go`, `acls/filter.go` | `Rendering`, `Comparison` |
| `AtomicFiles` | what an operator may count on of snapshot files: an abstract specification | |
| `SnapshotStore`, `MCSnapshotStore`, `SnapshotStoreProofs` | `WriteSnapshot` and `ReadSnapshot` of `acls/store.go` | `AtomicFiles` (refinement) |
| `OfflineDiff`, `MCOfflineDiff`, `OfflineDiffProofs` | snapshot mode and diff mode together: scopes, `TakeSnapshot`, `ScopeMismatch`, the comparison | `AtomicFiles` (its actions) |
| `Launch`, `MCLaunch`, `LaunchProofs` | `main.go`, `cli/prompt.go`, `NewSession`, the delays of monitor mode | |

### Monitor

`pc` is where the main goroutine stands in `Run`: `connect`, `resolve`, `watch`
(lines 47-70), `reading` (in `TakeSnapshot`), `check` (line 88), `wait` (the
select), `reconnect` (line 192), `report` (lines 114-119). `attempt` says which
of the three calls of `TakeSnapshot` runs: the initial one, the first of a cycle
or its retry. A reading goes through `SearchBases` in order (`base`); the server
returns the objects below each one at a time (`ReadEntry`), in any order, each
as it is at that moment, which covers every page size. `NextBase` is the return
of a query; `ReadingFails` is a query returning an error, at any page, whether
or not the connection is down.

`watcher` is where the signal goroutine stands between its four statements,
`signals` the channel of capacity one, `notified` whether `signal.Notify` is in
force. A signal sent when it is not kills the process. `outcome` is how the
process ended; `ReturnNil` and `ReturnError` are the two ways back into `main`,
of which only the first runs the deferred `CloseLogFile`.

A descriptor is opaque: `Meaning` maps it to what a comparison can tell of it,
and two descriptors of equal meaning are the "re-serialization with the same
content" of `HasDetail`. This abstraction is right when finding nothing between
two descriptors is an equivalence, which the run `descriptor` shows for a
comparison without options. It is not one when inherited entries are ignored:
`describePresence` still counts them, so that a list losing its last entry, an
inherited one, is reported and its coming back is not. Filters are off in this
model: everything found is printed.

Three history variables say what is otherwise past: `held`, the states each
object has had since the reading started; `view`, the first reading with every
printed change applied to it, that is, what an operator who read the whole
output believes; `startedAfterStop`, a count of readings.

`ChangeFeed` knows no LDAP, retry or signal: an observer looks at a changing
world over an interval, must then announce every object its reader is wrong
about, and never announces what the reader knows. `Monitor` implements it with
the mapping at the end of the module.

### Resolver

One question at a time, as the main goroutine asks them. `NameFromMemory` is
the well-known names, the index and the cache, in that order; `StartLookup` and
the four actions of `Lookup` are `lookup`, one action per query, between which
accounts may be renamed and the connection lost. A failed query is passed over
as in the code. With no session (`session = "nil"`) this is diff mode: the
directory does not move and `UseIndex` does not happen. A reading is one step
here: that it is torn is the subject of `Monitor`. Whether an account is in the
scope of the readings, and under which base a lookup finds it, is fixed per SID.

### AclDiff

The loops of `diffEntries` in program order, one action per turn; `leftover`
runs twice, with fresh counts. An ACE is a record of its identity key
(everything `aceIdentityKey` formats) and its mask, a set of rights, so
`Granted` and `Revoked` are set differences. Pointers are positions in a list,
which keeps two equal ACEs apart exactly as the code does.

`Comparison` says what the two passes come to, with no loop: there is a one-to-one
matching of entries of equal identity; what it leaves out is removed or added,
what it matches and differs has changed. `ReportIsOfAMatching` says that the
loops return such a report. They never build the matching: its part among the
entries struck off against each other exists because as many of an ACE are
struck off on either side.

### Rendering

What `Details` prints of a change, one record per line or bulleted entry, and
`DescribeMask`, which prints full control as one line when a mask covers
`fullControlMask` or names `GENERIC_ALL`, in an ACE without an object type. A
description is the right it is about, as the tables give no two rights one text;
`FullControl` stands for `fullControlMask`. A line about the control field is
one flag set or cleared: the names come from a library, which has one for each
of the sixteen flags. The time of a deletion and the SDDL say nothing of what
moved.

### Descriptor

One object, any two readings of it, and every combination of the two options
of `Diff` and the two filters. A `Cycle` is lines 105-119 of
`modes/mode_monitor/run.go` for this object: `Diff`, `FilterChanges`, `Render`,
and the baseline moves on. The comparison of two lists is not repeated here:
`DiffEntries` is any report that `Comparison` allows, which `AclDiffProofs`
proves the loops' one to be, so what holds here holds whichever entries the code
pairs. An entry's position is its place in the list here and its place among the
selected entries in `AclDiff`; it only tells entries apart. Which right of which entry is notable is a
constant relation, `Notable`; a collapsed full control is notable. The control field
is a set of flags and the owner and group are SIDs or `NoSID`.

`known` is a history variable: what a reader of the filtered output can tell,
in the terms of the filter (`Profile`): matching owners, how many visible
entries carry each right, flags and presence unless a trustee is asked for. It
is updated from the *printed lines* (`Apply(Render(...))`), where full control
counts as the rights it stands for; an object that appears or cannot be parsed
the reader goes and looks at. Trustees match by name as well as by SID; the
names do not move in this model, as they may in `Resolver`.

A mask may hold full control under either of its names, `GENERIC_ALL` and
`fullControlMask`, or under both, and the lines of a mask change are made of the
bits that moved. When one of two names comes or goes, its line says that rights
were granted or revoked which the entry has all along; `SaidToMove` names these
rights, between two masks of an entry, and `LinesTellWhatMoved` proves that the
lines are wrong about them and right about all others. A reader who is shown a
change of which `SaidToMove` is not empty goes and looks at the entries that carry
those rights (`InDoubt`), as he does at an object that appears, and adds up
everything else. An entry rewritten from one name to the other prints one line
that grants full control and one that revokes it: these cancel, and the reader
needs no look.

### SnapshotStore

A file system of names and inodes. A capture (`mode_snapshot` after its reading)
goes through the calls of `WriteSnapshot`, `pc` being the next one; each may
fail, and the process may be killed between any two. The body is written in
`Chunks`, so that a file can be seen torn. A reader opens an inode, sniffs it and
decodes it later; captures may replace the name meanwhile. `MoveFile` is an
operator who renames snapshots, across the `.gz` suffix. The header of a file of
unknown origin is what `ReadSnapshot` looks at and in which order: the document
decodes into the fields (`fits`), then its tool, then its format.

`AtomicFiles` knows no temporary file and no chunk: a capture publishes a whole
snapshot at one instant or changes nothing. `Holds` maps a name to what it is
worth there; a partial file is worth nothing `AtomicFiles` has.

The errors a disk may return while a file is read are left out: the reader
then reports an error, whatever the file holds.

### OfflineDiff

Captures read a directory base by base (`QueryBase`; `Monitor` has the pages of
a query), each under a `scope` and with an `account`, while others write to it.
The server returns no descriptor of an object the account is `blind` to, and of
no object at all when the SACL is asked for without the privilege for it
(README.md:282-285). A descriptor here is one DACL, whose part the owner and
the group could as well play, and a SACL or none. A capture files its snapshot
by `AtomicFiles!Publish`, so that what `SnapshotStore` refines is what is used
here. Diff mode reads one name, then the other, warns (`ScopeMismatch`) and
compares; captures may replace the files at any time, before, between and after.

`seen` is a history variable: the states each object had while each capture ran,
which is what the report is measured against.

### Launch

A run from its command line to its exit status. The flags of `main.go` are
variables, `cfg` the copy made of three of them, `creds` the secrets in the
credentials, and `pc` where `main` stands. `session` is what `NewSession` was
given; `binds` the binds made with it, those of `ReConnect` included, and `wait`
the delay the cycle of monitor mode was last given. `Failing` collects the steps
that return an error, each of which ends in `os.Exit(1)` without the deferred
close of the log file. A `Duration` is a signed integer below `HalfRange`, and
`AsDuration` wraps.

External, and taken from how `main.go` uses it: the parser lets at most one of
the five secrets through and may hand on a mode `main` does not know; the
credentials hold what they were given; `ReConnect` binds with the settings of
the first connection. `BindsAsAsked` is about the binds that a reconnection adds
on that condition: what the code in the repository decides is the session they
are made with.

## 3. The runs

| Run | Question | Instance |
|---|---|---|
| `readings` | do the reports add up, however readings interleave with writes and failures? | 2 objects, 3 descriptors of 2 meanings, 2 overlapping bases, 2 writes, no interrupt; symmetry on the two descriptors of one meaning |
| `stop` | what does an interrupt do, wherever it arrives? does a quiet directory get reported? | 2 objects, 2 descriptors, 2 overlapping bases, 1 write, 2 interrupts; fairness |
| `log_file`, `unreadable` | two comments the code does not live up to | as `stop`, one base |
| `names` | freshness, agreement and cost of names | 4 SIDs (enumerated, foreign, well known, unparseable), 2 accounts, 2 bases |
| `missed_names` | is a cached miss always a SID that was not found? | as `names` |
| `acl_diff` | is the report the difference of the lists, and one that `Comparison` allows? | 2 identities, one inherited; 3 masks over 2 rights for the explicit one; all pairs of lists of up to 3 entries, inherited entries ignored or not |
| `descriptor` | do the lines printed add up, is none hollow, and is silence the same as equal content? | 2 trustees of which the filter matches one, 3 keys of which one inherited, 4 rights with both notations of full control, in one mask too, lists of up to 2 entries, 2 unreadable values, all options |
| `only_notable` | does the filter for notable changes keep only those? | as `descriptor` |
| `store` | are snapshot files replaced atomically, read as they were when opened, and nothing else taken for one? | 2 captures to one compressed path, 2 chunks, 1 reader, 2 names, an older snapshot, one of another format and two documents of another tool, of which one does not fit the fields |
| `offline` | is every change of the report real or warned of, and nothing both captures could see missed? | 2 objects, 2 captures under scopes that differ in bases, filter and SACL, 2 kinds of account, 1 write |
| `launch` | is each bind the one asked for, and each delay a delay? | 329 command lines: every way to connect with every secret, delays about the limits, every mode |

**Bounds.** `MaxWrites` bounds the writes of a run and `MaxSignals` the
interrupts; the number of cycles, failures and reconnections is not bounded,
since every counter that could grow is bounded by the code or by those two.
The directory starts in any state, so two writes let an object go and come back,
or be replaced and restored, within a reading or across several, and let both
objects move in one reading, which tears it; two interrupts are the most a
process outlives. Two overlapping bases over two objects give a second
copy that is skipped and one that is kept because the first was unreadable.
Lists of three entries hold a duplicated entry next to another of its identity,
which is what counting and pairing could get wrong. For `descriptor` two entries
suffice, since `known` is compared at every cycle and each cycle starts from any
pair of descriptors; the parts other than the lists vary on their own, as no
code relates them. Two captures to one path are what could share a temporary
file or overwrite each other; a third adds another overwriting only, and two
chunks are what makes a file torn. In `descriptor`, `WriteObject` waits for a
quiet cycle, which no action looks at: it halves the states and removes no
pair of readings. In `offline` the directory starts in any state and one write
tears a reading or falls between two; two writes were checked once, in four
minutes, and found nothing else. In `launch` a second is four ticks and a
`Duration` has 64, so that delays of 7, 8 and 16 seconds fit, wrap to a negative
one and wrap to zero; nothing else in that module counts.
The symmetry set is used in
`readings` only, which checks no liveness.

**Fairness.** `Monitor!FairSpec` is weak fairness of each goroutine: the
scheduler runs them, a query returns with an answer or an error (go-ldap's
requests do when the connection is lost), a timer fires. Nothing is assumed of
the directory, the connection or the operator, and no query is assumed to
succeed: `QuietDirectoryIsReported` therefore says "or the run ends", and it
holds because a second failure in a row does end it. The choice of a select
with both channels ready is left open, and `InterruptEndsTheRun` needs no
assumption on it: the check at the top of the next cycle catches the stop.
`Resolver!FairSpec` only asks that queries that were sent return.

**Violations.** Each of the four runs expected to fail checks one sentence of
a comment against the code; `PROJECT.json` quotes it under `findings`:

1. `log_file`: an interrupt does not always close the log file. If the running
   reading then fails, `Run` returns an error and `main` leaves by `os.Exit`.
2. `unreadable`: an object whose descriptor stops being readable *is* reported
   as having disappeared, against the comment in `TakeSnapshot` and as the
   comment on `DescriptorDisappeared` and the README say.
3. `missed_names`: a query that failed is cached as "not found" for good.
4. `only_notable`: a change of the primary group and any change of the control
   flags pass the filter for notable changes.

**Observed while modelling**, and left to prose:

- After "stopping after the running reading" (`run.go:143`) another reading can
  start, as a retry or when the select prefers the timer. The bound that holds,
  one reading and its retry, is `BoundedWorkAfterStop`.
- The comment on `fullControlMask` (`interpret.go:15-17`) says that an ACE with
  the full mask says the same thing as one with `GENERIC_ALL`. The lines of a
  mask change treat them as two rights, since `DescribeMask` is given the bits
  that moved and not the two masks: an ACE rewritten from one to the other is
  printed as granting and as revoking full control, and one that had both and
  loses either as losing full control, which it still has. `SaidToMove` says
  exactly how far such lines are wrong.
- A document of another tool whose fields have other types is refused with the
  decoder's error, not with the sentence of `store.go:18-19`, since it is decoded
  before its header is looked at (`store.go:171-176`). The run `store` has one
  that fits and one that does not: `ReadersGetWhatTheNameHeld` shows that neither
  passes for a snapshot.
- A delay whose nanoseconds do not fit in a `Duration` wraps (`run.go:214`): the
  wait is another one than configured, and may be none at all. `NoTightLoop`
  excepts such delays and is about the others, zero, negative and random ones.
- What `unreadable` shows of one run happens between two snapshots as well: an
  object the second account was refused is reported as having disappeared, with
  no warning, since `ScopeMismatch` compares scopes and not accounts.
  `AppearancesAreWarnedOf` is about scopes and excepts refused objects.
- A comparison of a reading with SACLs and one without tells a flag of the
  control field (SACL present) for every object that has one: the server clears
  it in what it returns. `ChangesAreReal` accepts it because a warning is given.
- Diff mode names trustees from the newer file's index only, though the comment
  at `mode_diff/run.go:43` speaks of both readings.
- A run in a mode the parser let through and `main` does not know asks for a
  password before it is refused.

**Mutants.** Definitions named `Mutant...` stand before the definition they
are a wrong version of. With any of them in place the property `PROJECT.json`
pairs it with is violated, which shows that the property depends on the code.

## 4. The proofs

`MonitorProofs` proves for every set of objects, every descriptors and
meanings, every sequence of search bases that covers the objects, and every
bound: type correctness, the safety invariants `NothingLostNothingInvented`,
`ReadingIsOfItsOwnTime`, `BoundedWorkAfterStop`, `CleanEndLeavesNothingPending`
and `StopLeavesTheProcessKillable`, the action properties `EveryReportIsNews`
and `FailedReadingsLeaveNoTrace`, and that `Monitor` implements `ChangeFeed`.
Assumptions (module `Monitor`): `BasesAssumption`, `ValuesAssumption`,
`BoundsAssumption`; the first loses nothing, as an object under no base is not
in scope.

The argument rests on one inductive invariant, `IInv`, in four parts besides
the types:

- `StopInv`: what the position of the signal goroutine says of `notified` and
  `stopRequested`, and how many readings can have started after a stop at each
  point of the cycle. `BoundedWorkAfterStop` alone is not inductive: that the
  count is 0 at `wait` and at most 1 at `reconnect` is why it never passes 2.
- `PhaseInv`: which `pc` goes with the initial attempt, and that changes are
  owed only at `report`.
- `ReadInv`: during a reading, every object returned so far, and every object
  recorded, has its entry in `held`. `SeenBefore` says which were returned.
- `ReportInv`: what is owed is a part of `Diff`, with
  `NothingLostNothingInvented`, which needs three lemmas about `Diff`: sound
  (a change carries two different contents), complete (an object it leaves out
  reads the same twice) and functional (one change per object at most).

The refinement is then one lemma per kind of step: writes are moves of the
world, calls of `TakeSnapshot` are observations, failures abandon them,
comparisons conclude them, printing announces, every other step stutters.

`ResolverProofs` proves type correctness and the three other safety properties
of `Resolver` from an inductive invariant that ties the count of lookups to the
cache and the question under way, the index to the latest reading, and the
answers given to what would be answered now. A cached answer cannot win over the
index because both an answer and its repetition come from `FromMemory`.

`LaunchProofs` proves the four properties of `Launch` for every set of command
lines that satisfies `CommandLinesAssumption`, every length of a second and
every range of durations that holds the longest random delay
(`DurationAssumption`). Its invariant says, for each `pc`, what `main` has made
of the command line so far: `SecretInv` the secret, Kerberos and the warnings
given, `TalkInv` who was asked and bound to, `SessionInv` the session, `DelayInv`
the delay. `BindsAsAsked` is not inductive without `SecretInv`: a bind is right
because the credentials and the configuration were right several steps before.
`DurationWraps` is the one lemma about arithmetic: wrapping changes no count of
nanoseconds that fits.

`AclDiffProofs` proves the six properties of `AclDiff` for lists of every
length over every set of keys and rights (`ListsAssumption`): types, and that
the report is exactly the difference of the two lists as multisets. Its
invariant says what each loop has done after `i - 1` turns: `AvailableInv` that
what `leftover` has available of an ACE is what the other list holds of it
(`Standing`) less what was struck off (`Shortage`); `LeftInv` that what is left
over of it is by how much its list holds more (`Excess`); `QueueInv` that the
queues hold, in order, the positions queued and not yet paired (`Waiting`);
`PairInv` that these and what was told so far part what is left over, and that
whatever was added found an empty queue. The report then explains the newer list
since `Excess` on one side less `Excess` on the other is the difference of the
two counts, and nothing is both gone and come since one of the two is zero.
`ReportMatches` closes the gap to `Descriptor`: from equal numbers of struck-off
entries (`KeptAlike`) it takes a bijection for each ACE, joins them with what
changed, and shows that what the matching leaves out is the report.

`SnapshotStoreProofs` proves the three invariants of `SnapshotStore`, and that it
implements `AtomicFiles`, for any number of captures, readers, names and chunks
(`FilesAssumption`, `NamesAssumption`). `WriterInv` says that a temporary name
refers to the inode of the one capture that took it until that lets go of it,
and that the inode holds the chunks encoded so far; `NamesInv` that any other
name refers to a file that was there before or to one of a capture that
succeeded; `ReaderInv` that what a reader has open is complete and will be
decompressed if it was compressed, whatever the name came to refer to since. The
refinement is one lemma per call: the rename is the publication, and every other
call of `WriteSnapshot`, failed or not, is invisible.

`OfflineDiffProofs` proves the five invariants of `OfflineDiff` for every
directory, scopes, accounts, number of captures and of writes
(`OfflineAssumption`). Files change by the actions of `AtomicFiles` and in no
other way, and those are what `SnapshotStore` implements. `SnapshotInv` is what ties a snapshot to the history: what it holds
was in the directory at some instant of the capture (`Faithful`), and what it
misses, of the bases queried so far, was gone at some instant or refused
(`Complete`). `FiledInv` says that only captures taken to the end are ever read.

`DescriptorProofs` proves the four properties of `Descriptor`, for descriptors
with lists of every length and under every option, over `Rendering` as it is
(`RightsAssumption`, `DescriptorsAssumption`, `NoneAssumption`), whatever the
masks. The properties are inductive together. The proof is one
equation, that what a reader counts of the older list, plus the lines that grant,
less the lines that revoke, is what he counts of the newer one:

- `DescribedInFull` and `MovedRights`: the descriptions of a mask mean the rights
  it grants, and those of what a mask gained and lost mean what came and went, for
  exactly the rights that are not in `SaidToMove`. `LinesTellWhatMoved` states it,
  for any two masks; `EitherName` is the case analysis on the two names.
- `FilterKeepsDoubts` and `NothingInDoubt`: no filter hides from the reader the
  change that puts a right in doubt, so what he does not look at is safe to add
  up.
- `EntriesAddUp` and `RightsAddUp`: for any matching of two lists, the entries of
  a key that are outside it on one side and on the other make up the difference
  of their numbers, since matched entries are equally many (`CountMatchedWas`,
  `CountMatchedIs`); and so for the entries that carry a right.
- `LinesOfKey`, `LinesGranting`, `LinesRevoking`: lines are as many as the
  entries they are about. A bulleted line carries the position of its entry,
  without which two lines of equal text would be one.
- `FilterKeepsEntries` and `FilterKeepsRights`: a filter drops nothing that the
  reader counts, with `NotableIsSaid` for a notable right that full control covers.

`SilenceOnTheSameContent` goes the other way: between two lists of equal tallies a
matching that leaves out no equal pair leaves nothing out at all.

**Assumptions on the constants.** They say what a type says in Go (a scope has
a list of bases, a descriptor its four parts), or that marks for "nothing" are
none of the values: `Gone`, `Absent` and `None` are what a missing key of a map,
a nil list and a nil pointer are in the code. Only two say more:
`BasesAssumption`, as above, and `RightsAssumption`, that full control is notable
wherever a mask can be collapsed to it, as in the tables of `interpret.go`.

**A note on CASE.** The arms of a TLA+ `CASE` have no order. Wherever the code
tests conditions in turn and more than one can hold (`ReadSnapshot`,
`Diff`, `ScopeMismatch`), the modules have a chain of conditionals;
a `CASE` that TLC evaluates from top to bottom would have been checked as
intended and could not have been proved so.

**Only model-checked**: liveness (`InterruptEndsTheRun`,
`QuietDirectoryIsReported`, `LookupsEnd`), which is outside the prover's reach.
Every invariant and every action property of the passing runs is a theorem.

## 5. Not modelled, and the plan

Not modelled: SDDL, timestamps and the cleaning of text in `render.go`; the
texts and object types of `interpret.go`, tables without logic; the
declarations of options (`cli/groups.go`, the `parser.go` files), which fill a
library's tables; the levels and colours of the logger; power failures, where a
property would state what file systems do; LDAP itself, which is the
environment. Planned, in order:

1. A theorem that a comparison without options finds nothing exactly when two
   descriptors have the same content, which is the equivalence that `Meaning`
   stands for in `Monitor`; one direction is `SilenceOnTheSameContent`.
2. The composition of `Monitor` and `Resolver`: filtering by trustee inside a
   cycle, with the connection the readings share; and of `Resolver` with
   `OfflineDiff`, for names of trustees only the older file has.
