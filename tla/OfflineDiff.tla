----------------------------- MODULE OfflineDiff -----------------------------
(***************************************************************************)
(* Snapshot mode and diff mode together: captures of parts of a directory  *)
(* that changes, under scopes and accounts that differ, into files that    *)
(* diff mode compares in pairs (modes/mode_snapshot, modes/mode_diff,      *)
(* TakeSnapshot, ScopeMismatch).                                           *)
(*                                                                         *)
(* Files are AtomicFiles, which SnapshotStore implements.  A query of one  *)
(* search base is one step: Monitor tears it into pages.  No display       *)
(* filter is set: Descriptor has those.                                    *)
(***************************************************************************)
EXTENDS Naturals, Sequences, FiniteSets

CONSTANTS
  Objects,       \* distinguished names
  Below,         \* [search bases -> SUBSET Objects]
  Filters,       \* LDAP filters, the empty one included
  EmptyFilter,   \* no filter was given
  DefaultFilter, \* DefaultLDAPFilter
  Matching,      \* [Filters -> SUBSET Objects]: what the server matches
  Scopes,        \* the scopes in use: a bound on the inputs
  Accounts,      \* what the accounts in use may read: likewise
  Contents,      \* descriptors: a DACL, whose part the owner and group could as
                 \* well play, and a SACL or NoList
  NoList,        \* no such access control list in the descriptor
  Gone,          \* the object does not exist
  Captures,      \* runs of snapshot mode; each names the snapshot it writes
  Names,         \* paths of snapshots
  Target,        \* [Captures -> Names]
  BeforeFile, AfterFile, \* what diff mode is given
  Nothing,       \* no file; no snapshot
  MaxWrites      \* a bound on the writes to the directory

ASSUME OfflineAssumption ==
  /\ {EmptyFilter, DefaultFilter} \subseteq Filters
  /\ Matching \in [Filters -> SUBSET Objects] /\ Matching[DefaultFilter] = Objects
  /\ \A b \in DOMAIN Below : Below[b] \subseteq Objects
  /\ \A s \in Scopes :
       /\ s.searchBases \in Seq(DOMAIN Below) /\ s.ldapFilter \in Filters
       /\ s.includeSACL \in BOOLEAN
  /\ \A a \in Accounts : a.blind \subseteq Objects /\ a.privileged \in BOOLEAN
  /\ Target \in [Captures -> Names] /\ {BeforeFile, AfterFile} \subseteq Names
  /\ \A d \in Contents : d = [dacl |-> d.dacl, sacl |-> d.sacl]
  /\ Gone \notin Contents /\ Nothing \notin Captures /\ MaxWrites \in Nat

VARIABLES
  directory, \* what each object holds
  writes,    \* how many writes there were
  scope,     \* the scope of each capture
  account,   \* and what its account may read
  base,      \* how many search bases it has queried
  snapshot,  \* and what it has read of them
  holds,     \* what each name holds: AtomicFiles
  ended,     \* how each capture ended: AtomicFiles
  pc,        \* where diff mode stands
  before,    \* the first snapshot it read
  after,     \* and the second
  seen       \* history: what each object held during each capture

captureVars == <<scope, account, base, snapshot, holds, ended>>
diffVars == <<pc, before, after>>
vars == <<directory, writes, captureVars, diffVars, seen>>

Files == INSTANCE AtomicFiles WITH Writers <- Captures, Others <- {}

-----------------------------------------------------------------------------
(* Scope.  Definitions named Mutant... are wrong on purpose: with one in    *)
(* place of what follows it, a run must break a property.                  *)

Filter(s) == IF s.ldapFilter = EmptyFilter THEN DefaultFilter ELSE s.ldapFilter

BasesOf(s) == {s.searchBases[n] : n \in DOMAIN s.searchBases}

InScope(s) == (UNION {Below[b] : b \in BasesOf(s)}) \cap Matching[Filter(s)]

(* Without the privilege, a server asked for SACLs returns no descriptor.  *)
Refused(c) ==
  IF scope[c].includeSACL /\ ~account[c].privileged THEN Objects ELSE account[c].blind

(* securityDescriptorControls: only what was asked for comes back.         *)
Returned(c, o) ==
  [directory[o] EXCEPT !.sacl = IF scope[c].includeSACL THEN @ ELSE NoList]

-----------------------------------------------------------------------------
Init ==
  /\ directory \in [Objects -> Contents \cup {Gone}]
  /\ writes = 0
  /\ scope \in [Captures -> Scopes]
  /\ account \in [Captures -> Accounts]
  /\ base = [c \in Captures |-> 0]
  /\ snapshot = [c \in Captures |-> [o \in {} |-> Gone]]
  /\ holds = [name \in Names |-> Nothing]
  /\ ended = [c \in Captures |-> "running"]
  /\ pc = "before" /\ before = Nothing /\ after = Nothing
  /\ seen = [c \in Captures |-> [o \in Objects |-> {}]]

Reading(c) == ended[c] = "running" /\ 0 < base[c] /\ base[c] < Len(scope[c].searchBases)

(* Bounded to the time between the first query and the last: the directory *)
(* starts in any state, and what comes later is not read.                  *)
WriteObject ==
  /\ writes < MaxWrites
  /\ \E c \in Captures : base[c] > 0
  /\ \E c \in Captures : ended[c] = "running" /\ base[c] < Len(scope[c].searchBases)
  /\ \E o \in Objects, d \in Contents \cup {Gone} :
       /\ d # directory[o]
       /\ directory' = [directory EXCEPT ![o] = d]
       /\ seen' = [c \in Captures |->
            IF Reading(c) THEN [seen[c] EXCEPT ![o] = @ \cup {d}] ELSE seen[c]]
  /\ writes' = writes + 1
  /\ UNCHANGED <<captureVars, diffVars>>

(* What one query returns that is to be recorded: an object that is there  *)
(* twice is skipped, and one whose descriptor is absent left out.          *)
Entries(c) ==
  LET b == scope[c].searchBases[base[c] + 1]
  IN  {o \in Below[b] \cap Matching[Filter(scope[c])] : directory[o] # Gone}

MutantRecorded(c) == Entries(c) \ DOMAIN snapshot[c]

Recorded(c) == Entries(c) \ (DOMAIN snapshot[c] \cup Refused(c))

(* One query of TakeSnapshot.                                              *)
QueryBase(c) ==
  /\ ended[c] = "running"
  /\ base[c] < Len(scope[c].searchBases)
  /\ base' = [base EXCEPT ![c] = @ + 1]
  /\ snapshot' = [snapshot EXCEPT ![c] =
       [o \in DOMAIN @ \cup Recorded(c) |-> IF o \in DOMAIN @ THEN @[o] ELSE Returned(c, o)]]
  /\ seen' = [seen EXCEPT ![c] = [o \in Objects |-> @[o] \cup {directory[o]}]]
  /\ UNCHANGED <<directory, writes, scope, account, holds, ended, diffVars>>

(* Every base was read: the snapshot and its scope go into the file.       *)
WriteSnapshot(c) ==
  /\ base[c] = Len(scope[c].searchBases)
  /\ Files!Publish(c)
  /\ UNCHANGED <<directory, writes, scope, account, base, snapshot, diffVars, seen>>

(* A query or the writing fails.                                           *)
CaptureFails(c) ==
  /\ Files!GiveUp(c)
  /\ UNCHANGED <<directory, writes, scope, account, base, snapshot, diffVars, seen>>

-----------------------------------------------------------------------------
(* ScopeMismatch: one sentence per difference.  No list names a base twice. *)
MutantScopeMismatch(s, t) ==
  {d \in {"bases", "sacl"} :
     \/ d = "bases" /\ BasesOf(s) # BasesOf(t)
     \/ d = "sacl" /\ s.includeSACL # t.includeSACL}

ScopeMismatch(s, t) ==
  {d \in {"bases", "filters", "sacl"} :
     \/ d = "bases" /\ BasesOf(s) # BasesOf(t)
     \/ d = "filters" /\ Filter(s) # Filter(t)
     \/ d = "sacl" /\ s.includeSACL # t.includeSACL}

(* Diff, as far as presence and the parts of a descriptor go.  A list that  *)
(* was not asked for also clears the flag that says there is one.          *)
Changes(old, new, includeSACL) ==
  [appeared |-> DOMAIN new \ DOMAIN old,
   disappeared |-> DOMAIN old \ DOMAIN new,
   dacl |-> {o \in DOMAIN old \cap DOMAIN new : old[o].dacl # new[o].dacl},
   flags |-> {o \in DOMAIN old \cap DOMAIN new : (old[o].sacl = NoList) # (new[o].sacl = NoList)},
   sacl |-> {o \in DOMAIN old \cap DOMAIN new : includeSACL /\ old[o].sacl # new[o].sacl}]

MutantCompareEither(b, a) ==
  Changes(snapshot[b], snapshot[a], scope[b].includeSACL \/ scope[a].includeSACL)

MutantCompareByTheNewer(b, a) ==
  Changes(snapshot[b], snapshot[a], scope[a].includeSACL)

MutantCompareWithoutSACL(b, a) == Changes(snapshot[b], snapshot[a], FALSE)

Compare(b, a) ==
  Changes(snapshot[b], snapshot[a], scope[b].includeSACL /\ scope[a].includeSACL)

ReadBefore ==
  /\ pc = "before"
  /\ holds[BeforeFile] # Nothing
  /\ before' = holds[BeforeFile]
  /\ pc' = "after"
  /\ UNCHANGED <<directory, writes, captureVars, after, seen>>

(* ... and then the comparison, of what was read.                          *)
ReadAfter ==
  /\ pc = "after"
  /\ holds[AfterFile] # Nothing
  /\ after' = holds[AfterFile]
  /\ pc' = "compared"
  /\ UNCHANGED <<directory, writes, captureVars, before, seen>>

(* A file that is not there, or the end of the output: diff mode ends, and  *)
(* may be started again.                                                   *)
EndDiff ==
  /\ \/ pc = "before" /\ holds[BeforeFile] = Nothing
     \/ pc = "after" /\ holds[AfterFile] = Nothing
     \/ pc = "compared"
  /\ pc' = "before" /\ before' = Nothing /\ after' = Nothing
  /\ UNCHANGED <<directory, writes, captureVars, seen>>

Next ==
  \/ WriteObject
  \/ \E c \in Captures : QueryBase(c) \/ WriteSnapshot(c) \/ CaptureFails(c)
  \/ ReadBefore \/ ReadAfter \/ EndDiff

Spec == Init /\ [][Next]_vars

-----------------------------------------------------------------------------
(* Every variable stays in its type; what is filed was read to the end.     *)
Readings == [dacl : {d.dacl : d \in Contents}, sacl : {d.sacl : d \in Contents} \cup {NoList}]
TypeOK ==
  /\ directory \in [Objects -> Contents \cup {Gone}]
  /\ writes \in 0 .. MaxWrites
  /\ \A c \in Captures :
       /\ scope[c] \in Scopes /\ account[c] \in Accounts
       /\ base[c] \in 0 .. Len(scope[c].searchBases)
       /\ DOMAIN snapshot[c] \subseteq InScope(scope[c]) \ Refused(c)
       /\ \A o \in DOMAIN snapshot[c] : snapshot[c][o] \in Readings
       /\ ended[c] = "succeeded" => base[c] = Len(scope[c].searchBases)
  /\ holds \in [Names -> Captures \cup {Nothing}]
  /\ ended \in [Captures -> {"running", "succeeded", "failed"}]
  /\ pc \in {"before", "after", "compared"}
  /\ {before, after} \subseteq Captures \cup {Nothing}
  /\ seen \in [Captures -> [Objects -> SUBSET (Contents \cup {Gone})]]

Report == Compare(before, after)
Warnings == ScopeMismatch(scope[before], scope[after])
Differ(o, part(_)) ==
  \E x \in seen[before][o] \ {Gone}, y \in seen[after][o] \ {Gone} : part(x) # part(y)

(* A change reported inside a descriptor is one of the directory, between   *)
(* some instant of the one capture and some instant of the other, whatever *)
(* the scopes, the accounts and the order of the two files.                *)
ChangesAreReal ==
  pc = "compared" =>
    /\ \A o \in Report.dacl : Differ(o, LAMBDA d : d.dacl)
    /\ \A o \in Report.sacl : Differ(o, LAMBDA d : d.sacl)
    /\ \A o \in Report.flags : "sacl" \in Warnings \/ Differ(o, LAMBDA d : d.sacl = NoList)

(* mode_diff/run.go:35: an object that one reading never looked at looks    *)
(* deleted, and the run says so.  Without a warning, one reported as        *)
(* appearing or disappearing was missing from the directory when the        *)
(* capture that lacks it was taken, or its account was refused it.          *)
AppearancesAreWarnedOf ==
  pc = "compared" =>
    \A o \in Report.appeared \cup Report.disappeared :
      LET without == IF o \in Report.appeared THEN before ELSE after
      IN  Warnings # {} \/ Gone \in seen[without][o] \/ o \in Refused(without)

(* What was different all through the two captures, in both scopes and for  *)
(* both accounts, is reported, warnings or not.                            *)
NothingInScopeIsMissed ==
  pc = "compared" =>
    \A o \in (InScope(scope[before]) \cap InScope(scope[after]))
               \ (Refused(before) \cup Refused(after)) :
      \A x, y \in Contents \cup {Gone} :
        seen[before][o] = {x} /\ seen[after][o] = {y} /\ x # y =>
          CASE x = Gone -> o \in Report.appeared
            [] y = Gone -> o \in Report.disappeared
            [] OTHER ->
                 /\ x.dacl # y.dacl => o \in Report.dacl
                 /\ x.sacl # y.sacl /\ scope[before].includeSACL /\ scope[after].includeSACL
                    => o \in Report.sacl

(* Two files given in the wrong order give the mirror image of the report,  *)
(* and the same warnings: no news is added or lost.                        *)
SwappedFilesMirrorTheReport ==
  pc = "compared" =>
    /\ Compare(after, before) =
         [Report EXCEPT !.appeared = Report.disappeared, !.disappeared = Report.appeared]
    /\ ScopeMismatch(scope[after], scope[before]) = Warnings
=============================================================================
