---------------------------- MODULE SnapshotStore ----------------------------
(***************************************************************************)
(* Snapshot files: acls/store.go, under captures of modes/mode_snapshot    *)
(* and comparisons of modes/mode_diff that run at the same time.           *)
(*                                                                         *)
(* A file system maps names to inodes; a process that holds an inode open  *)
(* keeps it when the name moves on.  A capture is one process and makes    *)
(* one file; any call may fail, and the process may be killed between any  *)
(* two.  The body it writes comes out in chunks, and only all of them, in  *)
(* order and from one writer, decode.                                      *)
(***************************************************************************)
EXTENDS Naturals, Sequences

CONSTANTS
  Writers,    \* the captures; each names the inode it creates
  Readers,    \* the processes that read snapshots, one file at a time
  Names,      \* the paths operators give
  Target,     \* [Writers -> Names]: the path each capture was given
  GzipNames,  \* the paths that end in .gz
  Chunks,     \* how many writes a body takes
  Others,     \* other files, and what is in them
  NoFile,     \* no such name; no inode open
  Torn        \* what a partial file is worth

Headers == [gzip : BOOLEAN, json : BOOLEAN, fits : BOOLEAN,
            tool : {"own", "other"}, format : {"known", "unknown"}]

ASSUME FilesAssumption ==
  /\ Target \in [Writers -> Names] /\ GzipNames \subseteq Names
  /\ Chunks \in Nat \ {0}
  /\ Others \subseteq Headers

ASSUME NamesAssumption ==
  /\ Writers \cap Names = {} /\ Writers \cap Others = {}
  /\ NoFile \notin Writers \cup Others /\ Torn \notin Writers \cup Others \cup {NoFile}

Inodes == Writers \cup Others
Temporaries == Writers   \* as many temporary names as could be in use

VARIABLES
  files,      \* the directory: what each name refers to
  body,       \* the chunks in each inode a capture created
  pc,         \* where each capture stands in WriteSnapshot
  temporary,  \* the name of its temporary file
  handle,     \* the inode that file was opened on
  encoded,    \* how many chunks it has written
  reader,     \* where each reader stands in ReadSnapshot
  source,     \* the inode it opened
  inflate,    \* does it decompress
  result,     \* what its last call returned
  promised    \* history: what a reader would have returned when it opened

writerVars == <<body, pc, temporary, handle, encoded>>
readerVars == <<reader, source, inflate, result, promised>>
vars == <<files, writerVars, readerVars>>

-----------------------------------------------------------------------------
(* One whole body, by one writer.                                          *)
BodyOf(w) == [k \in 1 .. Chunks |-> <<w, k>>]
IsWhole(i) == i \in Others \/ \E w \in Writers : body[i] = BodyOf(w)

(* The gzip magic number: an empty file has none, and a capture compresses *)
(* for a path that asks for it.                                            *)
LooksGzipped(i) ==
  IF i \in Others THEN i.gzip
  ELSE body[i] # <<>> /\ Target[body[i][1][1]] \in GzipNames

(* ReadSnapshot past the opening: decode first, then look at the header.   *)
Decode(i, asGzip) ==
  IF asGzip # LooksGzipped(i) \/ ~IsWhole(i) THEN "unreadable"
  ELSE IF i \in Writers THEN "ok"
  ELSE IF ~(i.json /\ i.fits) THEN "unreadable"
  ELSE IF i.tool # "own" THEN "another tool"
  ELSE IF i.format # "known" THEN "another format"
  ELSE "ok"

Results == {"none", "no file", "unreadable", "another tool", "another format", "ok"}

Init ==
  /\ files \in [Names \cup Temporaries -> Others \cup {NoFile}]
  /\ \A t \in Temporaries : files[t] = NoFile
  /\ body = [w \in Writers |-> <<>>]
  /\ pc = [w \in Writers |-> "create"]
  /\ temporary = [w \in Writers |-> NoFile]
  /\ handle = [w \in Writers |-> NoFile]
  /\ encoded = [w \in Writers |-> 0]
  /\ reader = [r \in Readers |-> "idle"]
  /\ source = [r \in Readers |-> NoFile]
  /\ inflate = [r \in Readers |-> FALSE]
  /\ result = [r \in Readers |-> "none"]
  /\ promised = [r \in Readers |-> "none"]

-----------------------------------------------------------------------------
(* WriteSnapshot.  Definitions named Mutant... are wrong on purpose: with   *)
(* one in place of what follows it, a run must break a property.           *)

Goto(w, label) == pc' = [pc EXCEPT ![w] = label]

(* One temporary name per path, truncated if it is there.                  *)
MutantCreateSharedName(w) ==
  /\ pc[w] = "create"
  /\ LET t == CHOOSE v \in Writers : Target[v] = Target[w]
         i == IF files[t] = NoFile THEN w ELSE files[t]
     IN  /\ files' = [files EXCEPT ![t] = i]
         /\ temporary' = [temporary EXCEPT ![w] = t]
         /\ handle' = [handle EXCEPT ![w] = i]
         /\ body' = [body EXCEPT ![i] = <<>>]
  /\ Goto(w, "encode")
  /\ UNCHANGED <<encoded, readerVars>>

(* os.CreateTemp: a name not in use.                                       *)
Create(w) ==
  /\ pc[w] = "create"
  /\ \E t \in Temporaries :
       /\ files[t] = NoFile
       /\ files' = [files EXCEPT ![t] = w]
       /\ temporary' = [temporary EXCEPT ![w] = t]
  /\ handle' = [handle EXCEPT ![w] = w]
  /\ Goto(w, "encode")
  /\ UNCHANGED <<body, encoded, readerVars>>

CreateFails(w) ==
  /\ pc[w] = "create"
  /\ Goto(w, "failed")
  /\ UNCHANGED <<files, body, temporary, handle, encoded, readerVars>>

(* The loop runs once too often.                                           *)
MutantEncodeOneMore(w) ==
  /\ pc[w] = "encode"
  /\ encoded' = [encoded EXCEPT ![w] = @ + 1]
  /\ body' = [body EXCEPT ![handle[w]] = Append(@, <<w, encoded[w] + 1>>)]
  /\ IF encoded[w] = Chunks THEN Goto(w, "close") ELSE UNCHANGED pc
  /\ UNCHANGED <<files, temporary, handle, readerVars>>

Encode(w) ==
  /\ pc[w] = "encode"
  /\ encoded' = [encoded EXCEPT ![w] = @ + 1]
  /\ body' = [body EXCEPT ![handle[w]] = Append(@, <<w, encoded[w] + 1>>)]
  /\ IF encoded[w] + 1 = Chunks THEN Goto(w, "close") ELSE UNCHANGED pc
  /\ UNCHANGED <<files, temporary, handle, readerVars>>

(* A full disk, at any chunk.                                              *)
EncodeFails(w) ==
  /\ pc[w] = "encode"
  /\ Goto(w, "remove")
  /\ UNCHANGED <<files, body, temporary, handle, encoded, readerVars>>

Close(w) ==
  /\ pc[w] = "close"
  /\ Goto(w, "rename")
  /\ UNCHANGED <<files, body, temporary, handle, encoded, readerVars>>

MutantCloseFailsUncleaned(w) ==
  /\ pc[w] = "close"
  /\ Goto(w, "failed")
  /\ UNCHANGED <<files, body, temporary, handle, encoded, readerVars>>

CloseFails(w) ==
  /\ pc[w] = "close"
  /\ Goto(w, "remove")
  /\ UNCHANGED <<files, body, temporary, handle, encoded, readerVars>>

(* os.Rename, over whatever the path referred to.                          *)
MoveIntoPlace(w) ==
  /\ pc[w] = "rename"
  /\ files[temporary[w]] # NoFile
  /\ files' = [files EXCEPT ![Target[w]] = files[temporary[w]],
                            ![temporary[w]] = NoFile]
  /\ Goto(w, "succeeded")
  /\ UNCHANGED <<body, temporary, handle, encoded, readerVars>>

MoveFails(w) ==
  /\ pc[w] = "rename"
  /\ Goto(w, "remove")
  /\ UNCHANGED <<files, body, temporary, handle, encoded, readerVars>>

(* os.Remove, whose error no one looks at.                                 *)
Remove(w) ==
  /\ pc[w] = "remove"
  /\ files' = [files EXCEPT ![temporary[w]] = NoFile]
  /\ Goto(w, "failed")
  /\ UNCHANGED <<body, temporary, handle, encoded, readerVars>>

RemoveFails(w) ==
  /\ pc[w] = "remove"
  /\ Goto(w, "littered")
  /\ UNCHANGED <<files, body, temporary, handle, encoded, readerVars>>

(* Snapshot mode takes no interrupt: it ends where it stands.              *)
Kill(w) ==
  /\ pc[w] \in {"create", "encode", "close", "rename", "remove"}
  /\ Goto(w, "killed")
  /\ UNCHANGED <<files, body, temporary, handle, encoded, readerVars>>

WriteSnapshot(w) ==
  \/ Create(w) \/ CreateFails(w)
  \/ Encode(w) \/ EncodeFails(w)
  \/ Close(w) \/ CloseFails(w)
  \/ MoveIntoPlace(w) \/ MoveFails(w)
  \/ Remove(w) \/ RemoveFails(w)
  \/ Kill(w)

-----------------------------------------------------------------------------
(* ReadSnapshot.                                                           *)

Return(r, outcome) ==
  /\ reader' = [reader EXCEPT ![r] = "idle"]
  /\ result' = [result EXCEPT ![r] = outcome]

OpenFails(r, name) ==
  /\ reader[r] = "idle"
  /\ files[name] = NoFile
  /\ Return(r, "no file")
  /\ promised' = [promised EXCEPT ![r] = "no file"]
  /\ UNCHANGED <<files, writerVars, source, inflate>>

Opened(r, name) ==
  /\ reader[r] = "idle"
  /\ files[name] # NoFile
  /\ reader' = [reader EXCEPT ![r] = "decode"]
  /\ source' = [source EXCEPT ![r] = files[name]]
  /\ promised' = [promised EXCEPT ![r] = Decode(files[name], LooksGzipped(files[name]))]
  /\ UNCHANGED <<files, writerVars, result>>

MutantOpenByName(r, name) ==
  /\ Opened(r, name)
  /\ inflate' = [inflate EXCEPT ![r] = name \in GzipNames]

(* The file is recognized by its bytes, not by its name.                   *)
Open(r, name) ==
  /\ Opened(r, name)
  /\ inflate' = [inflate EXCEPT ![r] = LooksGzipped(files[name])]

DecodeFile(r) ==
  /\ reader[r] = "decode"
  /\ Return(r, Decode(source[r], inflate[r]))
  /\ UNCHANGED <<files, writerVars, source, inflate, promised>>

ReadSnapshot(r) ==
  \/ \E name \in Names : Open(r, name) \/ OpenFails(r, name)
  \/ DecodeFile(r)

-----------------------------------------------------------------------------
(* The operator files a snapshot under another name, suffix and all.       *)
MoveFile(from, to) ==
  /\ from # to
  /\ files[from] # NoFile
  /\ files' = [files EXCEPT ![to] = files[from], ![from] = NoFile]
  /\ UNCHANGED <<writerVars, readerVars>>

Next ==
  \/ \E w \in Writers : WriteSnapshot(w)
  \/ \E r \in Readers : ReadSnapshot(r)
  \/ \E from, to \in Names : MoveFile(from, to)

Spec == Init /\ [][Next]_vars

-----------------------------------------------------------------------------
Steps == {"create", "encode", "close", "rename", "remove",
          "succeeded", "failed", "littered", "killed"}

(* Every variable stays in its type.                                       *)
TypeOK ==
  /\ files \in [Names \cup Temporaries -> Inodes \cup {NoFile}]
  /\ body \in [Writers -> Seq(Writers \X Nat)]
  /\ pc \in [Writers -> Steps]
  /\ temporary \in [Writers -> Temporaries \cup {NoFile}]
  /\ handle \in [Writers -> Writers \cup {NoFile}]
  /\ encoded \in [Writers -> 0 .. Chunks]
  /\ reader \in [Readers -> {"idle", "decode"}]
  /\ source \in [Readers -> Inodes \cup {NoFile}]
  /\ inflate \in [Readers -> BOOLEAN]
  /\ result \in [Readers -> Results]
  /\ promised \in [Readers -> Results]

(* A name holds a file that was there before, or one whole snapshot: what  *)
(* store.go:80 promises of an interrupted write, at every step of it and   *)
(* with any number of captures writing to the same path.                   *)
Holds(name) ==
  IF files[name] \in Writers
  THEN IF body[files[name]] = BodyOf(files[name]) THEN files[name] ELSE Torn
  ELSE files[name]

Outcome(w) ==
  IF pc[w] = "succeeded" THEN "succeeded"
  ELSE IF pc[w] \in {"failed", "littered", "killed"} THEN "failed" ELSE "running"

(* Seen through whole snapshots, the store is a set of atomic files, and   *)
(* what a capture says of its end is what happened to its file.            *)
Atomic == INSTANCE AtomicFiles WITH
  Nothing <- NoFile,
  holds <- [name \in Names |-> Holds(name)],
  ended <- [w \in Writers |-> Outcome(w)]
ImplementsAtomicFiles == Atomic!FilesSpec

(* A reader returns what the name held when it opened it, though captures  *)
(* replace the file and operators rename it meanwhile: never a torn file,  *)
(* never a refusal of a whole snapshot for the suffix of its name, and      *)
(* never a document of another tool or another format as if it were one.   *)
ReadersGetWhatTheNameHeld ==
  \A r \in Readers :
    /\ reader[r] = "idle" => result[r] = promised[r]
    /\ reader[r] = "decode" /\ source[r] \in Writers => promised[r] = "ok"
    /\ result[r] = "ok" /\ source[r] \in Others /\ reader[r] = "idle" =>
         source[r].tool = "own" /\ source[r].format = "known"

(* A temporary file left behind is that of a capture still at work, of one *)
(* that was killed, or of one whose removal the file system refused; every *)
(* other error cleans up.                                                  *)
LitterIsExplained ==
  \A t \in Temporaries :
    files[t] # NoFile =>
      \E w \in Writers :
        /\ temporary[w] = t
        /\ pc[w] \in {"encode", "close", "rename", "remove", "killed", "littered"}
=============================================================================
