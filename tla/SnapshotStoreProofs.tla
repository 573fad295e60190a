------------------------- MODULE SnapshotStoreProofs -------------------------
(***************************************************************************)
(* Theorems about SnapshotStore, for any number of captures, readers,      *)
(* paths and chunks.                                                       *)
(***************************************************************************)
EXTENDS SnapshotStore, SequenceTheorems, TLAPS

(* Where a capture has a temporary file, and where one may stay behind.     *)
Working == {"encode", "close", "rename", "remove"}
Leaving == {"killed", "littered"}

(* The first n chunks of one writer.                                       *)
Written(w, n) == [k \in 1 .. n |-> <<w, k>>]

(* A capture writes to the inode it made, in order and to the end before   *)
(* it closes, and its temporary name is its own until it lets go of it.    *)
WriterInv ==
  \A w \in Writers :
    /\ body[w] = Written(w, encoded[w])
    /\ pc[w] = "create" => encoded[w] = 0
    /\ pc[w] = "encode" => encoded[w] < Chunks
    /\ pc[w] \in {"close", "rename", "succeeded"} => encoded[w] = Chunks
    /\ pc[w] \in Working =>
         /\ temporary[w] \in Temporaries /\ handle[w] = w
         /\ files[temporary[w]] = w

(* A temporary name refers to the inode of the capture that took the name, *)
(* a path to an inode that was there before or to one of a capture that    *)
(* succeeded.                                                              *)
NamesInv ==
  /\ \A t \in Temporaries :
       files[t] # NoFile =>
         /\ files[t] \in Writers /\ temporary[files[t]] = t
         /\ pc[files[t]] \in Working \cup Leaving
  /\ \A name \in Names : files[name] \in Writers => pc[files[name]] = "succeeded"

(* What a reader of a file that was there before returns.                  *)
Verdict(h) ==
  IF ~(h.json /\ h.fits) THEN "unreadable"
  ELSE IF h.tool # "own" THEN "another tool"
  ELSE IF h.format # "known" THEN "another format"
  ELSE "ok"

(* What a reader opened is complete, and it decompresses what is compressed. *)
Served(r) ==
  /\ reader[r] = "idle" =>
       /\ result[r] = promised[r]
       /\ result[r] = "ok" /\ source[r] \in Others =>
            source[r].tool = "own" /\ source[r].format = "known"
  /\ reader[r] = "decode" =>
       /\ source[r] \in Inodes
       /\ source[r] \in Writers =>
            /\ pc[source[r]] = "succeeded" /\ promised[r] = "ok"
            /\ inflate[r] = (Target[source[r]] \in GzipNames)
       /\ source[r] \in Others =>
            promised[r] = Verdict(source[r]) /\ inflate[r] = source[r].gzip

ReaderInv == \A r \in Readers : Served(r)

IInv == TypeOK /\ WriterInv /\ NamesInv /\ ReaderInv

-----------------------------------------------------------------------------
(* Lemmas.                                                                 *)

(* A body of n chunks, and one chunk more.                                 *)
LEMMA OneMoreChunk ==
  ASSUME NEW w \in Writers, NEW n \in Nat
  PROVE  /\ Written(w, n) \in Seq(Writers \X Nat)
         /\ Append(Written(w, n), <<w, n + 1>>) = Written(w, n + 1)
<1> DEFINE S == Writers \X Nat
<1>1. \A m \in Nat : Written(w, m) \in Seq(S) /\ Len(Written(w, m)) = m
  BY DEF Written
<1>2. <<w, n + 1>> \in S
  OBVIOUS
<1> HIDE DEF S
<1>a. \A s \in Seq(S), e \in S :
        /\ Append(s, e) \in Seq(S) /\ Len(Append(s, e)) = Len(s) + 1
        /\ \A k \in 1 .. Len(s) : Append(s, e)[k] = s[k]
        /\ Append(s, e)[Len(s) + 1] = e
  BY AppendProperties
<1>3. /\ Append(Written(w, n), <<w, n + 1>>) \in Seq(S)
      /\ Len(Append(Written(w, n), <<w, n + 1>>)) = n + 1
      /\ \A k \in 1 .. n : Append(Written(w, n), <<w, n + 1>>)[k] = Written(w, n)[k]
      /\ Append(Written(w, n), <<w, n + 1>>)[n + 1] = <<w, n + 1>>
  BY <1>1, <1>2, <1>a
<1>4. \A k \in 1 .. n + 1 :
        Append(Written(w, n), <<w, n + 1>>)[k] = Written(w, n + 1)[k]
  BY <1>3 DEF Written
<1>5. Written(w, n + 1) \in Seq(S) /\ Len(Written(w, n + 1)) = n + 1
  BY <1>1
<1> QED
  BY <1>1, <1>3, <1>4, <1>5, SeqEqual DEF S

(* A complete body starts with its writer's first chunk.                   *)
LEMMA WholeBody ==
  ASSUME NEW w \in Writers, body[w] = Written(w, Chunks)
  PROVE  /\ body[w] = BodyOf(w) /\ IsWhole(w)
         /\ LooksGzipped(w) = (Target[w] \in GzipNames)
<1>1. body[w] = BodyOf(w)
  BY DEF Written, BodyOf
<1>2. 1 \in 1 .. Chunks
  BY FilesAssumption
<1>3. body[w][1] = <<w, 1>>
  BY <1>1, <1>2 DEF BodyOf
<1>4. body[w] # <<>>
  <2>1. DOMAIN body[w] = 1 .. Chunks
    BY <1>1 DEF BodyOf
  <2>2. DOMAIN <<>> = {}
    BY EmptySeq
  <2> QED
    BY <1>2, <2>1, <2>2
<1>5. w \notin Others
  BY NamesAssumption
<1> QED
  BY <1>1, <1>3, <1>4, <1>5 DEF IsWhole, LooksGzipped

(* What decoding the two kinds of inode returns.                           *)
LEMMA DecodeOwn ==
  ASSUME NEW w \in Writers, body[w] = Written(w, Chunks)
  PROVE  Decode(w, LooksGzipped(w)) = "ok"
<1>1. IsWhole(w)
  BY WholeBody
<1> QED
  BY <1>1 DEF Decode

(* A file that was not written to reads as before.                         *)
LEMMA DecodeOther ==
  ASSUME NEW h \in Others
  PROVE  /\ LooksGzipped(h) = h.gzip
         /\ Decode(h, h.gzip) = Verdict(h)
         /\ Verdict(h) \in Results
         /\ Verdict(h) = "ok" => h.tool = "own" /\ h.format = "known"
<1>1. h \notin Writers
  BY NamesAssumption
<1>2. LooksGzipped(h) = h.gzip /\ IsWhole(h)
  BY DEF LooksGzipped, IsWhole
<1>3. Decode(h, h.gzip) = Verdict(h)
  BY <1>1, <1>2 DEF Decode, Verdict
<1>4. Verdict(h) \in Results
  BY DEF Verdict, Results
<1>5. Verdict(h) = "ok" => h.tool = "own" /\ h.format = "known"
  BY DEF Verdict
<1> QED
  BY <1>2, <1>3, <1>4, <1>5

(* What ReadSnapshot returns is a snapshot or one of its errors.           *)
LEMMA DecodeType == \A i \in Inodes, z \in BOOLEAN : Decode(i, z) \in Results
BY DEF Decode, Results

(* Whether a name ends in .gz is a Boolean.                                *)
LEMMA GzipType ==
  \A i \in Inodes : LooksGzipped(i) \in BOOLEAN
<1>1. \A h \in Others : h.gzip \in BOOLEAN
  BY FilesAssumption DEF Headers
<1> QED
  BY <1>1 DEF LooksGzipped

-----------------------------------------------------------------------------
(* The inductive invariant.                                                *)

(* The invariant holds of a disk with old files only.                      *)
LEMMA InitIInv == Init => IInv
<1> SUFFICES ASSUME Init PROVE IInv
  OBVIOUS
<1>1. TypeOK
  <2>1. <<>> \in Seq(Writers \X Nat) /\ 0 \in 0 .. Chunks
    BY EmptySeq, FilesAssumption
  <2> QED
    BY <2>1 DEF Init, TypeOK, Steps, Results, Inodes
<1>2. WriterInv
  <2>1. \A w : Written(w, 0) = <<>>
    BY DEF Written
  <2> QED
    BY <2>1, FilesAssumption DEF Init, WriterInv, Working
<1>3. NamesInv
  BY NamesAssumption DEF Init, NamesInv
<1>4. ReaderInv
  BY DEF Init, ReaderInv, Served
<1> QED
  BY <1>1, <1>2, <1>3, <1>4 DEF IInv

(* Names and temporary names are apart.                                    *)
LEMMA Apart == \A t \in Temporaries : t \notin Names /\ t # NoFile
BY NamesAssumption DEF Temporaries

(* Every call keeps the types.                                             *)
LEMMA TypeStep == IInv /\ Next => TypeOK'
<1> SUFFICES ASSUME IInv, Next PROVE TypeOK'
  OBVIOUS
<1> USE DEF IInv, Goto
<1>1. ASSUME NEW w \in Writers, WriteSnapshot(w) PROVE TypeOK'
  <2> USE DEF TypeOK, readerVars, Steps
  <2>1. CASE Create(w)
    BY <2>1 DEF Create, Temporaries, Inodes
  <2>2. CASE Encode(w)
    <3>1. pc[w] = "encode" /\ handle[w] = w /\ encoded[w] < Chunks /\ encoded[w] \in Nat
          /\ body[w] = Written(w, encoded[w])
      BY <2>2 DEF Encode, WriterInv, Working
    <3>2. encoded[w] + 1 \in 0 .. Chunks
      BY <3>1, FilesAssumption
    <3>3. encoded' \in [Writers -> 0 .. Chunks]
      BY <2>2, <3>2 DEF Encode
    <3>4. Append(body[w], <<w, encoded[w] + 1>>) \in Seq(Writers \X Nat)
      <4>1. Append(Written(w, encoded[w]), <<w, encoded[w] + 1>>) = Written(w, encoded[w] + 1)
        BY <3>1, OneMoreChunk
      <4>2. encoded[w] + 1 \in Nat
        BY <3>1
      <4>3. Written(w, encoded[w] + 1) \in Seq(Writers \X Nat)
        BY <4>2, OneMoreChunk
      <4> QED
        BY <3>1, <4>1, <4>3
    <3>5. body' \in [Writers -> Seq(Writers \X Nat)]
      BY <2>2, <3>1, <3>4 DEF Encode
    <3>6. pc' \in [Writers -> Steps]
      BY <2>2 DEF Encode
    <3> QED
      BY <2>2, <3>3, <3>5, <3>6 DEF Encode
  <2>3. CASE MoveIntoPlace(w)
    <3>1. temporary[w] \in Temporaries /\ files[temporary[w]] = w
      BY <2>3 DEF MoveIntoPlace, WriterInv, Working
    <3>2. files' \in [Names \cup Temporaries -> Inodes \cup {NoFile}]
      BY <2>3, <3>1 DEF MoveIntoPlace, Inodes
    <3> QED
      BY <2>3, <3>2 DEF MoveIntoPlace
  <2>4. CASE Remove(w)
    <3>1. files' \in [Names \cup Temporaries -> Inodes \cup {NoFile}]
      BY <2>4 DEF Remove
    <3> QED
      BY <2>4, <3>1 DEF Remove
  <2>5. CASE \/ CreateFails(w) \/ EncodeFails(w) \/ Close(w) \/ CloseFails(w)
             \/ MoveFails(w) \/ RemoveFails(w) \/ Kill(w)
    BY <2>5 DEF CreateFails, EncodeFails, Close, CloseFails, MoveFails, RemoveFails, Kill
  <2> QED
    BY <1>1, <2>1, <2>2, <2>3, <2>4, <2>5 DEF WriteSnapshot
<1>2. ASSUME NEW r \in Readers, ReadSnapshot(r) PROVE TypeOK'
  <2> USE DEF TypeOK, writerVars
  <2>1. ASSUME NEW name \in Names, Open(r, name) PROVE TypeOK'
    <3>1. files[name] \in Inodes
      BY <2>1 DEF Open, Opened
    <3>2. LooksGzipped(files[name]) \in BOOLEAN
      BY <3>1, GzipType
    <3>3. Decode(files[name], LooksGzipped(files[name])) \in Results
      BY <3>1, <3>2, DecodeType
    <3> QED
      BY <2>1, <3>1, <3>2, <3>3 DEF Open, Opened
  <2>2. ASSUME NEW name \in Names, OpenFails(r, name) PROVE TypeOK'
    BY <2>2 DEF OpenFails, Return, Results
  <2>3. CASE DecodeFile(r)
    <3>1. source[r] \in Inodes /\ inflate[r] \in BOOLEAN
      BY <2>3 DEF DecodeFile, ReaderInv, Served
    <3>2. Decode(source[r], inflate[r]) \in Results
      BY <3>1, DecodeType
    <3> QED
      BY <2>3, <3>2 DEF DecodeFile, Return
  <2> QED
    BY <1>2, <2>1, <2>2, <2>3 DEF ReadSnapshot
<1>3. ASSUME NEW from \in Names, NEW to \in Names, MoveFile(from, to) PROVE TypeOK'
  BY <1>3 DEF MoveFile, TypeOK, writerVars, readerVars
<1> QED
  BY <1>1, <1>2, <1>3 DEF Next

(* Every call keeps what each capture knows of its temporary file.         *)
LEMMA WriterStep == IInv /\ Next => WriterInv'
<1> SUFFICES ASSUME IInv, Next PROVE WriterInv'
  OBVIOUS
<1> USE DEF IInv, TypeOK, Goto
<1>1. ASSUME NEW w \in Writers, WriteSnapshot(w) PROVE WriterInv'
  <2> SUFFICES ASSUME NEW v \in Writers
               PROVE  /\ body'[v] = Written(v, encoded'[v])
                      /\ pc'[v] = "create" => encoded'[v] = 0
                      /\ pc'[v] = "encode" => encoded'[v] < Chunks
                      /\ pc'[v] \in {"close", "rename", "succeeded"} => encoded'[v] = Chunks
                      /\ pc'[v] \in Working =>
                           /\ temporary'[v] \in Temporaries /\ handle'[v] = v
                           /\ files'[temporary'[v]] = v
    BY DEF WriterInv
  <2>i. /\ body[v] = Written(v, encoded[v])
        /\ pc[v] = "create" => encoded[v] = 0
        /\ pc[v] = "encode" => encoded[v] < Chunks
        /\ pc[v] \in {"close", "rename", "succeeded"} => encoded[v] = Chunks
        /\ pc[v] \in Working =>
             /\ temporary[v] \in Temporaries /\ handle[v] = v
             /\ files[temporary[v]] = v
    BY DEF WriterInv
  <2> USE DEF Working
  <2>1. CASE Create(w)
    <3>1. PICK t \in Temporaries :
            /\ files[t] = NoFile /\ files' = [files EXCEPT ![t] = w]
            /\ temporary' = [temporary EXCEPT ![w] = t]
      BY <2>1 DEF Create
    <3>2. pc[v] \in Working => temporary[v] # t
      BY <2>i, <3>1, NamesAssumption
    <3>3. /\ UNCHANGED <<body, encoded>> /\ handle' = [handle EXCEPT ![w] = w]
          /\ pc[w] = "create" /\ pc' = [pc EXCEPT ![w] = "encode"]
      BY <2>1 DEF Create
    <3>4. files'[t] = w
      BY <3>1
    <3>5. CASE v = w
      BY <2>i, <3>1, <3>3, <3>4, <3>5, FilesAssumption
    <3>6. CASE v # w
      <4>1. pc[v] \in Working => files'[temporary[v]] = v
        BY <2>i, <3>1, <3>2
      <4> QED
        BY <2>i, <3>1, <3>3, <3>6, <4>1
    <3> QED
      BY <3>5, <3>6
  <2>2. CASE Encode(w)
    <3>1. pc[w] = "encode" /\ handle[w] = w /\ encoded[w] < Chunks /\ encoded[w] \in Nat
          /\ body[w] = Written(w, encoded[w])
      BY <2>2 DEF Encode, WriterInv
    <3>2. Append(body[w], <<w, encoded[w] + 1>>) = Written(w, encoded[w] + 1)
      BY <3>1, OneMoreChunk
    <3>3. /\ encoded' = [encoded EXCEPT ![w] = encoded[w] + 1]
          /\ body' = [body EXCEPT ![w] = Append(body[w], <<w, encoded[w] + 1>>)]
          /\ pc' = IF encoded[w] + 1 = Chunks THEN [pc EXCEPT ![w] = "close"] ELSE pc
          /\ UNCHANGED <<files, temporary, handle>>
      BY <2>2, <3>1 DEF Encode
    <3>4. body'[v] = Written(v, encoded'[v])
      BY <2>i, <3>2, <3>3
    <3>5. CASE v = w
      <4>1. encoded'[v] = encoded[w] + 1
        BY <3>3, <3>5
      <4>2. pc'[v] = IF encoded[w] + 1 = Chunks THEN "close" ELSE "encode"
        BY <3>1, <3>3, <3>5
      <4>3. pc'[v] = "encode" => encoded'[v] < Chunks
        BY <3>1, <4>1, <4>2, FilesAssumption
      <4> QED
        BY <2>i, <3>1, <3>3, <3>4, <3>5, <4>1, <4>2, <4>3
    <3>6. CASE v # w
      <4>1. encoded'[v] = encoded[v] /\ pc'[v] = pc[v]
        BY <3>3, <3>6
      <4> QED
        BY <2>i, <3>3, <3>4, <4>1
    <3> QED
      BY <3>5, <3>6
  <2>3. CASE MoveIntoPlace(w)
    <3>1. /\ temporary[w] \in Temporaries /\ files[temporary[w]] = w
          /\ encoded[w] = Chunks
      BY <2>3 DEF MoveIntoPlace, WriterInv
    <3>2. /\ files' = [files EXCEPT ![Target[w]] = w, ![temporary[w]] = NoFile]
          /\ pc' = [pc EXCEPT ![w] = "succeeded"]
          /\ UNCHANGED <<body, temporary, handle, encoded>>
      BY <2>3, <3>1 DEF MoveIntoPlace
    <3>3. v # w /\ pc[v] \in Working => files'[temporary[v]] = v
      <4>1. v # w /\ pc[v] \in Working => temporary[v] # temporary[w]
        BY <2>i, <3>1
      <4>2. Target[w] \in Names
        BY FilesAssumption
      <4> QED
        BY <2>i, <3>2, <4>1, <4>2, Apart
    <3> QED
      BY <2>i, <3>1, <3>2, <3>3
  <2>4. CASE Remove(w)
    <3>1. temporary[w] \in Temporaries /\ files[temporary[w]] = w
      BY <2>4 DEF Remove, WriterInv
    <3>2. v # w /\ pc[v] \in Working => files'[temporary[v]] = v
      BY <2>4, <2>i, <3>1 DEF Remove
    <3> QED
      BY <2>4, <2>i, <3>2 DEF Remove
  <2>5. CASE \/ CreateFails(w) \/ EncodeFails(w) \/ Close(w) \/ CloseFails(w)
             \/ MoveFails(w) \/ RemoveFails(w) \/ Kill(w)
    BY <2>5, <2>i DEF CreateFails, EncodeFails, Close, CloseFails, MoveFails, RemoveFails, Kill
  <2> QED
    BY <1>1, <2>1, <2>2, <2>3, <2>4, <2>5 DEF WriteSnapshot
<1>2. ASSUME NEW r \in Readers, ReadSnapshot(r) PROVE WriterInv'
  <2>1. UNCHANGED <<files, writerVars>>
    BY <1>2 DEF ReadSnapshot, Open, Opened, OpenFails, DecodeFile
  <2> QED
    BY <2>1 DEF writerVars, WriterInv
<1>3. ASSUME NEW from \in Names, NEW to \in Names, MoveFile(from, to) PROVE WriterInv'
  <2>1. \A t \in Temporaries : files'[t] = files[t]
    BY <1>3, Apart DEF MoveFile
  <2>2. UNCHANGED <<body, pc, temporary, handle, encoded>>
    BY <1>3 DEF MoveFile, writerVars
  <2> QED
    BY <2>1, <2>2 DEF WriterInv
<1> QED
  BY <1>1, <1>2, <1>3 DEF Next

(* Every call keeps what the names refer to.                               *)
LEMMA NamesStep == IInv /\ Next => NamesInv'
<1> SUFFICES ASSUME IInv, Next PROVE NamesInv'
  OBVIOUS
<1> USE DEF IInv, TypeOK, Goto
<1>i. /\ \A t \in Temporaries :
           files[t] # NoFile =>
             /\ files[t] \in Writers /\ temporary[files[t]] = t
             /\ pc[files[t]] \in Working \cup Leaving
      /\ \A name \in Names : files[name] \in Writers => pc[files[name]] = "succeeded"
  BY DEF NamesInv
<1> USE DEF Working, Leaving
<1>1. ASSUME NEW w \in Writers, WriteSnapshot(w) PROVE NamesInv'
  <2>w. pc[w] \in Working =>
          temporary[w] \in Temporaries /\ files[temporary[w]] = w /\ handle[w] = w
    BY DEF WriterInv
  <2>1. CASE Create(w)
    <3>1. PICK t \in Temporaries :
            /\ files[t] = NoFile /\ files' = [files EXCEPT ![t] = w]
            /\ temporary' = [temporary EXCEPT ![w] = t]
      BY <2>1 DEF Create
    <3>2. pc[w] = "create" /\ pc' = [pc EXCEPT ![w] = "encode"]
      BY <2>1 DEF Create
    <3>3. ASSUME NEW u \in Temporaries, files'[u] # NoFile
          PROVE  /\ files'[u] \in Writers /\ temporary'[files'[u]] = u
                 /\ pc'[files'[u]] \in Working \cup Leaving
      <4>1. CASE u = t
        BY <3>1, <3>2, <4>1
      <4>2. CASE u # t
        <5>1. files'[u] = files[u]
          BY <3>1, <4>2
        <5>2. files[u] \in Writers /\ files[u] # w
          BY <1>i, <3>2, <3>3, <5>1
        <5> QED
          BY <1>i, <3>1, <3>2, <3>3, <5>1, <5>2
      <4> QED
        BY <4>1, <4>2
    <3>4. ASSUME NEW name \in Names, files'[name] \in Writers
          PROVE  pc'[files'[name]] = "succeeded"
      <4>1. files'[name] = files[name]
        BY <3>1, Apart
      <4> QED
        BY <1>i, <3>2, <3>4, <4>1
    <3> QED
      BY <3>3, <3>4 DEF NamesInv
  <2>2. CASE MoveIntoPlace(w)
    <3>1. pc[w] = "rename" /\ temporary[w] \in Temporaries /\ files[temporary[w]] = w
      BY <2>2, <2>w DEF MoveIntoPlace
    <3>2. /\ files' = [files EXCEPT ![Target[w]] = w, ![temporary[w]] = NoFile]
          /\ pc' = [pc EXCEPT ![w] = "succeeded"] /\ UNCHANGED temporary
      BY <2>2, <3>1 DEF MoveIntoPlace
    <3>t. Target[w] \in Names
      BY FilesAssumption
    <3>3. ASSUME NEW u \in Temporaries, files'[u] # NoFile
          PROVE  /\ files'[u] \in Writers /\ temporary'[files'[u]] = u
                 /\ pc'[files'[u]] \in Working \cup Leaving
      <4>1. u # temporary[w] /\ files'[u] = files[u]
        BY <3>1, <3>2, <3>3, <3>t, Apart
      <4>2. files[u] \in Writers /\ files[u] # w
        BY <1>i, <3>1, <3>3, <4>1
      <4> QED
        BY <1>i, <3>2, <3>3, <4>1, <4>2
    <3>4. ASSUME NEW name \in Names, files'[name] \in Writers
          PROVE  pc'[files'[name]] = "succeeded"
      <4>1. name # temporary[w]
        BY <3>1, Apart
      <4>2. files'[name] = IF name = Target[w] THEN w ELSE files[name]
        BY <3>1, <3>2, <4>1
      <4> QED
        BY <1>i, <3>2, <3>4, <4>2
    <3> QED
      BY <3>3, <3>4 DEF NamesInv
  <2>3. CASE Remove(w)
    <3>1. /\ pc[w] = "remove" /\ temporary[w] \in Temporaries /\ files[temporary[w]] = w
          /\ files' = [files EXCEPT ![temporary[w]] = NoFile]
          /\ pc' = [pc EXCEPT ![w] = "failed"] /\ UNCHANGED temporary
      BY <2>3, <2>w DEF Remove
    <3>2. ASSUME NEW u \in Temporaries, files'[u] # NoFile
          PROVE  /\ files'[u] \in Writers /\ temporary'[files'[u]] = u
                 /\ pc'[files'[u]] \in Working \cup Leaving
      <4>1. u # temporary[w] /\ files'[u] = files[u]
        BY <3>1, <3>2
      <4>2. files[u] \in Writers /\ files[u] # w
        BY <1>i, <3>1, <3>2, <4>1
      <4> QED
        BY <1>i, <3>1, <3>2, <4>1, <4>2
    <3>3. ASSUME NEW name \in Names, files'[name] \in Writers
          PROVE  pc'[files'[name]] = "succeeded"
      <4>1. files'[name] = files[name]
        BY <3>1, Apart
      <4> QED
        BY <1>i, <3>1, <3>3, <4>1
    <3> QED
      BY <3>2, <3>3 DEF NamesInv
  <2>4. CASE Encode(w) \/ EncodeFails(w) \/ Close(w) \/ CloseFails(w) \/ MoveFails(w)
    <3>1. /\ pc[w] \in Working /\ UNCHANGED <<files, temporary>>
          /\ \E label \in Working : pc' = [pc EXCEPT ![w] = label]
      BY <2>4 DEF Encode, EncodeFails, Close, CloseFails, MoveFails
    <3> QED
      BY <1>i, <3>1 DEF NamesInv
  <2>5. CASE RemoveFails(w) \/ (Kill(w) /\ pc[w] # "create")
    <3>1. /\ pc[w] \in Working /\ UNCHANGED <<files, temporary>>
          /\ \E label \in Leaving : pc' = [pc EXCEPT ![w] = label]
      BY <2>5 DEF RemoveFails, Kill
    <3> QED
      BY <1>i, <3>1 DEF NamesInv
  <2>6. CASE CreateFails(w) \/ (Kill(w) /\ pc[w] = "create")
    <3>1. /\ pc[w] = "create" /\ UNCHANGED <<files, temporary>>
          /\ \E label \in Steps : pc' = [pc EXCEPT ![w] = label]
      BY <2>6 DEF CreateFails, Kill, Steps
    <3>2. \A name \in Names \cup Temporaries : files[name] # w
      <4>1. \A name \in Names : files[name] # w
        BY <1>i, <3>1
      <4>2. ASSUME NEW t \in Temporaries, files[t] = w PROVE FALSE
        <5>1. files[t] # NoFile
          BY <4>2, NamesAssumption
        <5>2. pc[w] \in Working \cup Leaving
          BY <1>i, <4>2, <5>1
        <5> QED
          BY <3>1, <5>2
      <4> QED
        BY <4>1, <4>2
    <3> QED
      BY <1>i, <3>1, <3>2 DEF NamesInv
  <2> QED
    BY <1>1, <2>1, <2>2, <2>3, <2>4, <2>5, <2>6 DEF WriteSnapshot
<1>2. ASSUME NEW r \in Readers, ReadSnapshot(r) PROVE NamesInv'
  <2>1. UNCHANGED <<files, writerVars>>
    BY <1>2 DEF ReadSnapshot, Open, Opened, OpenFails, DecodeFile
  <2> QED
    BY <2>1 DEF writerVars, NamesInv
<1>3. ASSUME NEW from \in Names, NEW to \in Names, MoveFile(from, to) PROVE NamesInv'
  <2>1. \A t \in Temporaries : files'[t] = files[t]
    BY <1>3, Apart DEF MoveFile
  <2>2. \A name \in Names :
          files'[name] = IF name = from THEN NoFile
                         ELSE IF name = to THEN files[from] ELSE files[name]
    BY <1>3 DEF MoveFile
  <2>3. UNCHANGED <<pc, temporary>>
    BY <1>3 DEF MoveFile, writerVars
  <2>4. \A name \in Names : files'[name] \in Writers => pc'[files'[name]] = "succeeded"
    <3> SUFFICES ASSUME NEW name \in Names, files'[name] \in Writers
                 PROVE  pc'[files'[name]] = "succeeded"
      OBVIOUS
    <3>1. name # from
      BY <2>2, NamesAssumption
    <3>2. files'[name] = files[from] \/ files'[name] = files[name]
      BY <2>2, <3>1
    <3> QED
      BY <1>i, <2>3, <3>2
  <2> QED
    BY <1>i, <2>1, <2>3, <2>4 DEF NamesInv
<1> QED
  BY <1>1, <1>2, <1>3 DEF Next

(* A capture that succeeded stays so, and nothing is written to its inode.  *)
LEMMA WholeStaysWhole ==
  ASSUME IInv, Next, NEW v \in Writers, pc[v] = "succeeded"
  PROVE  pc'[v] = "succeeded" /\ body'[v] = body[v]
<1> USE DEF IInv, TypeOK, Goto
<1>1. ASSUME NEW w \in Writers, WriteSnapshot(w)
      PROVE  pc'[v] = "succeeded" /\ body'[v] = body[v]
  <2>1. v # w
    BY <1>1 DEF WriteSnapshot, Create, CreateFails, Encode, EncodeFails, Close, CloseFails,
                MoveIntoPlace, MoveFails, Remove, RemoveFails, Kill
  <2>2. CASE Encode(w)
    <3>1. handle[w] = w
      BY <2>2 DEF Encode, WriterInv, Working
    <3> QED
      BY <2>1, <2>2, <3>1 DEF Encode
  <2>3. CASE ~Encode(w)
    BY <1>1, <2>1, <2>3
       DEF WriteSnapshot, Create, CreateFails, EncodeFails, Close, CloseFails,
           MoveIntoPlace, MoveFails, Remove, RemoveFails, Kill
  <2> QED
    BY <2>2, <2>3
<1>2. ASSUME NEW r \in Readers, ReadSnapshot(r)
      PROVE  pc'[v] = "succeeded" /\ body'[v] = body[v]
  BY <1>2 DEF ReadSnapshot, Open, Opened, OpenFails, DecodeFile, writerVars
<1>3. ASSUME NEW from \in Names, NEW to \in Names, MoveFile(from, to)
      PROVE  pc'[v] = "succeeded" /\ body'[v] = body[v]
  BY <1>3 DEF MoveFile, writerVars
<1> QED
  BY <1>1, <1>2, <1>3 DEF Next

(* Every call keeps what each reader was promised at its open.             *)
LEMMA ReaderStep == IInv /\ Next => ReaderInv'
<1> SUFFICES ASSUME IInv, Next PROVE ReaderInv'
  OBVIOUS
<1> USE DEF IInv
<1>i. ASSUME NEW v \in Writers, pc[v] = "succeeded"
      PROVE  /\ pc'[v] = "succeeded"
             /\ LooksGzipped(v) = (Target[v] \in GzipNames)
             /\ Decode(v, LooksGzipped(v)) = "ok"
  <2>1. body[v] = Written(v, Chunks)
    BY <1>i DEF WriterInv
  <2> QED
    BY <1>i, <2>1, WholeStaysWhole, WholeBody, DecodeOwn
<1>1. ASSUME UNCHANGED readerVars PROVE ReaderInv'
  BY <1>i, <1>1 DEF readerVars, ReaderInv, Served
<1>2. ASSUME NEW w \in Writers, WriteSnapshot(w) PROVE ReaderInv'
  BY <1>1, <1>2 DEF WriteSnapshot, Create, CreateFails, Encode, EncodeFails, Close,
                    CloseFails, MoveIntoPlace, MoveFails, Remove, RemoveFails, Kill
<1>3. ASSUME NEW from \in Names, NEW to \in Names, MoveFile(from, to) PROVE ReaderInv'
  BY <1>1, <1>3 DEF MoveFile
<1>4. ASSUME NEW r \in Readers, ReadSnapshot(r) PROVE ReaderInv'
  <2> USE DEF TypeOK
  <2>1. ASSUME NEW name \in Names, Open(r, name) PROVE ReaderInv'
    <3> DEFINE i == files[name]
    <3>1. i \in Inodes /\ UNCHANGED pc
      BY <2>1 DEF Open, Opened, writerVars
    <3>2. /\ reader' = [reader EXCEPT ![r] = "decode"]
          /\ source' = [source EXCEPT ![r] = i]
          /\ promised' = [promised EXCEPT ![r] = Decode(i, LooksGzipped(i))]
          /\ inflate' = [inflate EXCEPT ![r] = LooksGzipped(i)]
          /\ UNCHANGED result
      BY <2>1 DEF Open, Opened
    <3>3. i \in Writers =>
            /\ pc[i] = "succeeded" /\ Decode(i, LooksGzipped(i)) = "ok"
            /\ LooksGzipped(i) = (Target[i] \in GzipNames)
      BY <1>i DEF NamesInv
    <3>4. i \in Others => Decode(i, LooksGzipped(i)) = Verdict(i) /\ LooksGzipped(i) = i.gzip
      BY DecodeOther
    <3> HIDE DEF i
    <3>5. Served(r)'
      BY <3>1, <3>2, <3>3, <3>4 DEF Served
    <3>6. ASSUME NEW q \in Readers, q # r PROVE Served(q)'
      BY <3>1, <3>2, <3>6 DEF Served, ReaderInv
    <3> QED
      BY <3>5, <3>6 DEF ReaderInv
  <2>2. ASSUME NEW name \in Names, OpenFails(r, name) PROVE ReaderInv'
    <3>1. /\ reader[r] = "idle" /\ reader' = [reader EXCEPT ![r] = "idle"]
          /\ result' = [result EXCEPT ![r] = "no file"]
          /\ promised' = [promised EXCEPT ![r] = "no file"]
          /\ UNCHANGED <<source, inflate, pc>>
      BY <2>2 DEF OpenFails, Return, writerVars
    <3>2. Served(r)'
      BY <3>1 DEF Served
    <3>3. ASSUME NEW q \in Readers, q # r PROVE Served(q)'
      BY <3>1, <3>3 DEF Served, ReaderInv
    <3> QED
      BY <3>2, <3>3 DEF ReaderInv
  <2>3. CASE DecodeFile(r)
    <3> DEFINE outcome == Decode(source[r], inflate[r])
    <3>1. /\ reader[r] = "decode" /\ source[r] \in Inodes
          /\ reader' = [reader EXCEPT ![r] = "idle"]
          /\ result' = [result EXCEPT ![r] = outcome]
          /\ UNCHANGED <<source, inflate, promised, pc>>
      BY <2>3 DEF DecodeFile, Return, ReaderInv, Served, writerVars
    <3>2. ASSUME source[r] \in Writers PROVE Served(r)'
      <4>1. /\ pc[source[r]] = "succeeded" /\ promised[r] = "ok"
            /\ inflate[r] = (Target[source[r]] \in GzipNames)
        BY <3>1, <3>2 DEF ReaderInv, Served
      <4>2. inflate[r] = LooksGzipped(source[r])
        BY <1>i, <3>2, <4>1
      <4>3. outcome = promised[r] /\ source[r] \notin Others
        BY <1>i, <3>2, <4>1, <4>2, NamesAssumption
      <4> HIDE DEF outcome
      <4> QED
        BY <3>1, <4>3 DEF Served
    <3>3. ASSUME source[r] \in Others PROVE Served(r)'
      <4>1. promised[r] = Verdict(source[r]) /\ inflate[r] = source[r].gzip
        BY <3>1, <3>3 DEF ReaderInv, Served
      <4>2. /\ outcome = promised[r]
            /\ outcome = "ok" => source[r].tool = "own" /\ source[r].format = "known"
        BY <3>3, <4>1, DecodeOther
      <4> HIDE DEF outcome
      <4> QED
        BY <3>1, <4>2 DEF Served
    <3>4. Served(r)'
      BY <3>1, <3>2, <3>3 DEF Inodes
    <3>5. ASSUME NEW q \in Readers, q # r PROVE Served(q)'
      BY <3>1, <3>5 DEF Served, ReaderInv
    <3> QED
      BY <3>4, <3>5 DEF ReaderInv
  <2> QED
    BY <1>4, <2>1, <2>2, <2>3 DEF ReadSnapshot
<1> QED
  BY <1>2, <1>3, <1>4 DEF Next

(* The invariant of the proofs holds of every behaviour, whatever fails and *)
(* whatever is killed.                                                     *)
THEOREM Inductive == Spec => []IInv
<1>1. Init => IInv
  BY InitIInv
<1>2. IInv /\ [Next]_vars => IInv'
  <2>1. IInv /\ Next => IInv'
    BY TypeStep, WriterStep, NamesStep, ReaderStep DEF IInv
  <2>2. IInv /\ UNCHANGED vars => IInv'
    BY DEF IInv, TypeOK, WriterInv, NamesInv, ReaderInv, Served, vars, writerVars, readerVars
  <2> QED
    BY <2>1, <2>2
<1> QED
  BY <1>1, <1>2, PTL DEF Spec

-----------------------------------------------------------------------------
(* The properties of the runs.                                             *)

(* Every variable stays in its type.                                       *)
THEOREM TypeCorrect == Spec => []TypeOK
<1>1. IInv => TypeOK
  BY DEF IInv
<1> QED
  BY <1>1, Inductive, PTL

(* Readers return what the name held when they opened it, whole, whatever  *)
(* captures and operators do to the name meanwhile.                        *)
THEOREM ReadersAreServed == Spec => []ReadersGetWhatTheNameHeld
<1>1. IInv => ReadersGetWhatTheNameHeld
  BY DEF IInv, ReaderInv, Served, ReadersGetWhatTheNameHeld
<1> QED
  BY <1>1, Inductive, PTL

(* No error path but a refused removal leaves a temporary file behind.     *)
THEOREM LitterHasAnExplanation == Spec => []LitterIsExplained
<1>1. IInv => LitterIsExplained
  BY DEF IInv, NamesInv, LitterIsExplained, Working, Leaving
<1> QED
  BY <1>1, Inductive, PTL

-----------------------------------------------------------------------------
(* SnapshotStore implements AtomicFiles.                                   *)

(* What AtomicFiles sees, and what is there.                               *)
Seen == [name \in Names |-> Holds(name)]
There == [name \in Names |-> files[name]]
Ended == [w \in Writers |-> Outcome(w)]

(* No name ever holds a torn file.                                         *)
LEMMA NothingTorn == IInv => Seen = There
<1> SUFFICES ASSUME IInv, NEW name \in Names PROVE Holds(name) = files[name]
  BY DEF Seen, There
<1>1. CASE files[name] \in Writers
  <2>1. body[files[name]] = Written(files[name], Chunks)
    BY <1>1 DEF IInv, NamesInv, WriterInv
  <2> QED
    BY <1>1, <2>1, WholeBody DEF Holds
<1>2. CASE files[name] \notin Writers
  BY <1>2 DEF Holds
<1> QED
  BY <1>1, <1>2

(* After a step, too, no name shows a torn file.                           *)
LEMMA NothingTornAfter == IInv' => (Seen = There)'
BY NothingTorn, PTL

(* The old files are the initial contents of AtomicFiles.                  *)
LEMMA FilesInitial == Init => Atomic!FilesInit
<1> SUFFICES ASSUME Init PROVE Atomic!FilesInit
  OBVIOUS
<1>1. Seen \in [Names -> Others \cup {NoFile}]
  BY InitIInv, NothingTorn DEF Init, There
<1>2. Ended = [w \in Writers |-> "running"]
  BY DEF Init, Outcome, Ended
<1> QED
  BY <1>1, <1>2 DEF Atomic!FilesInit, Seen, Ended

(* Where a capture stands, as AtomicFiles sees it.                         *)
LEMMA OutcomeOf ==
  \A w \in Writers :
    /\ pc[w] \in Working \cup {"create"} => Outcome(w) = "running"
    /\ pc[w] = "succeeded" => Outcome(w) = "succeeded"
    /\ pc[w] \in Leaving \cup {"failed"} => Outcome(w) = "failed"
BY DEF Outcome, Working, Leaving

(* A step of a capture to another label changes what is seen of it alone.   *)
LEMMA OutcomeAfter ==
  ASSUME TypeOK, NEW w \in Writers, NEW label \in Steps, pc' = [pc EXCEPT ![w] = label]
  PROVE  Ended' = [Ended EXCEPT ![w] = IF label \in Working \cup {"create"} THEN "running"
                                       ELSE IF label = "succeeded" THEN "succeeded"
                                       ELSE "failed"]
<1>1. \A v \in Writers : Outcome(v)' = IF v = w
                                       THEN IF label \in Working \cup {"create"} THEN "running"
                                            ELSE IF label = "succeeded" THEN "succeeded"
                                            ELSE "failed"
                                       ELSE Outcome(v)
  BY DEF TypeOK, Outcome, Steps, Working
<1> QED
  BY <1>1 DEF Ended

(* Every step puts a whole snapshot under its name, gives up, renames, or   *)
(* is not seen at all.                                                     *)
LEMMA FilesStep == IInv /\ IInv' /\ [Next]_vars => [Atomic!FilesNext]_Atomic!filesVars
<1> SUFFICES ASSUME IInv, IInv', [Next]_vars
             PROVE  [Atomic!FilesNext]_Atomic!filesVars
  OBVIOUS
<1>1. Seen = There /\ Seen' = There'
  BY NothingTorn, NothingTornAfter
<1> USE DEF Goto
<1>i. TypeOK
  BY DEF IInv
<1>2. ASSUME NEW w \in Writers, pc[w] \in Working \cup {"create"},
             NEW label \in Leaving \cup {"failed"}, pc' = [pc EXCEPT ![w] = label],
             There' = There
      PROVE  Atomic!GiveUp(w)
  <2>1. Ended' = [Ended EXCEPT ![w] = "failed"]
    BY <1>i, <1>2, OutcomeAfter DEF Working, Leaving, Steps
  <2>2. Ended[w] = "running"
    BY <1>2, OutcomeOf DEF Ended
  <2> QED
    BY <1>1, <1>2, <2>1, <2>2 DEF Atomic!GiveUp, Seen, Ended
<1>3. ASSUME NEW w \in Writers, WriteSnapshot(w)
      PROVE  [Atomic!FilesNext]_Atomic!filesVars
  <2>w. pc[w] \in Working =>
          temporary[w] \in Temporaries /\ files[temporary[w]] = w
    BY DEF IInv, WriterInv
  <2>t. Target[w] \in Names
    BY FilesAssumption
  <2>1. CASE MoveIntoPlace(w)
    <3>1. /\ pc[w] = "rename" /\ pc' = [pc EXCEPT ![w] = "succeeded"]
          /\ temporary[w] \in Temporaries
          /\ files' = [files EXCEPT ![Target[w]] = w, ![temporary[w]] = NoFile]
      BY <2>1, <2>w DEF MoveIntoPlace, Working
    <3>2. There' = [There EXCEPT ![Target[w]] = w]
      BY <1>i, <2>t, <3>1, Apart DEF There, TypeOK
    <3>3. Ended[w] = "running"
      BY <3>1, OutcomeOf DEF Ended, Working
    <3>4. Ended' = [Ended EXCEPT ![w] = "succeeded"]
      BY <1>i, <3>1, OutcomeAfter DEF Steps, Working
    <3>5. Atomic!Publish(w)
      BY <1>1, <3>2, <3>3, <3>4 DEF Atomic!Publish, Seen, Ended
    <3> QED
      BY <3>5 DEF Atomic!FilesNext
  <2>2. CASE Remove(w)
    <3>1. There' = There
      BY <1>i, <2>2, <2>w, Apart DEF Remove, There, TypeOK, Working
    <3>2. Atomic!GiveUp(w)
      BY <1>2, <2>2, <3>1 DEF Remove, Working, Leaving
    <3> QED
      BY <3>2 DEF Atomic!FilesNext
  <2>3. CASE CreateFails(w) \/ RemoveFails(w) \/ Kill(w)
    <3>1. There' = There
      BY <2>3 DEF CreateFails, RemoveFails, Kill, There
    <3>2. /\ pc[w] \in Working \cup {"create"}
          /\ \E label \in Leaving \cup {"failed"} : pc' = [pc EXCEPT ![w] = label]
      BY <2>3 DEF CreateFails, RemoveFails, Kill, Working, Leaving
    <3>3. Atomic!GiveUp(w)
      BY <1>2, <3>1, <3>2
    <3> QED
      BY <3>3 DEF Atomic!FilesNext
  <2>4. CASE \/ Create(w) \/ Encode(w) \/ EncodeFails(w) \/ Close(w) \/ CloseFails(w)
             \/ MoveFails(w)
    <3>1. There' = There
      <4>1. CASE Create(w)
        BY <1>i, <4>1, Apart DEF Create, There, TypeOK
      <4>2. CASE ~Create(w)
        BY <2>4, <4>2 DEF Encode, EncodeFails, Close, CloseFails, MoveFails, There
      <4> QED
        BY <4>1, <4>2
    <3>2. /\ pc[w] \in Working \cup {"create"}
          /\ \E label \in Working : pc' = [pc EXCEPT ![w] = label]
      BY <1>i, <2>4
         DEF Create, Encode, EncodeFails, Close, CloseFails, MoveFails, Working, TypeOK
    <3>3. Ended[w] = "running"
      BY <3>2, OutcomeOf DEF Ended
    <3>4. Ended' = [Ended EXCEPT ![w] = "running"]
      BY <1>i, <3>2, OutcomeAfter DEF Steps, Working
    <3>5. Ended' = Ended
      BY <3>3, <3>4 DEF Ended
    <3> QED
      BY <1>1, <3>1, <3>5 DEF Atomic!filesVars, Seen, Ended
  <2> QED
    BY <1>3, <2>1, <2>2, <2>3, <2>4 DEF WriteSnapshot
<1>4. ASSUME NEW from \in Names, NEW to \in Names, MoveFile(from, to)
      PROVE  [Atomic!FilesNext]_Atomic!filesVars
  <2>1. /\ from # to /\ There[from] # NoFile
        /\ There' = [There EXCEPT ![to] = There[from], ![from] = NoFile]
    BY <1>i, <1>4 DEF MoveFile, There, TypeOK
  <2>2. Ended' = Ended
    BY <1>4 DEF MoveFile, writerVars, Ended, Outcome
  <2>3. Atomic!Rename(from, to)
    BY <1>1, <2>1, <2>2 DEF Atomic!Rename, Seen, Ended
  <2> QED
    BY <2>3 DEF Atomic!FilesNext
<1>5. ASSUME UNCHANGED <<files, pc>> PROVE [Atomic!FilesNext]_Atomic!filesVars
  <2>1. There' = There /\ Ended' = Ended
    BY <1>5 DEF There, Ended, Outcome
  <2> QED
    BY <1>1, <2>1 DEF Atomic!filesVars, Seen, Ended
<1>6. ASSUME NEW r \in Readers, ReadSnapshot(r) PROVE UNCHANGED <<files, pc>>
  BY <1>6 DEF ReadSnapshot, Open, Opened, OpenFails, DecodeFile, writerVars
<1> QED
  BY <1>3, <1>4, <1>5, <1>6 DEF Next, vars, writerVars

(* The store is a set of atomic files, for any number of captures, readers *)
(* and paths, whatever calls fail and whoever is killed.                   *)
THEOREM StoreIsAtomic == Spec => ImplementsAtomicFiles
BY FilesInitial, FilesStep, Inductive, PTL
   DEF Spec, ImplementsAtomicFiles, Atomic!FilesSpec
=============================================================================
