--------------------------- MODULE FileStoreProofs ---------------------------
(***************************************************************************)
(* Proofs about FileStore for every set of paths, versions and workers and *)
(* every value of the bounds.  Whoever writes: its types, the directories  *)
(* and the keys of the guard.  With one transfer per path: that rows       *)
(* describe files, what an answered upload means, and the implementation   *)
(* of RemoteStore.                                                         *)
(***************************************************************************)
EXTENDS FileStore, SequenceTheorems, TLAPS

----------------------------------------------------------------------------
(* Sequences of segments.                                                  *)

Data == Seq(Version \X Nat)
RowType == [last : Nat, meta : Version \cup {NoMeta}]

(* The first n segments of v. *)
Upto(v, n) == [i \in 1 .. n |-> <<v, i - 1>>]

(* Upto is a sequence of n segments. *)
LEMMA UptoIsData ==
    ASSUME NEW v \in Version, NEW n \in Nat
    PROVE  Upto(v, n) \in Data /\ Len(Upto(v, n)) = n /\ (n = 0 => Upto(v, n) = <<>>)
<1>1. \A i \in 1 .. n : <<v, i - 1>> \in Version \X Nat
  OBVIOUS
<1>2. Upto(v, n) \in Data /\ Len(Upto(v, n)) = n
  BY <1>1 DEF Upto, Data
<1>3. n = 0 => Upto(v, n) = <<>>
  BY <1>2 DEF Data
<1> QED
  BY <1>2, <1>3

(* Sequences of segments concatenated. *)
LEMMA DataConcat ==
    ASSUME NEW s \in Data, NEW t \in Data
    PROVE  /\ s \o t \in Data /\ Len(s \o t) = Len(s) + Len(t)
           /\ \A i \in 1 .. Len(s) + Len(t) :
                (s \o t)[i] = IF i <= Len(s) THEN s[i] ELSE t[i - Len(s)]
BY ConcatProperties DEF Data

(* One more segment. *)
LEMMA UptoAppend ==
    ASSUME NEW v \in Version, NEW n \in Nat
    PROVE  Upto(v, n) \o << <<v, n>> >> = Upto(v, n + 1)
<1>1. ASSUME NEW a \in Data, NEW b \in Data, NEW c \in Data,
             Len(a) = n, Len(b) = 1, Len(c) = n + 1, b[1] = <<v, n>>,
             \A i \in 1 .. n : a[i] = <<v, i - 1>>,
             \A i \in 1 .. n + 1 : c[i] = <<v, i - 1>>
      PROVE  a \o b = c
  <2>1. /\ a \o b \in Data /\ Len(a \o b) = n + 1
        /\ \A i \in 1 .. n + 1 : (a \o b)[i] = IF i <= n THEN a[i] ELSE b[i - n]
    <3>1. /\ a \o b \in Data /\ Len(a \o b) = Len(a) + Len(b)
          /\ \A i \in 1 .. Len(a) + Len(b) :
               (a \o b)[i] = IF i <= Len(a) THEN a[i] ELSE b[i - Len(a)]
      BY DataConcat
    <3> QED
      BY <1>1, <3>1
  <2>2. ASSUME NEW i \in 1 .. n + 1 PROVE (a \o b)[i] = c[i]
    <3>1. CASE i \in 1 .. n
      <4>1. (a \o b)[i] = a[i]
        BY <2>1, <3>1
      <4>2. a[i] = <<v, i - 1>> /\ c[i] = <<v, i - 1>>
        BY <1>1, <3>1
      <4> QED
        BY <4>1, <4>2
    <3>2. CASE i = n + 1
      <4>1. (a \o b)[i] = b[1]
        BY <2>1, <3>2
      <4>2. c[i] = <<v, n>>
        BY <1>1, <3>2
      <4> QED
        BY <1>1, <4>1, <4>2
    <3>3. i \in 1 .. n \/ i = n + 1
      OBVIOUS
    <3> QED
      BY <3>1, <3>2, <3>3
  <2> QED
    BY <1>1, <2>1, <2>2, SeqEqual DEF Data
<1>2. /\ Upto(v, n) \in Data /\ Len(Upto(v, n)) = n
      /\ Upto(v, n + 1) \in Data /\ Len(Upto(v, n + 1)) = n + 1
  BY UptoIsData
<1>3. << <<v, n>> >> \in Data
  BY DEF Data
<1>4. /\ \A i \in 1 .. n : Upto(v, n)[i] = <<v, i - 1>>
      /\ \A i \in 1 .. n + 1 : Upto(v, n + 1)[i] = <<v, i - 1>>
  BY DEF Upto
<1> QED
  BY <1>1, <1>2, <1>3, <1>4

(* All segments of v. *)
LEMMA ContentIsUpto ==
    ASSUME NEW v \in Version
    PROVE  Content(v) = Upto(v, Segs[v]) /\ Content(v) \in Data /\ Len(Content(v)) = Segs[v]
BY UptoIsData, StoreAssumption DEF Content, Upto

(* What a request carries, and the file after it, are sequences. *)
LEMMA PieceIsData == ASSUME NEW j \in Job PROVE Piece(j) \in Data
<1>1. <<j.version, j.seg>> \in Version \X Nat
  BY DEF Job
<1> QED
  BY <1>1 DEF Piece, Data

LEMMA WrittenIsData ==
    ASSUME NEW j \in Job, NEW d \in Data
    PROVE  Written(j, d) \in Data
<1>1. Piece(j) \in Data /\ d \o Piece(j) \in Data
  BY PieceIsData, DataConcat
<1>2. CASE j.seg # 0 \/ d = <<>> \/ Piece(j) = <<>>
  BY <1>1, <1>2 DEF Written
<1>3. CASE ~(j.seg # 0 \/ d = <<>> \/ Piece(j) = <<>>)
  <2>1. Tail(d) \in Data
    BY <1>3, HeadTailProperties DEF Data
  <2> QED
    BY <1>1, <1>3, <2>1, DataConcat DEF Written
<1> QED
  BY <1>2, <1>3

----------------------------------------------------------------------------
(* Whoever writes.                                                         *)

Place == Inside \cup {"none", "next", "has", "add", "succeed", "fail"}

(* Where a worker may hold the key of its path. *)
Holding == Inside \cup {"succeed", "fail"}

(* The types of TypeOK, by name. *)
Typed ==
    /\ disk \in [Path -> Data \cup {NoFile}]
    /\ row \in [Path -> RowType \cup {NoRow}]
    /\ dirs \subseteq Path /\ guarded \subseteq Path
    /\ cleaner \in BOOLEAN
    /\ at \in [Worker -> Place]
    /\ job \in [Worker -> Job]
    /\ \A w \in Worker : job[w].seg = 0 \/ job[w].seg < Segs[job[w].version]
    /\ fd \subseteq Worker /\ erred \subseteq Worker /\ damaged \subseteq Path
    /\ clearing \in BOOLEAN
    /\ jobs \in 0 .. MaxJobs /\ crashes \in 0 .. MaxCrashes
    /\ errors \in 0 .. MaxErrors

(* A client that sends on has a segment to send. *)
NextNeeded ==
    \A w \in Worker : at[w] = "next" => job[w].op = "upload" /\ ~LastSent(job[w])

(* An open file is the one at its path, which exists. *)
FilesOpen ==
    \A w \in fd : at[w] = "write" /\ disk[PathOf(w)] # NoFile

(* clear() has stopped the workers. *)
ClearedAlone == clearing => \A w \in Worker : at[w] = "none"

(* A key of the guard belongs to a worker that has still to remove it. *)
KeysHeld ==
    \A p \in guarded : \E w \in Worker : at[w] \in Holding /\ PathOf(w) = p

(* Uploads write files, removals delete them. *)
OpFits ==
    \A w \in Worker :
        /\ at[w] \in {"check", "dirs", "open", "write", "record", "verify",
                      "discard", "discard_row", "meta"} => job[w].op = "upload"
        /\ at[w] \in {"unlink", "delete_row"} => job[w].op = "remove"
        /\ job[w].op = "remove" => job[w].seg = 0

Common ==
    /\ Typed /\ NextNeeded /\ FilesOpen /\ ClearedAlone /\ KeysHeld /\ OpFits
    /\ WriterKeepsDirectory

(* Typed says what TypeOK says. *)
LEMMA TypedIsTypeOK == Typed <=> TypeOK
BY DEF Typed, TypeOK, Data, RowType, Place

(* The sentinels are not data. *)
LEMMA Sentinels == NoFile \notin Data /\ NoRow \notin RowType /\ NoMeta \notin Version
BY StoreAssumption DEF Data, RowType

(* A file once open is a sequence of segments. *)
LEMMA OpenedIsData ==
    ASSUME Typed, NEW w \in Worker
    PROVE  Opened(w) \in Data
<1>1. <<>> \in Data
  BY DEF Data
<1> QED
  BY <1>1 DEF Typed, Opened, PathOf, Job

(* The row a segment leaves is a row, or none. *)
LEMMA RecordedIsRow ==
    ASSUME Typed, NEW w \in Worker
    PROVE  Recorded(w) \in RowType \cup {NoRow}
<1>1. job[w] \in Job /\ Row(w) \in RowType \cup {NoRow}
  BY DEF Typed, Row, PathOf, Job
<1>2. CASE job[w].seg = 0
  BY <1>2 DEF Recorded, RowType
<1>3. CASE job[w].seg # 0
  BY <1>1, <1>3 DEF Recorded, RowType, HasRow, Job
<1> QED
  BY <1>2, <1>3

(* The invariant holds initially. *)
LEMMA CommonInit == Init => Common
<1> SUFFICES ASSUME Init PROVE Common
  OBVIOUS
<1>1. job \in [Worker -> Job] /\ \A w \in Worker : job[w].op = "remove" /\ job[w].seg = 0
  BY DEF Init, Job
<1>2. Typed
  <2>1. /\ disk \in [Path -> Data \cup {NoFile}]
        /\ row \in [Path -> RowType \cup {NoRow}]
        /\ at \in [Worker -> Place]
    BY DEF Init, Place
  <2>2. cleaner \in BOOLEAN /\ clearing \in BOOLEAN
    <3>1. cleaner \in BOOLEAN
      BY DEF Init
    <3>2. clearing \in BOOLEAN
      BY DEF Init
    <3> QED
      BY <3>1, <3>2
  <2>3. jobs \in 0 .. MaxJobs /\ crashes \in 0 .. MaxCrashes /\ errors \in 0 .. MaxErrors
    BY StoreAssumption DEF Init
  <2> QED
    BY <1>1, <2>1, <2>2, <2>3 DEF Init, Typed
<1> QED
  BY <1>1, <1>2 DEF Init, Common, NextNeeded, FilesOpen, ClearedAlone, KeysHeld, OpFits,
     WriterKeepsDirectory

(* Every step keeps the types. *)
LEMMA TypedStep == Common /\ [Next]_vars => Typed'
<1> SUFFICES ASSUME Common, [Next]_vars PROVE Typed'
  OBVIOUS
<1>1. Typed
  BY DEF Common
<1>2. ASSUME NEW w \in Worker, BeginUpload(w) PROVE Typed'
  <2>1. PICK p \in Path, v \in Version :
          Begins(w, [op |-> "upload", path |-> p, version |-> v, seg |-> 0])
    BY <1>2 DEF BeginUpload
  <2>2. [op |-> "upload", path |-> p, version |-> v, seg |-> 0] \in Job
    BY DEF Job
  <2> QED
    BY <1>1, <2>1, <2>2, StoreAssumption DEF Begins, Typed, Goes, Place
<1>3. ASSUME NEW w \in Worker, BeginRemove(w) PROVE Typed'
  <2>1. PICK p \in Path :
          Begins(w, [job[w] EXCEPT !.op = "remove", !.path = p, !.seg = 0])
    BY <1>3 DEF BeginRemove
  <2>2. [job[w] EXCEPT !.op = "remove", !.path = p, !.seg = 0] \in Job
    BY <1>1 DEF Job, Typed
  <2>3. [job[w] EXCEPT !.op = "remove", !.path = p, !.seg = 0].seg = 0
    BY <1>1 DEF Job, Typed
  <2> QED
    BY <1>1, <2>1, <2>2, <2>3, StoreAssumption DEF Begins, Typed, Goes, Place
<1>4. ASSUME NEW w \in Worker, SendNext(w) PROVE Typed'
  <2>1. job' = [job EXCEPT ![w] = [job[w] EXCEPT !.seg = job[w].seg + 1]]
    BY <1>4 DEF SendNext
  <2>2. job[w] \in Job /\ Segs[job[w].version] \in Nat
    BY <1>1, StoreAssumption DEF Typed, Job
  <2>3. /\ [job[w] EXCEPT !.seg = job[w].seg + 1] \in Job
        /\ [job[w] EXCEPT !.seg = job[w].seg + 1].version = job[w].version
        /\ [job[w] EXCEPT !.seg = job[w].seg + 1].seg = job[w].seg + 1
    BY <2>2 DEF Job
  <2>4. job[w].seg + 1 < Segs[job[w].version]
    BY <1>4, <2>2 DEF Common, NextNeeded, SendNext, LastSent, Job
  <2>5. /\ job' \in [Worker -> Job]
        /\ \A x \in Worker : job'[x].seg = 0 \/ job'[x].seg < Segs[job'[x].version]
    BY <1>1, <2>1, <2>3, <2>4 DEF Typed
  <2>6. at' \in [Worker -> Place]
    BY <1>1, <1>4 DEF Typed, SendNext, Goes, Place
  <2> QED
    BY <1>1, <1>4, <2>5, <2>6 DEF SendNext, Around, History, Typed
<1>5. ASSUME NEW w \in Worker,
             GivesUp(w) \/ GuardTests(w) \/ CheckSegment(w) \/ OpenFails(w) \/ Verify(w)
      PROVE  Typed'
  BY <1>1, <1>5 DEF Typed, GivesUp, GuardTests, CheckSegment, OpenFails, Verify, Goes, Place,
     Inside, Around, History
<1>6. ASSUME NEW w \in Worker,
             GuardAdds(w) \/ CreateDirectories(w) \/ Succeeds(w) \/ Fails(w)
      PROVE  Typed'
  <2>1. PathOf(w) \in Path
    BY <1>1 DEF Typed, PathOf, Job
  <2> QED
    BY <1>1, <1>6, <2>1 DEF Typed, GuardAdds, CreateDirectories, Succeeds, Fails, KeyRemoved,
       Goes, Place, Inside, Around, History
<1>7. ASSUME NEW w \in Worker, OpenFile(w) PROVE Typed'
  <2>1. PathOf(w) \in Path /\ Opened(w) \in Data
    BY <1>1, OpenedIsData DEF Typed, PathOf, Job
  <2> QED
    BY <1>1, <1>7, <2>1 DEF Typed, OpenFile, Goes, Place, Inside, Around, History
<1>8. ASSUME NEW w \in Worker, WriteData(w) PROVE Typed'
  <2>1. PathOf(w) \in Path
    BY <1>1 DEF Typed, PathOf, Job
  <2>2. CASE w \in fd
    <3>1. disk[PathOf(w)] \in Data
      BY <1>1, <2>1, <2>2 DEF Common, FilesOpen, Typed
    <3>2. Written(job[w], disk[PathOf(w)]) \in Data
      BY <1>1, <3>1, WrittenIsData DEF Typed
    <3> QED
      BY <1>1, <1>8, <2>1, <2>2, <3>2 DEF Typed, WriteData, Goes, Place, Inside, Around, History
  <2>3. CASE w \notin fd
    BY <1>1, <1>8, <2>3 DEF Typed, WriteData, Goes, Place, Inside, Around, History
  <2> QED
    BY <2>2, <2>3
<1>9. ASSUME NEW w \in Worker, RecordSegment(w) PROVE Typed'
  <2>1. PathOf(w) \in Path /\ Recorded(w) \in RowType \cup {NoRow}
    BY <1>1, RecordedIsRow DEF Typed, PathOf, Job
  <2>2. AfterRecord(w) \in Place
    BY DEF AfterRecord, Place, Inside
  <2> QED
    BY <1>1, <1>9, <2>1, <2>2 DEF Typed, RecordSegment, Goes, Around, History
<1>10. ASSUME NEW w \in Worker, SaveMetadata(w) PROVE Typed'
  <2>1. PathOf(w) \in Path /\ job[w].version \in Version
    BY <1>1 DEF Typed, PathOf, Job
  <2>2. row' \in [Path -> RowType \cup {NoRow}]
    <3>1. CASE HasRow(w)
      <4>1. row[PathOf(w)] \in RowType
        BY <1>1, <2>1, <3>1 DEF Typed, HasRow, Row
      <4>2. [row[PathOf(w)] EXCEPT !.meta = job[w].version] \in RowType
        BY <2>1, <4>1 DEF RowType
      <4> QED
        BY <1>1, <1>10, <2>1, <3>1, <4>2 DEF Typed, SaveMetadata
    <3>2. CASE ~HasRow(w)
      BY <1>1, <1>10, <3>2 DEF Typed, SaveMetadata
    <3> QED
      BY <3>1, <3>2
  <2> QED
    BY <1>1, <1>10, <2>2 DEF Typed, SaveMetadata, Goes, Place, Around, History
<1>11. ASSUME NEW w \in Worker, Unlink(w) \/ Discard(w) PROVE Typed'
  <2>1. PathOf(w) \in Path
    BY <1>1 DEF Typed, PathOf, Job
  <2> QED
    BY <1>1, <1>11, <2>1 DEF Typed, Unlink, Discard, RemoveFile, Goes, Place, Inside, Around,
       History
<1>12. ASSUME NEW w \in Worker,
             DeleteRow(w, "delete_row", "succeed") \/ DeleteRow(w, "discard_row", "fail")
      PROVE  Typed'
  <2>1. PathOf(w) \in Path
    BY <1>1 DEF Typed, PathOf, Job
  <2> QED
    BY <1>1, <1>12, <2>1 DEF Typed, DeleteRow, RowDeleted, Goes, Place, Around, History
<1>13. ASSUME NEW w \in Worker, StepFails(w) \/ PrepareFails(w) PROVE Typed'
  <2>1. PathOf(w) \in Path
    BY <1>1 DEF Typed, PathOf, Job
  <2>2. PICK to \in Place : Refused(w, to)
    BY <1>13 DEF StepFails, PrepareFails, AfterRecord, Place, Inside
  <2> QED
    BY <1>1, <2>1, <2>2, StoreAssumption DEF Typed, Refused, Goes, Around
<1>14. CASE Cleanup
  BY <1>1, <1>14 DEF Typed, Cleanup, Around, History
<1>15. CASE Crash
  <2>1. crashes' \in 0 .. MaxCrashes
    BY <1>1, <1>15, StoreAssumption DEF Typed, Crash
  <2>2. damaged' \subseteq Path
    BY <1>1, <1>15 DEF Typed, Crash, PathOf, Job
  <2>3. at' \in [Worker -> Place]
    BY <1>15 DEF Crash, Place
  <2> QED
    BY <1>1, <1>15, <2>1, <2>2, <2>3 DEF Typed, Crash
<1>16. CASE ClearStops
  <2>1. at' \in [Worker -> Place]
    BY <1>16 DEF ClearStops, Place
  <2> QED
    BY <1>1, <1>16, <2>1 DEF Typed, ClearStops, History
<1>17. CASE ClearRows
  BY <1>1, <1>17 DEF Typed, ClearRows
<1>18. ASSUME NEW p \in Path, ClearFile(p) PROVE Typed'
  BY <1>1, <1>18 DEF Typed, ClearFile, Around
<1>19. CASE UNCHANGED vars
  BY <1>1, <1>19 DEF Typed, vars
<1> QED
  BY <1>2, <1>3, <1>4, <1>5, <1>6, <1>7, <1>8, <1>9, <1>10, <1>11, <1>12, <1>13, <1>14, <1>15,
     <1>16, <1>17, <1>18, <1>19 DEF Next, Serves

(* Where only uploads come. *)
UploadAt == {"check", "dirs", "open", "write", "record", "verify", "discard", "discard_row",
             "meta"}
RemoveAt == {"unlink", "delete_row"}

(* What a step of a request does to the control of its worker and to the   *)
(* guard.                                                                  *)
Moves(w, to) ==
    /\ Goes(w, to)
    /\ UNCHANGED <<cleaner, clearing, job, jobs, crashes>>
    /\ \/ at[w] = "has" /\ to \in {"add", "none"} /\ guarded' = guarded
       \/ /\ at[w] = "add" /\ guarded' = guarded \cup {PathOf(w)}
          /\ to = IF job[w].op = "upload" THEN "check" ELSE "unlink"
       \/ /\ at[w] \in UploadAt /\ guarded' = guarded
          /\ to \in (UploadAt \ {"check"}) \cup {"succeed", "fail"}
       \/ /\ at[w] \in RemoveAt /\ guarded' = guarded
          /\ to \in {"delete_row", "succeed", "fail"}
       \/ /\ at[w] \in {"succeed", "fail"} /\ guarded' = guarded \ {PathOf(w)}
          /\ \/ to = "none"
             \/ to = "next" /\ job[w].op = "upload" /\ ~LastSent(job[w])

(* Every step of a request is one of these. *)
LEMMA ServesMoves ==
    ASSUME Typed, OpFits, NEW w \in Worker, Serves(w)
    PROVE  \E to \in Place : Moves(w, to)
<1>1. ASSUME GuardTests(w) PROVE \E to \in Place : Moves(w, to)
  BY <1>1 DEF GuardTests, Moves, Goes, Place, Around
<1>2. ASSUME GuardAdds(w) PROVE \E to \in Place : Moves(w, to)
  BY <1>2 DEF GuardAdds, Moves, Goes, Place, Inside, Around
<1>3. ASSUME CheckSegment(w) \/ CreateDirectories(w) \/ OpenFile(w) \/ OpenFails(w)
             \/ WriteData(w)
      PROVE  \E to \in Place : Moves(w, to)
  BY <1>3 DEF CheckSegment, CreateDirectories, OpenFile, OpenFails, WriteData, Moves, Goes, Place,
     Inside, UploadAt, Around
<1>4. ASSUME RecordSegment(w) \/ Verify(w) \/ SaveMetadata(w)
      PROVE  \E to \in Place : Moves(w, to)
  BY <1>4 DEF RecordSegment, AfterRecord, Verify, SaveMetadata, Moves, Goes, Place, Inside,
     UploadAt, Around
<1>5. ASSUME Unlink(w) \/ Discard(w) \/ DeleteRow(w, "delete_row", "succeed")
             \/ DeleteRow(w, "discard_row", "fail")
      PROVE  \E to \in Place : Moves(w, to)
  BY <1>5 DEF Unlink, Discard, RemoveFile, DeleteRow, Moves, Goes, Place, Inside, UploadAt,
     RemoveAt, Around
<1>6. ASSUME StepFails(w) \/ PrepareFails(w) PROVE \E to \in Place : Moves(w, to)
  BY <1>6 DEF StepFails, PrepareFails, Refused, AfterRecord, Moves, Goes, Place, Inside, UploadAt,
     RemoveAt, Around
<1>7. ASSUME Succeeds(w) \/ Fails(w) PROVE \E to \in Place : Moves(w, to)
  BY <1>7 DEF Succeeds, KeyRemoved, Fails, Moves, Goes, Place, Around
<1> QED
  BY <1>1, <1>2, <1>3, <1>4, <1>5, <1>6, <1>7 DEF Serves

(* Every step keeps the rest of the invariant.                             *)
LEMMA CommonStep == Common /\ [Next]_vars => Common'
<1> SUFFICES ASSUME Common, [Next]_vars PROVE Common'
  OBVIOUS
<1>1. Typed /\ Typed'
  BY TypedStep DEF Common
<1> DEFINE Rest == /\ NextNeeded /\ FilesOpen /\ ClearedAlone /\ KeysHeld /\ OpFits
                  /\ WriterKeepsDirectory
<1>2. ASSUME NEW w \in Worker, BeginUpload(w) \/ BeginRemove(w) PROVE Rest'
  <2>1. PICK j \in Job : Begins(w, j) /\ j.seg = 0
    <3>1. CASE BeginUpload(w)
      <4>1. PICK p \in Path, v \in Version :
              Begins(w, [op |-> "upload", path |-> p, version |-> v, seg |-> 0])
        BY <3>1 DEF BeginUpload
      <4> DEFINE r == [op |-> "upload", path |-> p, version |-> v, seg |-> 0]
      <4>2. r \in Job /\ r.seg = 0
        BY DEF Job
      <4> QED
        BY <4>1, <4>2
    <3>2. CASE BeginRemove(w)
      <4>1. PICK p \in Path :
              Begins(w, [job[w] EXCEPT !.op = "remove", !.path = p, !.seg = 0])
        BY <3>2 DEF BeginRemove
      <4> DEFINE r == [job[w] EXCEPT !.op = "remove", !.path = p, !.seg = 0]
      <4>2. r \in Job /\ r.seg = 0
        BY <1>1 DEF Typed, Job
      <4> QED
        BY <4>1, <4>2
    <3> QED
      BY <1>2, <3>1, <3>2
  <2>2. /\ at[w] = "none" /\ ~clearing /\ UNCHANGED <<disk, row, dirs, guarded, fd, clearing>>
        /\ job' = [job EXCEPT ![w] = j] /\ at' = [at EXCEPT ![w] = "has"]
    BY <2>1 DEF Begins, Goes
  <2>3. \A x \in Worker \ {w} : at'[x] = at[x] /\ job'[x] = job[x] /\ PathOf(x)' = PathOf(x)
    BY <1>1, <2>2 DEF Typed, PathOf
  <2>4. at'[w] = "has" /\ job'[w] = j
    BY <1>1, <2>2 DEF Typed
  <2>5. \A x \in Worker : at[x] \in Holding => x # w
    BY <2>2 DEF Holding, Inside
  <2>6. w \notin fd
    BY <2>2 DEF Common, FilesOpen
  <2>7. NextNeeded'
    BY <2>3, <2>4 DEF Common, NextNeeded, LastSent
  <2>8. FilesOpen'
    BY <1>1, <2>2, <2>3, <2>6 DEF Common, FilesOpen, Typed
  <2>9. ClearedAlone'
    BY <2>2 DEF ClearedAlone
  <2>10. KeysHeld'
    BY <2>2, <2>3, <2>5 DEF Common, KeysHeld
  <2>11. OpFits'
    BY <2>1, <2>3, <2>4 DEF Common, OpFits
  <2>12. WriterKeepsDirectory'
    BY <2>2, <2>3, <2>4 DEF Common, WriterKeepsDirectory
  <2> QED
    BY <2>7, <2>8, <2>9, <2>10, <2>11, <2>12

<1>3. ASSUME NEW w \in Worker, SendNext(w) PROVE Rest'
  <2>1. /\ at[w] = "next" /\ UNCHANGED <<disk, row, dirs, guarded, fd, clearing>>
        /\ job' = [job EXCEPT ![w] = [job[w] EXCEPT !.seg = job[w].seg + 1]]
        /\ at' = [at EXCEPT ![w] = "has"]
    BY <1>3 DEF SendNext, Goes, Around
  <2>2. \A x \in Worker \ {w} : at'[x] = at[x] /\ job'[x] = job[x] /\ PathOf(x)' = PathOf(x)
    BY <1>1, <2>1 DEF Typed, PathOf
  <2>3. at'[w] = "has" /\ job'[w].op = "upload"
    BY <1>1, <2>1 DEF Typed, Job, Common, NextNeeded
  <2>4. \A x \in Worker : at[x] \in Holding => x # w
    BY <2>1 DEF Holding, Inside
  <2>5. w \notin fd /\ ~clearing
    BY <2>1 DEF Common, FilesOpen, ClearedAlone
  <2>6. NextNeeded'
    BY <2>2, <2>3 DEF Common, NextNeeded, LastSent
  <2>7. FilesOpen'
    BY <1>1, <2>1, <2>2, <2>5 DEF Common, FilesOpen, Typed
  <2>8. ClearedAlone'
    BY <2>1, <2>5 DEF ClearedAlone
  <2>9. KeysHeld'
    BY <2>1, <2>2, <2>4 DEF Common, KeysHeld
  <2>10. OpFits'
    BY <2>2, <2>3 DEF Common, OpFits
  <2>11. WriterKeepsDirectory'
    BY <2>1, <2>2, <2>3 DEF Common, WriterKeepsDirectory
  <2> QED
    BY <2>6, <2>7, <2>8, <2>9, <2>10, <2>11
<1>4. ASSUME NEW w \in Worker, GivesUp(w) PROVE Rest'
  <2>1. /\ at[w] = "next" /\ UNCHANGED <<disk, row, dirs, guarded, fd, job, clearing>>
        /\ at' = [at EXCEPT ![w] = "none"]
    BY <1>4 DEF GivesUp, Goes, Around
  <2>2. /\ \A x \in Worker \ {w} : at'[x] = at[x]
        /\ at'[w] = "none"
    BY <1>1, <2>1 DEF Typed
  <2>3. \A x \in Worker : at[x] \in Holding => x # w
    BY <2>1 DEF Holding, Inside
  <2>4. w \notin fd /\ ~clearing
    BY <2>1 DEF Common, FilesOpen, ClearedAlone
  <2>5. KeysHeld'
    BY <2>1, <2>2, <2>3 DEF Common, KeysHeld, PathOf
  <2>6. NextNeeded' /\ OpFits' /\ ClearedAlone'
    BY <2>1, <2>2, <2>4 DEF Common, NextNeeded, OpFits, ClearedAlone
  <2>7. FilesOpen' /\ WriterKeepsDirectory'
    BY <1>1, <2>1, <2>2, <2>4 DEF Common, FilesOpen, WriterKeepsDirectory, PathOf, Typed
  <2> QED
    BY <2>5, <2>6, <2>7
<1>5. ASSUME NEW w \in Worker, Serves(w) PROVE Rest'
  <2>1. PICK to \in Place : Moves(w, to)
    BY <1>1, <1>5, ServesMoves DEF Common
  <2>2. /\ at'[w] = to /\ \A x \in Worker \ {w} : at'[x] = at[x]
        /\ job' = job /\ clearing' = clearing
        /\ \A x \in Worker : PathOf(x)' = PathOf(x)
    BY <1>1, <2>1 DEF Moves, Goes, Typed, PathOf
  <2>3. ~clearing
    BY <2>1 DEF Moves, Common, ClearedAlone, UploadAt, RemoveAt
  <2>4. NextNeeded'
    BY <2>1, <2>2 DEF Common, NextNeeded, Moves, UploadAt, LastSent
  <2>5. ClearedAlone'
    BY <2>2, <2>3 DEF ClearedAlone
  <2>6. OpFits'
    BY <1>1, <2>1, <2>2 DEF Common, OpFits, Moves, UploadAt, RemoveAt, Typed, Job
  <2>7. KeysHeld'
    <3>1. CASE at[w] \in Holding /\ to \in Holding /\ guarded' = guarded
      BY <2>2, <3>1 DEF Common, KeysHeld
    <3>2. CASE to \in Holding /\ at[w] \notin Holding /\ guarded' = guarded \cup {PathOf(w)}
      BY <2>2, <3>2 DEF Common, KeysHeld
    <3>3. CASE guarded' = guarded \ {PathOf(w)}
      BY <2>2, <3>3 DEF Common, KeysHeld
    <3>4. CASE at[w] \notin Holding /\ guarded' = guarded
      BY <2>2, <3>4 DEF Common, KeysHeld
    <3> QED
      BY <2>1, <3>1, <3>2, <3>3, <3>4 DEF Moves, Holding, Inside, UploadAt, RemoveAt
  <2>8. FilesOpen'
    <3>1. CASE OpenFile(w)
      <4>1. Opened(w) \in Data
        BY <1>1, OpenedIsData
      <4>2. \A p \in Path : disk[p] # NoFile => disk'[p] # NoFile
        BY <1>1, <3>1, <4>1, Sentinels DEF OpenFile, Typed
      <4>3. disk'[PathOf(w)] # NoFile /\ to = "write" /\ fd' = fd \cup {w}
        BY <1>1, <2>2, <3>1, <4>1, Sentinels DEF OpenFile, Goes, Typed, Job, PathOf
      <4> QED
        BY <1>1, <2>2, <4>2, <4>3 DEF Common, FilesOpen, Typed, Job, PathOf
    <3>2. CASE WriteData(w)
      <4>1. ASSUME NEW x \in fd' PROVE x \in fd /\ x # w /\ x \in Worker
        BY <1>1, <3>2, <4>1 DEF WriteData, Typed
      <4>2. ASSUME NEW x \in fd' PROVE disk'[PathOf(x)] # NoFile
        <5>1. CASE w \in fd /\ PathOf(x) = PathOf(w)
          <6>1. disk[PathOf(w)] \in Data /\ PathOf(w) \in Path
            BY <1>1, <5>1 DEF Common, FilesOpen, Typed, PathOf, Job
          <6>2. Written(job[w], disk[PathOf(w)]) \in Data
            BY <1>1, <6>1, WrittenIsData DEF Typed
          <6> QED
            BY <1>1, <3>2, <5>1, <6>1, <6>2, Sentinels DEF WriteData, Typed
        <5>2. CASE ~(w \in fd /\ PathOf(x) = PathOf(w))
          BY <1>1, <3>2, <4>1, <5>2 DEF WriteData, Typed, Common, FilesOpen
        <5> QED
          BY <5>1, <5>2
      <4> QED
        BY <2>2, <4>1, <4>2 DEF Common, FilesOpen
    <3>3. CASE Unlink(w) \/ Discard(w)
      <4>1. /\ at[w] # "write"
            /\ \A x \in fd' : x \in fd /\ PathOf(x) # PathOf(w)
            /\ \A p \in Path : p # PathOf(w) => disk'[p] = disk[p]
        BY <1>1, <3>3 DEF Unlink, Discard, RemoveFile, Typed
      <4> QED
        BY <1>1, <2>2, <4>1 DEF Common, FilesOpen, Typed, Job, PathOf
    <3>4. CASE ~(OpenFile(w) \/ WriteData(w) \/ Unlink(w) \/ Discard(w))
      <4>1. disk' = disk /\ fd' = fd /\ at[w] # "write"
        BY <1>5, <3>4 DEF Serves, GuardTests, GuardAdds, CheckSegment, CreateDirectories, OpenFails,
           RecordSegment, Verify, SaveMetadata, DeleteRow, StepFails, PrepareFails, Refused,
           Succeeds, Fails
      <4> QED
        BY <1>1, <2>2, <4>1 DEF Common, FilesOpen, Typed
    <3> QED
      BY <3>1, <3>2, <3>3, <3>4
  <2>9. WriterKeepsDirectory'
    <3>1. CASE CreateDirectories(w)
      BY <2>2, <3>1 DEF CreateDirectories, Common, WriterKeepsDirectory
    <3>2. CASE ~CreateDirectories(w)
      <4>1. dirs' = dirs /\ to # "open"
        BY <1>1, <1>5, <2>2, <3>2 DEF Serves, GuardTests, GuardAdds, CheckSegment, OpenFile, OpenFails,
           WriteData, Unlink, Discard, RemoveFile, RecordSegment, AfterRecord, Verify, SaveMetadata,
           DeleteRow, StepFails, PrepareFails, Refused, Succeeds, Fails, Goes, Typed
      <4> QED
        BY <2>2, <4>1 DEF Common, WriterKeepsDirectory
    <3> QED
      BY <3>1, <3>2
  <2> QED
    BY <2>4, <2>5, <2>6, <2>7, <2>8, <2>9
<1>6. ASSUME Cleanup PROVE Rest'
  <2>1. /\ UNCHANGED <<disk, row, guarded, at, job, fd, clearing>>
        /\ \A x \in Worker : at[x] # "open"
    BY <1>6 DEF Cleanup, Exclusive, Inside, Around
  <2> QED
    BY <2>1 DEF Common, NextNeeded, FilesOpen, ClearedAlone, KeysHeld, OpFits,
       WriterKeepsDirectory, PathOf, LastSent
<1>7. ASSUME Crash PROVE Rest'
  <2>1. /\ \A x \in Worker : at'[x] = "none"
        /\ guarded' = {} /\ fd' = {} /\ job' = job
    BY <1>7 DEF Crash
  <2> QED
    BY <2>1 DEF Common, NextNeeded, FilesOpen, ClearedAlone, KeysHeld, OpFits,
       WriterKeepsDirectory
<1>8. ASSUME ClearStops PROVE Rest'
  <2>1. /\ \A x \in Worker : at'[x] = "none" /\ at[x] \notin Holding /\ at[x] # "write"
        /\ guarded' = guarded /\ fd' = fd /\ job' = job
    BY <1>8 DEF ClearStops, Busy, Holding, Inside, History
  <2>2. fd = {} /\ guarded = {}
    BY <1>1, <2>1 DEF Common, FilesOpen, KeysHeld, Typed
  <2> QED
    BY <2>1, <2>2 DEF Common, NextNeeded, FilesOpen, ClearedAlone, KeysHeld, OpFits,
       WriterKeepsDirectory
<1>9. ASSUME ClearRows \/ \E p \in Path : ClearFile(p) PROVE Rest'
  <2>1. clearing /\ UNCHANGED <<at, job, fd, guarded>>
    BY <1>9 DEF ClearRows, ClearFile
  <2>2. /\ \A x \in Worker : at[x] = "none"
        /\ fd = {} /\ guarded = {}
    <3>1. \A x \in Worker : at[x] = "none"
      BY <2>1 DEF Common, ClearedAlone
    <3> QED
      BY <1>1, <3>1 DEF Common, FilesOpen, KeysHeld, Typed, Holding, Inside
  <2> QED
    BY <2>1, <2>2 DEF Common, NextNeeded, FilesOpen, ClearedAlone, KeysHeld, OpFits,
       WriterKeepsDirectory
<1>10. ASSUME UNCHANGED vars PROVE Rest'
  BY <1>10 DEF vars, Common, NextNeeded, FilesOpen, ClearedAlone, KeysHeld, OpFits,
     WriterKeepsDirectory, PathOf, LastSent
<1>11. Rest'
  BY <1>2, <1>3, <1>4, <1>5, <1>6, <1>7, <1>8, <1>9, <1>10 DEF Next
<1> QED
  BY <1>1, <1>11 DEF Common

(* Common is an invariant. *)
THEOREM StoreCommon == Spec => []Common
<1> QED
  BY CommonInit, CommonStep, PTL DEF Spec

(* The types, for every set of paths, versions and workers. *)
THEOREM StoreTypeCorrect == Spec => []TypeOK
<1>1. Common => TypeOK
  BY TypedIsTypeOK DEF Common
<1> QED
  BY <1>1, StoreCommon, PTL

(* The guard on a path outlives no request: once nobody works for the path *)
(* its key is gone, whichever way the request ended.                       *)
THEOREM StoreReleasesGuards == Spec => []GuardsReleased
<1>1. Common => GuardsReleased
  <2> SUFFICES ASSUME Common, NEW p \in Path, AtRest(p), p \in guarded PROVE FALSE
    BY DEF GuardsReleased
  <2>1. PICK w \in Worker : at[w] \in Holding /\ PathOf(w) = p
    BY DEF Common, KeysHeld
  <2>2. Busy(w)
    BY <2>1 DEF Busy, Holding, Inside
  <2> QED
    BY <2>1, <2>2 DEF AtRest, PathOf
<1> QED
  BY <1>1, StoreCommon, PTL

(* A directory made for a file is there when the file is opened: neither   *)
(* the cleaner nor clear() comes between.                                  *)
THEOREM StoreKeepsDirectory == Spec => []WriterKeepsDirectory
<1>1. Common => WriterKeepsDirectory
  BY DEF Common
<1> QED
  BY <1>1, StoreCommon, PTL

----------------------------------------------------------------------------
(* One transfer per path: the inductive invariant.                         *)

(* The file before and after the segment of a request is written. *)
Before(j) == Upto(j.version, j.seg)
After(j) == Before(j) \o Piece(j)

RowOf(n, m) == [last |-> n, meta |-> m]

(* The rows that may stand for the file after request j. *)
Reported(j) ==
    {RowOf(j.seg, NoMeta)} \cup {RowOf(j.seg, v) : v \in {x \in {j.version} : Final(j)}}

Alike(p, v, n) == [op |-> "upload", path |-> p, version |-> v, seg |-> n]

(* File and row of p agree: both absent, or the file holds the segments up *)
(* to the one the row counts, and all of them if the row has metadata.     *)
Agree(p) ==
    \/ disk[p] = NoFile /\ row[p] = NoRow
    \/ \E v \in Version : \E n \in 0 .. Segs[v] :
         disk[p] = After(Alike(p, v, n)) /\ row[p] \in Reported(Alike(p, v, n))

PathInv(p) ==
    p \notin damaged /\ (\A w \in Worker : at[w] \in TornAt => PathOf(w) # p) => Agree(p)

(* What the worker has not lost sight of: its path was left apart neither  *)
(* before this request nor by it.                                          *)
Tracked(w) == w \notin erred \/ PathOf(w) \notin damaged

(* What file and row of its path are at each place of a worker. *)
Stands(w) ==
    /\ at[w] = "next" =>
         disk[PathOf(w)] = After(job[w]) /\ Row(w) = RowOf(job[w].seg, NoMeta)
    /\ at[w] \in {"has", "add", "check", "dirs", "open", "write"} /\ job[w].seg # 0 =>
         disk[PathOf(w)] = Before(job[w]) /\ Row(w) = RowOf(job[w].seg - 1, NoMeta)
    /\ at[w] = "write" => w \in fd /\ disk[PathOf(w)] = Before(job[w])
    /\ at[w] = "record" =>
         /\ disk[PathOf(w)] = After(job[w])
         /\ job[w].seg # 0 => Row(w) = RowOf(job[w].seg - 1, NoMeta)
    /\ at[w] \in {"verify", "meta"} =>
         /\ disk[PathOf(w)] = After(job[w]) /\ Row(w) = RowOf(job[w].seg, NoMeta)
         /\ Final(job[w])
    /\ at[w] \notin {"discard", "discard_row"}
    /\ at[w] = "delete_row" => disk[PathOf(w)] = NoFile
    /\ at[w] = "succeed" /\ job[w].op = "upload" =>
         /\ disk[PathOf(w)] = After(job[w]) /\ Row(w) \in Reported(job[w])
         /\ Final(job[w]) /\ w \notin erred => Row(w) = RowOf(job[w].seg, job[w].version)
    /\ at[w] = "succeed" /\ job[w].op = "remove" =>
         disk[PathOf(w)] = NoFile /\ Row(w) = NoRow

WorkerInv(w) == at[w] # "none" /\ Tracked(w) => Stands(w)

(* No two workers are at work for one path. *)
OneTransfer ==
    \A w, x \in Worker :
        w # x /\ at[w] # "none" /\ at[x] # "none" => PathOf(w) # PathOf(x)

Single ==
    /\ OneTransfer
    /\ \A p \in Path : PathInv(p)
    /\ \A w \in Worker : WorkerInv(w)

----------------------------------------------------------------------------
(* Steps that concern one path.                                            *)

(* A step of w that leaves the other paths and their workers alone. *)
Local(w, P) ==
    /\ P \in Path /\ PathOf(w)' = P
    /\ at[w] # "none" => PathOf(w) = P
    /\ \A x \in Worker \ {w} :
         /\ at'[x] = at[x] /\ job'[x] = job[x]
         /\ x \in erred' <=> x \in erred
         /\ at[x] # "none" => PathOf(x) # P
         /\ PathOf(x) # P => (x \in fd' <=> x \in fd)
    /\ \A p \in Path \ {P} :
         disk'[p] = disk[p] /\ row'[p] = row[p] /\ (p \in damaged' <=> p \in damaged)

(* Such a step preserves what is said of the others. *)
LEMMA Elsewhere ==
    ASSUME Typed, Single, NEW w \in Worker, NEW P, Local(w, P), PathInv(P)', WorkerInv(w)'
    PROVE  Single'
<1>1. \A x \in Worker \ {w} : PathOf(x)' = PathOf(x)
  BY DEF Local, PathOf
<1>2. OneTransfer'
  BY <1>1 DEF Single, OneTransfer, Local
<1>3. ASSUME NEW p \in Path PROVE PathInv(p)'
  <2>1. CASE p = P
    BY <2>1
  <2>2. CASE p # P
    <3>1. /\ disk'[p] = disk[p] /\ row'[p] = row[p]
          /\ p \in damaged' <=> p \in damaged
      BY <2>2 DEF Local
    <3>2. (\A x \in Worker : at'[x] \in TornAt => PathOf(x)' # p)
            => \A x \in Worker : at[x] \in TornAt => PathOf(x) # p
      BY <1>1, <2>2 DEF Local, TornAt
    <3>3. Agree(p) => Agree(p)'
      BY <3>1 DEF Agree
    <3> QED
      BY <3>1, <3>2, <3>3 DEF Single, PathInv
  <2> QED
    BY <2>1, <2>2
<1>4. ASSUME NEW x \in Worker PROVE WorkerInv(x)'
  <2>1. CASE x = w
    BY <2>1
  <2>2. CASE x # w /\ at[x] # "none"
    <3>1. PathOf(x) \in Path /\ PathOf(x) # P
      BY <2>2 DEF Local, Typed, PathOf, Job
    <3>2. /\ at'[x] = at[x] /\ job'[x] = job[x] /\ PathOf(x)' = PathOf(x)
          /\ x \in erred' <=> x \in erred
          /\ x \in fd' <=> x \in fd
          /\ disk'[PathOf(x)] = disk[PathOf(x)] /\ row'[PathOf(x)] = row[PathOf(x)]
          /\ PathOf(x) \in damaged' <=> PathOf(x) \in damaged
      BY <1>1, <2>2, <3>1 DEF Local
    <3>3. Tracked(x)' => Tracked(x)
      BY <3>2 DEF Tracked
    <3>4. Stands(x) => Stands(x)'
      BY <3>2 DEF Stands, Row
    <3> QED
      BY <2>2, <3>3, <3>4 DEF Single, WorkerInv
  <2>3. CASE x # w /\ at[x] = "none"
    BY <2>3 DEF Local, WorkerInv
  <2> QED
    BY <2>1, <2>2, <2>3
<1> QED
  BY <1>2, <1>3, <1>4 DEF Single

(* Every step of a request concerns the path of the request alone. *)
LEMMA ServesIsLocal ==
    ASSUME Common, Single, NEW w \in Worker, Serves(w)
    PROVE  Local(w, PathOf(w)) /\ at[w] # "none" /\ job' = job
<1>1. Typed /\ PathOf(w) \in Path
  BY DEF Common, Typed, PathOf, Job
<1>2. PICK to \in Place : Moves(w, to)
  BY ServesMoves DEF Common
<1>3. /\ at[w] # "none" /\ PathOf(w)' = PathOf(w) /\ job' = job
      /\ \A x \in Worker \ {w} : at'[x] = at[x]
  BY <1>1, <1>2 DEF Moves, Goes, Typed, PathOf, UploadAt, RemoveAt
<1>4. \A x \in Worker \ {w} : x \in erred' <=> x \in erred
  BY DEF Serves, GuardTests, GuardAdds, CheckSegment, CreateDirectories, OpenFile, OpenFails,
     WriteData, RecordSegment, Verify, SaveMetadata, Unlink, Discard, RemoveFile, DeleteRow,
     StepFails, PrepareFails, Refused, Succeeds, Fails, History
<1>5. \A p \in Path \ {PathOf(w)} : disk'[p] = disk[p]
  BY <1>1 DEF Serves, GuardTests, GuardAdds, CheckSegment, CreateDirectories, OpenFile, OpenFails,
     WriteData, RecordSegment, Verify, SaveMetadata, Unlink, Discard, RemoveFile, DeleteRow,
     StepFails, PrepareFails, Refused, Succeeds, Fails, Typed
<1>6. \A p \in Path \ {PathOf(w)} : row'[p] = row[p]
  BY <1>1 DEF Serves, GuardTests, GuardAdds, CheckSegment, CreateDirectories, OpenFile, OpenFails,
     WriteData, RecordSegment, Verify, SaveMetadata, Unlink, Discard, RemoveFile, DeleteRow,
     RowDeleted, StepFails, PrepareFails, Refused, Succeeds, Fails, Typed
<1>7. \A p \in Path \ {PathOf(w)} : p \in damaged' <=> p \in damaged
  BY DEF Serves, GuardTests, GuardAdds, CheckSegment, CreateDirectories, OpenFile, OpenFails,
     WriteData, RecordSegment, Verify, SaveMetadata, Unlink, Discard, RemoveFile, DeleteRow,
     StepFails, PrepareFails, Refused, Succeeds, Fails, History
<1>8. \A x \in Worker \ {w} : PathOf(x) # PathOf(w) => (x \in fd' <=> x \in fd)
  BY DEF Serves, GuardTests, GuardAdds, CheckSegment, CreateDirectories, OpenFile, OpenFails,
     WriteData, RecordSegment, Verify, SaveMetadata, Unlink, Discard, RemoveFile, DeleteRow,
     StepFails, PrepareFails, Refused, Succeeds, Fails
<1> QED
  BY <1>1, <1>3, <1>4, <1>5, <1>6, <1>7, <1>8 DEF Local, Single, OneTransfer

----------------------------------------------------------------------------
(* Steps of a request.                                                     *)

(* What the file holds depends on version and segment only. *)
LEMMA AgreesWithJob ==
    ASSUME NEW j \in Job, j.seg = 0 \/ j.seg < Segs[j.version]
    PROVE  \E v \in Version : \E n \in 0 .. Segs[v] :
             After(Alike(j.path, v, n)) = After(j) /\ Reported(Alike(j.path, v, n)) = Reported(j)
<1>1. j.version \in Version /\ j.seg \in 0 .. Segs[j.version]
  BY StoreAssumption DEF Job
<1>2. \A a \in Job : a.version = j.version /\ a.seg = j.seg
        => After(a) = After(j) /\ Reported(a) = Reported(j)
  BY DEF After, Before, Piece, Reported, Final
<1>3. /\ Alike(j.path, j.version, j.seg) \in Job
      /\ Alike(j.path, j.version, j.seg).version = j.version
      /\ Alike(j.path, j.version, j.seg).seg = j.seg
  BY DEF Alike, Job
<1> QED
  BY <1>1, <1>2, <1>3

(* The first segment follows nothing. *)
LEMMA BeforeFirst ==
    ASSUME NEW j \in Job
    PROVE  Before(j) \in Data /\ (j.seg = 0 => Before(j) = <<>>)
BY UptoIsData DEF Before, Job

(* The last segment completes the file. *)
LEMMA AfterLast ==
    ASSUME NEW j \in Job, Final(j)
    PROVE  After(j) = Content(j.version)
<1>1. Piece(j) = << <<j.version, j.seg>> >> /\ Segs[j.version] = j.seg + 1
  BY DEF Piece, Final, Job
<1> QED
  BY <1>1, UptoAppend, ContentIsUpto DEF After, Before, Job

(* What is written is a sequence of segments. *)
LEMMA AfterIsData == ASSUME NEW j \in Job PROVE After(j) \in Data
BY BeforeFirst, PieceIsData, DataConcat DEF After

(* A step of a request that moves its worker and changes neither file nor  *)
(* row nor damage keeps the path.                                          *)
LEMMA ServesKeeps ==
    ASSUME Common, Single, NEW w \in Worker, Serves(w), NEW P \in Path, P = PathOf(w)
    PROVE  PathInv(P)' /\ WorkerInv(w)'
<1> DEFINE Goal == PathInv(P)' /\ WorkerInv(w)'
<1>1. PICK j \in Job : j = job[w] /\ (j.seg = 0 \/ j.seg < Segs[j.version]) /\ j.path = P
  BY DEF Common, Typed, PathOf
<1>2. at \in [Worker -> Place] /\ Typed
  BY DEF Common, Typed
<1>3. /\ job'[w] = j /\ PathOf(w)' = P /\ at[w] # "none"
      /\ \A x \in Worker \ {w} : at[x] # "none" => PathOf(x) # P
      /\ \A x \in Worker \ {w} : at'[x] = at[x] /\ PathOf(x)' = PathOf(x)
  BY <1>1, ServesIsLocal DEF Local, PathOf
<1>4. /\ PathInv(P) /\ (Tracked(w) => Stands(w))
      /\ at[w] \notin TornAt => \A x \in Worker : at[x] \in TornAt => PathOf(x) # P
  BY <1>3 DEF Single, WorkerInv, TornAt
<1>5. ASSUME at'[w] \in TornAt PROVE PathInv(P)'
  BY <1>3, <1>5 DEF PathInv
<1>6. ASSUME \/ disk'[P] = NoFile /\ row'[P] = NoRow
             \/ disk'[P] = After(j) /\ row'[P] \in Reported(j)
      PROVE  PathInv(P)'
  <2>1. Agree(P)'
    BY <1>1, <1>6, AgreesWithJob DEF Agree
  <2> QED
    BY <2>1 DEF PathInv
<1>7. ASSUME disk'[P] = disk[P], row'[P] = row[P], at[w] \notin TornAt,
             P \in damaged => P \in damaged'
      PROVE  PathInv(P)'
  BY <1>4, <1>7 DEF PathInv, Agree
<1>8. ASSUME GuardTests(w) \/ GuardAdds(w) \/ CheckSegment(w) \/ CreateDirectories(w)
             \/ OpenFails(w) \/ Fails(w)
      PROVE  Goal
  <2>1. /\ disk' = disk /\ row' = row /\ damaged' = damaged /\ erred' = erred /\ fd' = fd
        /\ at' = [at EXCEPT ![w] = at'[w]]
        /\ at'[w] \in {"add", "none", "check", "unlink", "dirs", "open", "fail"}
        /\ at[w] \in {"has", "add", "check", "dirs", "open", "fail"}
        /\ at[w] = "fail" => at'[w] = "none"
    BY <1>2, <1>8 DEF GuardTests, GuardAdds, CheckSegment, CreateDirectories, OpenFails, Fails,
       Goes, History
  <2>2. PathInv(P)'
    BY <1>7, <2>1 DEF TornAt
  <2>3. Tracked(w)' => Tracked(w)
    BY <1>1, <1>3, <2>1 DEF Tracked, PathOf
  <2>4. at'[w] \in {"add", "check", "dirs", "open"} =>
          at[w] \in {"has", "add", "check", "dirs", "open", "write"}
    BY <2>1
  <2>5. Stands(w) /\ at'[w] # "none" => Stands(w)'
    BY <1>1, <1>3, <2>1, <2>4 DEF Stands, Row, PathOf
  <2> QED
    BY <1>4, <2>2, <2>3, <2>5 DEF WorkerInv
<1>9. ASSUME OpenFile(w) PROVE Goal
  <2>1. /\ at[w] = "open" /\ at'[w] = "write" /\ disk'[P] = Opened(w) /\ row' = row
        /\ damaged' = damaged /\ erred' = erred /\ fd' = fd \cup {w}
    BY <1>2, <1>9 DEF OpenFile, Goes, History, Typed
  <2>2. Stands(w) => disk'[P] = Before(j)
    BY <1>1, <2>1, BeforeFirst, Sentinels DEF Stands, Opened
  <2>3. Tracked(w)' => Tracked(w)
    BY <1>1, <1>3, <2>1 DEF Tracked, PathOf
  <2>4. Stands(w) => Stands(w)'
    BY <1>1, <1>3, <2>1, <2>2 DEF Stands, Row, PathOf
  <2> QED
    BY <1>4, <1>5, <2>1, <2>3, <2>4 DEF WorkerInv, TornAt
<1>10. ASSUME WriteData(w) PROVE Goal
  <2>1. /\ at[w] = "write" /\ at'[w] = "record" /\ row' = row
        /\ w \in fd => disk'[P] = Written(j, disk[P])
        /\ damaged' = damaged /\ erred' = erred
    BY <1>1, <1>2, <1>10 DEF WriteData, Goes, History, Typed
  <2>2. Stands(w) => disk'[P] = After(j)
    <3>1. Stands(w) => disk'[P] = Written(j, Before(j))
      BY <1>1, <2>1 DEF Stands
    <3>2. Written(j, Before(j)) = After(j)
      BY BeforeFirst DEF Written, After
    <3> QED
      BY <3>1, <3>2
  <2>3. Tracked(w)' => Tracked(w)
    BY <1>1, <1>3, <2>1 DEF Tracked, PathOf
  <2>4. Stands(w) => Stands(w)'
    BY <1>1, <1>3, <2>1, <2>2 DEF Stands, Row, PathOf
  <2> QED
    BY <1>4, <1>5, <2>1, <2>3, <2>4 DEF WorkerInv, TornAt
<1>11. ASSUME RecordSegment(w) PROVE Goal
  <2>1. /\ at[w] = "record" /\ at'[w] = AfterRecord(w) /\ disk' = disk
        /\ row'[P] = Recorded(w)
        /\ damaged' = damaged /\ erred' = erred
        /\ job[w].op = "upload"
    BY <1>1, <1>2, <1>11 DEF RecordSegment, Goes, History, Typed, Common, OpFits
  <2>2. Stands(w) => row'[P] = RowOf(j.seg, NoMeta)
    BY <1>1, <2>1, Sentinels DEF Stands, Recorded, RowOf, HasRow, RowType, Job
  <2>3. Stands(w) => disk'[P] = After(j)
    BY <1>1, <2>1 DEF Stands
  <2>4. Tracked(w)' => Tracked(w)
    BY <1>1, <1>3, <2>1 DEF Tracked, PathOf
  <2>5. PathInv(P)'
    <3>1. CASE Tracked(w)
      BY <1>4, <1>6, <2>2, <2>3, <3>1 DEF Reported
    <3>2. CASE ~Tracked(w)
      BY <1>1, <2>1, <3>2 DEF Tracked, PathInv
    <3> QED
      BY <3>1, <3>2
  <2>6. Stands(w) => Stands(w)'
    <3>1. CASE Final(j)
      BY <1>1, <1>3, <2>1, <2>2, <2>3, <3>1 DEF Stands, Row, PathOf, AfterRecord
    <3>2. CASE ~Final(j)
      BY <1>1, <1>3, <2>1, <2>2, <2>3, <3>2 DEF Stands, Row, PathOf, AfterRecord, Reported
    <3> QED
      BY <3>1, <3>2
  <2> QED
    BY <1>4, <2>4, <2>5, <2>6 DEF WorkerInv
<1>12. ASSUME Verify(w) PROVE Goal
  <2>1. /\ at[w] = "verify" /\ disk' = disk /\ row' = row /\ damaged' = damaged /\ erred' = erred
        /\ at'[w] \in {"fail", "meta", "discard"}
        /\ disk[P] = Content(j.version) /\ disk[P] # NoFile => at'[w] = "meta"
    BY <1>1, <1>2, <1>12 DEF Verify, Goes, History, Typed
  <2>2. Stands(w) => at'[w] = "meta"
    <3>1. Stands(w) => disk[P] = Content(j.version) /\ disk[P] # NoFile
      BY <1>1, <2>1, AfterLast, AfterIsData, Sentinels DEF Stands
    <3> QED
      BY <2>1, <3>1
  <2>3. Tracked(w)' => Tracked(w)
    BY <1>1, <1>3, <2>1 DEF Tracked, PathOf
  <2>4. Stands(w) => Stands(w)'
    BY <1>1, <1>3, <2>1, <2>2 DEF Stands, Row, PathOf
  <2> QED
    BY <1>4, <1>7, <2>1, <2>3, <2>4 DEF WorkerInv, TornAt
<1>13. ASSUME SaveMetadata(w) PROVE Goal
  <2>1. /\ at[w] = "meta" /\ at'[w] = "succeed" /\ disk' = disk
        /\ HasRow(w) => row'[P] = [row[P] EXCEPT !.meta = j.version]
        /\ damaged' = damaged /\ erred' = erred
        /\ job[w].op = "upload"
    BY <1>1, <1>2, <1>13 DEF SaveMetadata, Goes, History, Typed, Common, OpFits
  <2>2. Stands(w) => row'[P] = RowOf(j.seg, j.version) /\ Final(j) /\ disk'[P] = After(j)
    <3>1. RowOf(j.seg, NoMeta) # NoRow
      BY Sentinels DEF RowOf, RowType, Job
    <3>2. [RowOf(j.seg, NoMeta) EXCEPT !.meta = j.version] = RowOf(j.seg, j.version)
      BY DEF RowOf
    <3> QED
      BY <1>1, <2>1, <3>1, <3>2 DEF Stands, HasRow, Row
  <2>3. Tracked(w)' => Tracked(w)
    BY <1>1, <1>3, <2>1 DEF Tracked, PathOf
  <2>4. Final(j) => RowOf(j.seg, j.version) \in Reported(j)
    BY DEF Reported
  <2>5. PathInv(P)'
    <3>1. CASE Tracked(w)
      BY <1>4, <1>6, <2>2, <2>4, <3>1
    <3>2. CASE ~Tracked(w)
      BY <1>1, <2>1, <3>2 DEF Tracked, PathInv
    <3> QED
      BY <3>1, <3>2
  <2>6. Stands(w) => Stands(w)'
    BY <1>1, <1>3, <2>1, <2>2, <2>4 DEF Stands, Row, PathOf
  <2> QED
    BY <1>4, <2>3, <2>5, <2>6 DEF WorkerInv
<1>14. ASSUME Unlink(w) \/ Discard(w) PROVE Goal
  <2>1. /\ disk'[P] = NoFile /\ damaged' = damaged /\ erred' = erred
        /\ \/ at[w] = "unlink" /\ at'[w] = "delete_row"
           \/ at[w] = "discard" /\ at'[w] = "discard_row"
    BY <1>1, <1>2, <1>14 DEF Unlink, Discard, RemoveFile, Goes, History, Typed
  <2>2. Tracked(w)' => Tracked(w)
    BY <1>1, <1>3, <2>1 DEF Tracked, PathOf
  <2>3. Stands(w) => Stands(w)'
    BY <1>1, <1>3, <2>1 DEF Stands, Row, PathOf
  <2> QED
    BY <1>4, <1>5, <2>1, <2>2, <2>3 DEF WorkerInv, TornAt
<1>15. ASSUME DeleteRow(w, "delete_row", "succeed") PROVE Goal
  <2>1. /\ at[w] = "delete_row" /\ at'[w] = "succeed" /\ disk' = disk /\ row'[P] = NoRow
        /\ damaged' = damaged /\ erred' = erred /\ job[w].op = "remove"
    BY <1>1, <1>2, <1>15 DEF DeleteRow, RowDeleted, Goes, History, Typed, Common, OpFits
  <2>2. Stands(w) => disk'[P] = NoFile
    BY <1>1, <2>1 DEF Stands
  <2>3. Tracked(w)' => Tracked(w)
    BY <1>1, <1>3, <2>1 DEF Tracked, PathOf
  <2>4. PathInv(P)'
    <3>1. CASE Tracked(w)
      BY <1>4, <1>6, <2>1, <2>2, <3>1
    <3>2. CASE ~Tracked(w)
      BY <1>1, <2>1, <3>2 DEF Tracked, PathInv
    <3> QED
      BY <3>1, <3>2
  <2>5. Stands(w) => Stands(w)'
    BY <1>1, <1>3, <2>1, <2>2 DEF Stands, Row, PathOf
  <2> QED
    BY <1>4, <2>3, <2>4, <2>5 DEF WorkerInv
<1>16. ASSUME DeleteRow(w, "discard_row", "fail") PROVE Goal
  <2>1. /\ at[w] = "discard_row" /\ at'[w] = "fail" /\ damaged' = damaged /\ erred' = erred
    BY <1>1, <1>2, <1>16 DEF DeleteRow, RowDeleted, Goes, History, Typed
  <2>2. ~Tracked(w) /\ ~Tracked(w)'
    BY <1>1, <1>3, <1>4, <2>1 DEF Stands, Tracked, PathOf
  <2> QED
    BY <1>1, <2>1, <2>2 DEF Tracked, PathInv, WorkerInv
<1>17. ASSUME StepFails(w) \/ PrepareFails(w) PROVE Goal
  <2>1. /\ disk' = disk /\ row' = row /\ fd' = fd /\ w \in erred'
        /\ at[w] \in {"check", "meta", "record", "delete_row", "discard_row"}
        /\ damaged' = IF at[w] \in {"record", "delete_row", "discard_row"}
                      THEN damaged \cup {P} ELSE damaged
        /\ \/ at[w] = "check" /\ at'[w] = (IF job[w].seg <= 1 THEN "dirs" ELSE "fail")
           \/ at[w] = "record"
           \/ at[w] \in {"meta", "delete_row"} /\ at'[w] = "succeed"
           \/ at'[w] = "fail"
    BY <1>1, <1>2, <1>17 DEF StepFails, PrepareFails, Refused, Goes, Typed
  <2>2. CASE at[w] \in {"record", "delete_row", "discard_row"}
    BY <1>3, <2>1, <2>2 DEF Tracked, PathInv, WorkerInv
  <2>3. CASE at[w] \in {"check", "meta"}
    <3>1. PathInv(P)'
      BY <1>7, <2>1, <2>3 DEF TornAt
    <3>2. Tracked(w)' => Tracked(w)
      BY <1>1, <1>3, <2>1, <2>3 DEF Tracked, PathOf
    <3>3. Stands(w) => Stands(w)'
      <4>1. CASE at[w] = "check"
        BY <1>1, <1>3, <2>1, <4>1 DEF Stands, Row, PathOf
      <4>2. CASE at[w] = "meta"
        <5>1. job[w].op = "upload"
          BY <4>2 DEF Common, OpFits
        <5> QED
          BY <1>1, <1>3, <2>1, <4>2, <5>1 DEF Stands, Row, PathOf, Reported
      <4> QED
        BY <2>3, <4>1, <4>2
    <3> QED
      BY <1>4, <3>1, <3>2, <3>3 DEF WorkerInv
  <2> QED
    BY <2>1, <2>2, <2>3
<1>18. ASSUME Succeeds(w) PROVE Goal
  <2>1. /\ at[w] = "succeed" /\ disk' = disk /\ row' = row /\ erred' = erred
        /\ damaged' = IF Restarts(w) THEN damaged \ {P} ELSE damaged
        /\ \/ at'[w] = "none"
           \/ at'[w] = "next" /\ j.op = "upload" /\ ~LastSent(j)
    BY <1>1, <1>2, <1>18 DEF Succeeds, Goes, Typed
  <2>2. CASE ~Tracked(w)
    <3>1. P \in damaged' /\ w \in erred'
      BY <1>1, <2>1, <2>2 DEF Tracked, Restarts
    <3> QED
      BY <1>3, <3>1 DEF Tracked, PathInv, WorkerInv
  <2>3. CASE Tracked(w)
    <3>1. Stands(w)
      BY <1>4, <2>3
    <3>2. PathInv(P)'
      BY <1>1, <1>6, <2>1, <3>1 DEF Stands, Row, Job
    <3>3. at'[w] = "next" => Reported(j) = {RowOf(j.seg, NoMeta)}
      BY <1>1, <2>1, StoreAssumption DEF Reported, Final, LastSent, Job
    <3>4. Stands(w)'
      BY <1>1, <1>3, <2>1, <3>1, <3>3 DEF Stands, Row, PathOf
    <3> QED
      BY <3>2, <3>4 DEF WorkerInv
  <2> QED
    BY <2>2, <2>3
<1> QED
  BY <1>8, <1>9, <1>10, <1>11, <1>12, <1>13, <1>14, <1>15, <1>16, <1>17, <1>18 DEF Serves

----------------------------------------------------------------------------
(* All steps.                                                              *)

(* The invariant holds initially. *)
LEMMA SingleInit == Init => Single
BY DEF Init, Single, OneTransfer, PathInv, Agree, WorkerInv

(* Every step keeps the invariant. *)
LEMMA SingleStep ==
    ASSUME SingleWriter, Common, Single, [Next]_vars
    PROVE  Single'
<1>1. Common' /\ Typed /\ at \in [Worker -> Place] /\ job \in [Worker -> Job]
  BY CommonStep DEF Common, Typed
<1>2. ASSUME NEW w \in Worker, BeginUpload(w) \/ BeginRemove(w) PROVE Single'
  <2>1. PICK j \in Job : Begins(w, j) /\ j.seg = 0
    <3>1. CASE BeginUpload(w)
      <4>1. PICK p \in Path, v \in Version :
              Begins(w, [op |-> "upload", path |-> p, version |-> v, seg |-> 0])
        BY <3>1 DEF BeginUpload
      <4> DEFINE r == [op |-> "upload", path |-> p, version |-> v, seg |-> 0]
      <4>2. r \in Job /\ r.seg = 0
        BY DEF Job
      <4> QED
        BY <4>1, <4>2
    <3>2. CASE BeginRemove(w)
      <4>1. PICK p \in Path :
              Begins(w, [job[w] EXCEPT !.op = "remove", !.path = p, !.seg = 0])
        BY <3>2 DEF BeginRemove
      <4> DEFINE r == [job[w] EXCEPT !.op = "remove", !.path = p, !.seg = 0]
      <4>2. r \in Job /\ r.seg = 0
        BY <1>1 DEF Job
      <4> QED
        BY <4>1, <4>2
    <3> QED
      BY <1>2, <3>1, <3>2
  <2>2. /\ at[w] = "none" /\ Alone(w, j.path) /\ UNCHANGED <<disk, row, fd, damaged>>
        /\ erred' = erred \ {w}
        /\ job'[w] = j /\ at'[w] = "has"
        /\ \A x \in Worker \ {w} : at'[x] = at[x] /\ job'[x] = job[x]
    BY <1>1, <2>1 DEF Begins, Goes
  <2>3. PICK P \in Path : P = j.path
    BY DEF Job
  <2>4. Local(w, P)
    BY <2>2, <2>3 DEF Local, Alone, PathOf
  <2>5. WorkerInv(w)'
    BY <2>1, <2>2 DEF WorkerInv, Stands
  <2>6. PathInv(P)'
    <3>1. ASSUME \A x \in Worker : at'[x] \in TornAt => PathOf(x)' # P
          PROVE  \A x \in Worker : at[x] \in TornAt => PathOf(x) # P
      BY <2>2, <3>1 DEF TornAt, PathOf
    <3>2. Agree(P) => Agree(P)'
      BY <2>2 DEF Agree
    <3> QED
      BY <2>2, <3>1, <3>2 DEF Single, PathInv
  <2> QED
    BY <1>1, <2>4, <2>5, <2>6, Elsewhere
<1>3. ASSUME NEW w \in Worker, SendNext(w) \/ GivesUp(w) PROVE Single'
  <2>1. PICK P \in Path, j \in Job : j = job[w] /\ P = j.path
    BY <1>1 DEF Job
  <2>2. /\ at[w] = "next" /\ UNCHANGED <<disk, row, fd, damaged, erred>>
        /\ \A x \in Worker \ {w} : at'[x] = at[x] /\ job'[x] = job[x]
        /\ \/ at'[w] = "none" /\ job'[w] = j
           \/ at'[w] = "has" /\ job'[w] = [j EXCEPT !.seg = j.seg + 1]
    BY <1>1, <1>3, <2>1 DEF SendNext, GivesUp, Goes, History
  <2>3. PathOf(w) = P /\ PathOf(w)' = P
    BY <2>1, <2>2 DEF PathOf, Job
  <2>4. Local(w, P)
    BY <2>2, <2>3 DEF Local, Single, OneTransfer
  <2>5. PathInv(P)'
    <3>1. ASSUME \A x \in Worker : at'[x] \in TornAt => PathOf(x)' # P
          PROVE  \A x \in Worker : at[x] \in TornAt => PathOf(x) # P
      BY <2>2, <3>1 DEF TornAt, PathOf
    <3>2. Agree(P) => Agree(P)'
      BY <2>2 DEF Agree
    <3> QED
      BY <2>2, <3>1, <3>2 DEF Single, PathInv
  <2>6. WorkerInv(w)'
    <3>1. CASE at'[w] = "none"
      BY <3>1 DEF WorkerInv
    <3>2. CASE at'[w] = "has" /\ job'[w] = [j EXCEPT !.seg = j.seg + 1]
      <4>1. Tracked(w)' => Tracked(w)
        BY <2>2, <2>3 DEF Tracked
      <4>2. /\ job'[w].seg = j.seg + 1 /\ job'[w].seg - 1 = j.seg /\ job'[w].version = j.version
            /\ j.seg \in Nat /\ j.version \in Version
        BY <3>2 DEF Job
      <4>3. j.seg + 1 < Segs[j.version]
        BY <2>1, <2>2, StoreAssumption DEF Common, NextNeeded, LastSent, Job
      <4>4. After(j) = Upto(j.version, j.seg + 1)
        <5>1. Piece(j) = << <<j.version, j.seg>> >>
          BY <4>2, <4>3, StoreAssumption DEF Piece
        <5> QED
          BY <4>2, <5>1, UptoAppend DEF After, Before
      <4>5. Stands(w) => Stands(w)'
        BY <2>1, <2>2, <2>3, <3>2, <4>2, <4>4 DEF Stands, Row, Before
      <4> QED
        BY <2>2, <4>1, <4>5 DEF Single, WorkerInv
    <3> QED
      BY <2>2, <3>1, <3>2
  <2> QED
    BY <1>1, <2>4, <2>5, <2>6, Elsewhere
<1>4. ASSUME NEW w \in Worker, Serves(w) PROVE Single'
  <2>1. PICK P \in Path : P = PathOf(w)
    BY <1>1 DEF PathOf, Job
  <2>2. Local(w, P)
    BY <1>4, <2>1, ServesIsLocal
  <2> QED
    BY <1>1, <1>4, <2>1, <2>2, ServesKeeps, Elsewhere
<1>5. ASSUME Cleanup \/ UNCHANGED vars PROVE Single'
  <2>1. UNCHANGED <<disk, row, at, job, fd, erred, damaged>>
    BY <1>5 DEF Cleanup, vars, Around, History
  <2>2. OneTransfer'
    BY <2>1 DEF Single, OneTransfer, PathOf
  <2>3. ASSUME NEW p \in Path PROVE PathInv(p)'
    BY <2>1 DEF Single, PathInv, Agree, PathOf
  <2>4. ASSUME NEW w \in Worker PROVE WorkerInv(w)'
    BY <2>1 DEF Single, WorkerInv, Tracked, Stands, Row, PathOf
  <2> QED
    BY <2>2, <2>3, <2>4 DEF Single
<1>6. ASSUME Crash PROVE Single'
  <2>1. /\ \A w \in Worker : at'[w] = "none"
        /\ disk' = disk /\ row' = row
        /\ damaged' = damaged \cup {PathOf(w) : w \in {x \in Worker : at[x] \in TornAt}}
    BY <1>6 DEF Crash
  <2>2. ASSUME NEW p \in Path PROVE PathInv(p)'
    <3>1. p \notin damaged' => p \notin damaged /\ \A w \in Worker : at[w] \in TornAt => PathOf(w) # p
      BY <2>1
    <3>2. Agree(p) => Agree(p)'
      BY <2>1 DEF Agree
    <3> QED
      BY <3>1, <3>2 DEF Single, PathInv
  <2> QED
    BY <2>1, <2>2 DEF Single, OneTransfer, WorkerInv
<1>7. ASSUME ClearStops PROVE Single'
  <2>1. /\ \A w \in Worker : at'[w] = "none" /\ at[w] \notin TornAt
        /\ UNCHANGED <<disk, row, damaged>>
    BY <1>7 DEF ClearStops, Busy, TornAt, History
  <2>2. ASSUME NEW p \in Path PROVE PathInv(p)'
    BY <2>1 DEF Single, PathInv, Agree
  <2> QED
    BY <2>1, <2>2 DEF Single, OneTransfer, WorkerInv
<1>8. ASSUME NEW q \in Path, ClearFile(q) PROVE Single'
  <2>1. /\ \A w \in Worker : at'[w] = "none" /\ at[w] = "none"
        /\ q \in damaged' /\ row' = row
        /\ \A p \in Path \ {q} : disk'[p] = disk[p] /\ (p \in damaged' <=> p \in damaged)
    BY <1>1, <1>8 DEF ClearFile, Common, ClearedAlone, Typed
  <2>2. ASSUME NEW p \in Path PROVE PathInv(p)'
    BY <2>1 DEF Single, PathInv, Agree, TornAt
  <2> QED
    BY <2>1, <2>2 DEF Single, OneTransfer, WorkerInv
<1>9. ASSUME ClearRows PROVE Single'
  <2>1. /\ \A w \in Worker : at'[w] = "none"
        /\ \A p \in Path : disk'[p] = NoFile /\ row'[p] = NoRow
    BY <1>9 DEF ClearRows, Common, ClearedAlone
  <2>2. ASSUME NEW p \in Path PROVE PathInv(p)'
    BY <2>1 DEF PathInv, Agree
  <2> QED
    BY <2>1, <2>2 DEF Single, OneTransfer, WorkerInv
<1> QED
  BY <1>2, <1>3, <1>4, <1>5, <1>6, <1>7, <1>8, <1>9 DEF Next

(* With one transfer per path the invariant holds throughout. *)
THEOREM StoreSingle == ASSUME SingleWriter PROVE Spec => [](Common /\ Single)
<1>1. Init => Common /\ Single
  BY CommonInit, SingleInit
<1>2. Common /\ Single /\ [Next]_vars => (Common /\ Single)'
  BY CommonStep, SingleStep
<1> QED
  BY <1>1, <1>2, PTL DEF Spec

(* Where nobody is at work and nothing was left apart, file and row agree. *)
LEMMA QuietAgrees ==
    ASSUME Single, NEW p \in Path, Quiet(p)
    PROVE  Agree(p)
<1>1. \A w \in Worker : at[w] \in TornAt => PathOf(w) # p
  BY DEF Quiet, AtRest, Busy, TornAt, PathOf
<1> QED
  BY <1>1 DEF Single, PathInv, Quiet

(* The jobs Agree speaks of. *)
LEMMA AlikeIsJob ==
    ASSUME NEW p \in Path, NEW v \in Version, NEW n \in 0 .. Segs[v]
    PROVE  /\ Alike(p, v, n) \in Job
           /\ Alike(p, v, n).version = v /\ Alike(p, v, n).seg = n
<1>1. n \in Nat
  BY StoreAssumption
<1> QED
  BY <1>1 DEF Alike, Job

(* A file the server reports as complete is there, whole, and of the       *)
(* version it reports, after any number of uploads given up, repeated,     *)
(* failed or removed, crashes and refused statements that were put right.  *)
THEOREM StoreDescribesFiles == ASSUME SingleWriter PROVE Spec => []RowDescribesFile
<1>1. Common /\ Single => RowDescribesFile
  <2> SUFFICES ASSUME Common, Single, NEW p \in Path, Quiet(p), row[p] # NoRow,
                      row[p].meta # NoMeta
               PROVE  disk[p] = Content(row[p].meta)
    BY DEF RowDescribesFile
  <2>1. PICK v \in Version : \E n \in 0 .. Segs[v] :
          disk[p] = After(Alike(p, v, n)) /\ row[p] \in Reported(Alike(p, v, n))
    BY QuietAgrees DEF Agree
  <2>2. PICK n \in 0 .. Segs[v] :
          disk[p] = After(Alike(p, v, n)) /\ row[p] \in Reported(Alike(p, v, n))
    BY <2>1
  <2>3. Final(Alike(p, v, n)) /\ row[p].meta = v
    BY <2>2, AlikeIsJob DEF Reported, RowOf
  <2> QED
    BY <2>2, <2>3, AlikeIsJob, AfterLast
<1> QED
  BY <1>1, StoreSingle, PTL

(* The client has no version without a segment. *)
NonEmpty == \A v \in Version : Segs[v] # 0

(* No file without a row, no row without a file, and the row counts the    *)
(* segments in the file, so that an upload given up can go on.             *)
THEOREM StoreCountsSegments ==
    ASSUME SingleWriter, NonEmpty
    PROVE  Spec => []RowCountsSegments
<1>1. Common /\ Single => RowCountsSegments
  <2> SUFFICES ASSUME Common, Single, NEW p \in Path, Quiet(p)
               PROVE  /\ (disk[p] = NoFile) = (row[p] = NoRow)
                      /\ row[p] # NoRow => Len(disk[p]) = row[p].last + 1
    BY DEF RowCountsSegments
  <2>1. CASE disk[p] = NoFile /\ row[p] = NoRow
    BY <2>1
  <2>2. ASSUME NEW v \in Version, NEW n \in 0 .. Segs[v],
               disk[p] = After(Alike(p, v, n)), row[p] \in Reported(Alike(p, v, n))
        PROVE  disk[p] \in Data /\ row[p] \in RowType /\ Len(disk[p]) = row[p].last + 1
    <3>1. /\ Alike(p, v, n) \in Job /\ Alike(p, v, n).version = v /\ Alike(p, v, n).seg = n
          /\ n \in Nat
      BY AlikeIsJob, StoreAssumption
    <3>2. After(Alike(p, v, n)) \in Data
      BY <3>1, AfterIsData
    <3>3. Len(After(Alike(p, v, n))) = n + 1
      <4>1. Upto(v, n) \in Data /\ Len(Upto(v, n)) = n
        BY <3>1, UptoIsData
      <4>2. Piece(Alike(p, v, n)) \in Data /\ Len(Piece(Alike(p, v, n))) = 1
        BY <3>1, PieceIsData DEF Piece, NonEmpty
      <4> QED
        BY <3>1, <4>1, <4>2, DataConcat DEF After, Before
    <3>4. row[p] \in RowType /\ row[p].last = n
      BY <2>2, <3>1 DEF Reported, RowOf, RowType
    <3> QED
      BY <2>2, <3>2, <3>3, <3>4
  <2> QED
    BY <2>1, <2>2, QuietAgrees, Sentinels DEF Agree
<1> QED
  BY <1>1, StoreSingle, PTL

(* An upload whose last segment was answered with success is stored whole  *)
(* and reported, unless a statement of that very request was refused.      *)
THEOREM StoreKeepsUploads ==
    ASSUME SingleWriter, NonEmpty
    PROVE  Spec => []UploadedIsStored
<1>1. Common /\ Single => UploadedIsStored
  <2> SUFFICES ASSUME Common, Single, NEW w \in Worker \ erred,
                      at[w] = "succeed", job[w].op = "upload", LastSent(job[w])
               PROVE  /\ disk[PathOf(w)] = Content(job[w].version)
                      /\ HasRow(w) /\ Row(w).meta = job[w].version
    BY DEF UploadedIsStored
  <2>1. Stands(w)
    BY DEF Single, WorkerInv, Tracked
  <2>2. job[w] \in Job /\ (job[w].seg = 0 \/ job[w].seg < Segs[job[w].version])
    BY DEF Common, Typed
  <2>3. Final(job[w])
    BY <2>2, StoreAssumption DEF Final, LastSent, NonEmpty, Job
  <2>4. disk[PathOf(w)] = After(job[w]) /\ Row(w) = RowOf(job[w].seg, job[w].version)
    BY <2>1, <2>3 DEF Stands
  <2>5. RowOf(job[w].seg, job[w].version) # NoRow
    BY <2>2, Sentinels DEF RowOf, RowType, Job
  <2> QED
    BY <2>2, <2>3, <2>4, <2>5, AfterLast DEF HasRow, RowOf
<1> QED
  BY <1>1, StoreSingle, PTL

----------------------------------------------------------------------------
(* FileStore implements RemoteStore.                                       *)

(* What has just been truncated is no sentinel, nor is anything kept. *)
LEMMA KeptIsHeld ==
    ASSUME NEW d \in Data, NEW m \in Version \cup {NoMeta}
    PROVE  Remote!Held(Remote!Holding(d, m))
<1>1. [data |-> d, whole |-> m] \in [data : Seq(Version \X Nat), whole : Version \cup {NoMeta}]
  BY DEF Data
<1> QED
  BY <1>1, StoreAssumption DEF Remote!Held, Remote!Holding

(* RemoteStore's first segments are ours. *)
LEMMA FirstIsUpto ==
    ASSUME NEW v \in Version, NEW n \in 0 .. Segs[v]
    PROVE  Remote!First(n, v) = Upto(v, n)
<1>1. Segs[v] \in Nat /\ n \in Nat
  BY StoreAssumption
<1>2. Content(v) = Upto(v, Segs[v]) /\ Content(v) \in Data /\ Len(Content(v)) = Segs[v]
  BY ContentIsUpto
<1>3. \A i \in 1 .. Segs[v] : Content(v)[i] = <<v, i - 1>>
  BY DEF Content
<1>4. /\ SubSeq(Content(v), 1, n) \in Seq(Version \X Nat)
      /\ Len(SubSeq(Content(v), 1, n)) = n
      /\ \A i \in 1 .. n : SubSeq(Content(v), 1, n)[i] = Content(v)[i]
  BY <1>1, <1>2, SubSeqProperties DEF Data
<1>5. /\ Upto(v, n) \in Seq(Version \X Nat) /\ Len(Upto(v, n)) = n
      /\ \A i \in 1 .. n : Upto(v, n)[i] = <<v, i - 1>>
  BY <1>1, UptoIsData DEF Upto, Data
<1>6. \A i \in 1 .. n : SubSeq(Content(v), 1, n)[i] = Upto(v, n)[i]
  <2> TAKE i \in 1 .. n
  <2>1. i \in 1 .. Segs[v]
    BY <1>1
  <2> QED
    BY <1>3, <1>4, <1>5, <2>1
<1>7. SubSeq(Content(v), 1, n) = Upto(v, n)
  BY <1>1, <1>4, <1>5, <1>6, SeqEqual
<1> QED
  BY <1>7 DEF Remote!First

(* Nothing that Stored depends on changes. *)
LEMMA StoredSame ==
    ASSUME NEW p \in Path, disk'[p] = disk[p], row'[p] = row[p],
           p \in damaged' <=> p \in damaged, Superseded(p)' <=> Superseded(p)
    PROVE  Stored(p)' = Stored(p)
BY DEF Stored

(* A step of one path leaves the others as they are. *)
LEMMA OthersSame ==
    ASSUME Common, Common', NEW w \in Worker, NEW P \in Path, Local(w, P),
           NEW p \in Path, p # P
    PROVE  Stored(p)' = Stored(p)
<1>1. \A x \in Worker \ {w} : PathOf(x)' = PathOf(x)
  BY DEF Local, PathOf
<1>2. Superseded(p)' <=> Superseded(p)
  BY <1>1 DEF Superseded, Local, PathOf
<1> QED
  BY <1>2, StoredSame DEF Local

(* Every step of a request is a step of RemoteStore on its path, or none. *)
LEMMA RemoteServes ==
    ASSUME NonEmpty, Common, Single, NEW w \in Worker, Serves(w), NEW P \in Path, P = PathOf(w)
    PROVE  Remote!Step(Stored(P), Stored(P)')
<1> DEFINE Same == Stored(P)' = Stored(P)
           Goal == Remote!Step(Stored(P), Stored(P)')
<1>1. PICK j \in Job : j = job[w] /\ (j.seg = 0 \/ j.seg < Segs[j.version]) /\ j.path = P
  BY DEF Common, Typed, PathOf
<1>2. at \in [Worker -> Place] /\ Typed
  BY DEF Common, Typed
<1>3. /\ job'[w] = j /\ PathOf(w)' = P /\ at[w] # "none"
      /\ \A x \in Worker \ {w} : at[x] # "none" => PathOf(x) # P
      /\ \A x \in Worker \ {w} : at'[x] = at[x] /\ PathOf(x)' = PathOf(x)
  BY <1>1, ServesIsLocal DEF Local, PathOf
<1>4. Tracked(w) => Stands(w)
  BY <1>3 DEF Single, WorkerInv
<1>5. Superseded(P) <=> at[w] \in {"write", "record"} /\ j.seg = 0
  BY <1>1, <1>3 DEF Superseded, PathOf
<1>6. Superseded(P)' <=> at'[w] \in {"write", "record"} /\ j.seg = 0
  BY <1>1, <1>3 DEF Superseded, PathOf
<1>7. Same => Goal
  BY DEF Remote!Step
<1>8. /\ j.version \in Version /\ j.seg \in Nat /\ Segs[j.version] \in Nat
      /\ j.seg < Segs[j.version]
  BY <1>1, StoreAssumption DEF Job, NonEmpty
<1>9. /\ Before(j) = Upto(j.version, j.seg) /\ Before(j) \in Data
      /\ After(j) = Upto(j.version, j.seg + 1) /\ After(j) \in Data
  <2>1. Piece(j) = << <<j.version, j.seg>> >>
    BY <1>8 DEF Piece
  <2>2. Upto(j.version, j.seg) \o << <<j.version, j.seg>> >> = Upto(j.version, j.seg + 1)
    BY <1>8, UptoAppend
  <2> QED
    BY <2>1, <2>2, BeforeFirst, AfterIsData DEF After, Before
<1>10. ASSUME P \in damaged, P \in damaged' PROVE Goal
  BY <1>7, <1>10 DEF Stored
<1>11. P \notin damaged => Tracked(w)
  BY <1>1 DEF Tracked, PathOf
<1>12. ASSUME GuardTests(w) \/ GuardAdds(w) \/ CheckSegment(w) \/ CreateDirectories(w)
              \/ OpenFails(w) \/ Fails(w) \/ Verify(w)
       PROVE  Goal
  <2>1. /\ disk' = disk /\ row' = row /\ damaged' = damaged
        /\ at[w] \notin {"write", "record"} /\ at'[w] \notin {"write", "record"}
    BY <1>2, <1>12 DEF GuardTests, GuardAdds, CheckSegment, CreateDirectories, OpenFails, Fails,
       Verify, Goes, History
  <2> QED
    BY <1>5, <1>6, <1>7, <2>1, StoredSame
<1>13. ASSUME OpenFile(w), P \notin damaged PROVE Goal
  <2>1. /\ at[w] = "open" /\ at'[w] = "write" /\ disk'[P] = Opened(w) /\ row' = row
        /\ damaged' = damaged
    BY <1>2, <1>13 DEF OpenFile, Goes, History, Typed
  <2>2. CASE j.seg = 0
    <3>1. Stored(P)' = Remote!Holding(<<>>, NoMeta)
      <4>1. disk'[P] = <<>> /\ <<>> \in Data
        BY <1>1, <2>1, <2>2 DEF Opened, Data
      <4> QED
        BY <1>6, <1>13, <2>1, <2>2, <4>1, Sentinels DEF Stored, Remote!Holding
    <3>2. Stored(P) # Torn
      <4>1. CASE disk[P] = NoFile
        BY <1>13, <4>1, StoreAssumption DEF Stored
      <4>2. CASE disk[P] # NoFile
        <5>1. disk[P] \in Data /\ row[P] \in RowType \cup {NoRow}
          BY <1>2, <4>2 DEF Typed
        <5>2. PICK m \in Version \cup {NoMeta} : Stored(P) = Remote!Holding(disk[P], m)
          BY <1>13, <4>2, <5>1 DEF Stored, Remote!Holding, RowType
        <5> QED
          BY <5>1, <5>2, KeptIsHeld DEF Remote!Held
      <4> QED
        BY <4>1, <4>2
    <3> QED
      BY <3>1, <3>2 DEF Remote!Step, Remote!Start
  <2>3. CASE j.seg # 0
    <3>1. disk[P] = Before(j)
      BY <1>1, <1>4, <1>11, <1>13, <2>1, <2>3 DEF Stands
    <3>2. disk'[P] = disk[P]
      BY <1>1, <1>9, <2>1, <2>3, <3>1, Sentinels DEF Opened
    <3> QED
      BY <1>5, <1>6, <1>7, <2>1, <2>3, <3>2, StoredSame
  <2> QED
    BY <2>2, <2>3
<1>14. ASSUME WriteData(w), P \notin damaged PROVE Goal
  <2>1. /\ at[w] = "write" /\ at'[w] = "record" /\ row' = row /\ damaged' = damaged
        /\ w \in fd => disk'[P] = Written(j, disk[P])
    BY <1>1, <1>2, <1>14 DEF WriteData, Goes, History, Typed
  <2>2. w \in fd /\ disk[P] = Before(j) /\ (j.seg # 0 => row[P] = RowOf(j.seg - 1, NoMeta))
    BY <1>1, <1>4, <1>11, <1>14, <2>1 DEF Stands, Row
  <2>3. disk'[P] = After(j)
    BY <2>1, <2>2, BeforeFirst DEF Written, After
  <2>4. j.seg = 0 \/ (row[P] = RowOf(j.seg - 1, NoMeta) /\ row[P] # NoRow)
    <3>1. j.seg # 0 => RowOf(j.seg - 1, NoMeta) \in RowType
      BY <1>8 DEF RowOf, RowType
    <3> QED
      BY <2>2, <3>1, Sentinels
  <2>5. Stored(P) = Remote!Holding(Before(j), NoMeta)
    BY <1>5, <1>9, <1>14, <2>1, <2>2, <2>4, Sentinels DEF Stored, Remote!Holding, RowOf
  <2>6. Stored(P)' = Remote!Holding(After(j), NoMeta)
    BY <1>6, <1>9, <1>14, <2>1, <2>3, <2>4, Sentinels DEF Stored, Remote!Holding, RowOf
  <2>7. /\ Remote!First(j.seg, j.version) = Before(j)
        /\ Remote!First(j.seg + 1, j.version) = After(j)
        /\ Len(Before(j)) = j.seg /\ Len(Content(j.version)) = Segs[j.version]
    BY <1>8, <1>9, FirstIsUpto, UptoIsData, ContentIsUpto
  <2>8. Remote!Growing(Stored(P)) /\ Stored(P).data = Before(j)
    BY <1>9, <2>5, KeptIsHeld DEF Remote!Growing, Remote!Holding
  <2>9. Remote!Extend(Stored(P), Stored(P)')
    BY <1>8, <2>6, <2>7, <2>8 DEF Remote!Extend
  <2> QED
    BY <2>9 DEF Remote!Step
<1>15. ASSUME RecordSegment(w), P \notin damaged PROVE Goal
  <2>1. /\ at[w] = "record" /\ at'[w] = AfterRecord(w) /\ disk' = disk
        /\ row'[P] = Recorded(w) /\ damaged' = damaged
    BY <1>1, <1>2, <1>15 DEF RecordSegment, Goes, History, Typed
  <2>2. disk[P] = After(j) /\ (j.seg # 0 => row[P] = RowOf(j.seg - 1, NoMeta))
    BY <1>1, <1>4, <1>11, <1>15, <2>1 DEF Stands, Row
  <2>3. /\ j.seg # 0 => RowOf(j.seg - 1, NoMeta) # NoRow
        /\ RowOf(j.seg, NoMeta) # NoRow
    <3>1. j.seg # 0 => RowOf(j.seg - 1, NoMeta) \in RowType
      BY <1>8 DEF RowOf, RowType
    <3>2. RowOf(j.seg, NoMeta) \in RowType
      BY <1>8 DEF RowOf, RowType
    <3> QED
      BY <3>1, <3>2, Sentinels
  <2>4. row'[P] = RowOf(j.seg, NoMeta)
    BY <1>1, <2>1, <2>2, <2>3 DEF Recorded, RowOf, HasRow, Row
  <2>5. Stored(P) = [data |-> After(j), whole |-> NoMeta]
    BY <1>5, <1>9, <1>15, <2>1, <2>2, <2>3, Sentinels DEF Stored, RowOf
  <2>6. Stored(P)' = [data |-> After(j), whole |-> NoMeta]
    BY <1>9, <1>15, <2>1, <2>2, <2>3, <2>4, Sentinels DEF Stored, RowOf
  <2> QED
    BY <1>7, <2>5, <2>6
<1>16. ASSUME SaveMetadata(w), P \notin damaged PROVE Goal
  <2>1. /\ at[w] = "meta" /\ at'[w] = "succeed" /\ disk' = disk /\ damaged' = damaged
        /\ HasRow(w) => row'[P] = [row[P] EXCEPT !.meta = j.version]
    BY <1>1, <1>2, <1>16 DEF SaveMetadata, Goes, History, Typed
  <2>2. disk[P] = After(j) /\ row[P] = RowOf(j.seg, NoMeta) /\ Final(j)
    BY <1>1, <1>4, <1>11, <1>16, <2>1 DEF Stands, Row
  <2>3. RowOf(j.seg, NoMeta) # NoRow /\ RowOf(j.seg, j.version) # NoRow
    BY <1>8, Sentinels DEF RowOf, RowType
  <2>4. [RowOf(j.seg, NoMeta) EXCEPT !.meta = j.version] = RowOf(j.seg, j.version)
    BY DEF RowOf
  <2>5. row'[P] = RowOf(j.seg, j.version)
    BY <1>1, <2>1, <2>2, <2>3, <2>4 DEF HasRow, Row
  <2>6. Stored(P) = Remote!Holding(After(j), NoMeta)
    BY <1>5, <1>9, <1>16, <2>1, <2>2, <2>3, Sentinels DEF Stored, RowOf, Remote!Holding
  <2>7. Stored(P)' = Remote!Holding(After(j), j.version)
    BY <1>6, <1>9, <1>16, <2>1, <2>2, <2>3, <2>5, Sentinels DEF Stored, RowOf, Remote!Holding
  <2>8. Remote!Growing(Stored(P)) /\ Stored(P).data = After(j) /\ After(j) = Content(j.version)
    BY <1>9, <2>2, <2>6, KeptIsHeld, AfterLast DEF Remote!Growing, Remote!Holding
  <2>9. Remote!Finish(Stored(P), Stored(P)')
    BY <1>8, <2>7, <2>8 DEF Remote!Finish
  <2> QED
    BY <2>9 DEF Remote!Step
<1>17. ASSUME Unlink(w), P \notin damaged PROVE Goal
  <2>1. disk'[P] = NoFile /\ damaged' = damaged
    BY <1>1, <1>2, <1>17 DEF Unlink, RemoveFile, History, Typed
  <2>2. Stored(P)' = NoFile
    BY <1>17, <2>1 DEF Stored
  <2>3. CASE disk[P] = NoFile
    BY <1>7, <1>17, <2>2, <2>3 DEF Stored
  <2>4. CASE disk[P] # NoFile
    <3>1. disk[P] \in Data /\ row[P] \in RowType \cup {NoRow}
      BY <1>2, <2>4 DEF Typed
    <3>2. PICK m \in Version \cup {NoMeta} : Stored(P) = Remote!Holding(disk[P], m)
      BY <1>17, <2>4, <3>1 DEF Stored, Remote!Holding, RowType
    <3> QED
      BY <2>2, <3>1, <3>2, KeptIsHeld DEF Remote!Step, Remote!Drop
  <2> QED
    BY <2>3, <2>4
<1>18. ASSUME Discard(w) \/ DeleteRow(w, "discard_row", "fail"), P \notin damaged PROVE Goal
  BY <1>4, <1>11, <1>18 DEF Stands, Discard, RemoveFile, DeleteRow
<1>19. ASSUME DeleteRow(w, "delete_row", "succeed"), P \notin damaged PROVE Goal
  <2>1. at[w] = "delete_row" /\ disk' = disk /\ damaged' = damaged
    BY <1>19 DEF DeleteRow, History
  <2>2. disk[P] = NoFile
    BY <1>1, <1>4, <1>11, <1>19, <2>1 DEF Stands
  <2> QED
    BY <1>7, <1>19, <2>1, <2>2 DEF Stored
<1>20. ASSUME StepFails(w) \/ PrepareFails(w) PROVE Goal
  <2>1. /\ disk' = disk /\ row' = row
        /\ damaged' = IF at[w] \in {"record", "delete_row", "discard_row"}
                      THEN damaged \cup {P} ELSE damaged
        /\ at[w] # "write" /\ at'[w] \notin {"write", "record"}
    BY <1>1, <1>2, <1>20 DEF StepFails, PrepareFails, Refused, AfterRecord, Goes, Typed
  <2>2. CASE at[w] \in {"record", "delete_row", "discard_row"}
    BY <2>1, <2>2 DEF Stored, Remote!Step, Remote!Tear
  <2>3. CASE at[w] \notin {"record", "delete_row", "discard_row"}
    BY <1>5, <1>6, <1>7, <2>1, <2>3, StoredSame
  <2> QED
    BY <2>2, <2>3
<1>21. ASSUME Succeeds(w) PROVE Goal
  <2>1. /\ at[w] = "succeed" /\ disk' = disk /\ row' = row
        /\ damaged' = IF Restarts(w) THEN damaged \ {P} ELSE damaged
        /\ at'[w] \notin {"write", "record"}
    BY <1>1, <1>2, <1>21 DEF Succeeds, Goes, Typed
  <2>2. CASE P \in damaged /\ Restarts(w)
    <3>1. Stored(P) = Torn /\ P \notin damaged'
      BY <2>1, <2>2 DEF Stored
    <3>2. w \notin erred /\ j.seg = 0 /\ Stands(w)
      BY <1>1, <1>4, <2>2 DEF Restarts, Tracked
    <3>3. CASE j.op = "remove"
      <4>1. Stored(P)' = NoFile
        BY <1>1, <2>1, <3>1, <3>2, <3>3 DEF Stands, Stored
      <4> QED
        BY <3>1, <4>1 DEF Remote!Step, Remote!Mend
    <3>4. CASE j.op = "upload"
      <4>1. disk[P] = After(j) /\ row[P] \in Reported(j)
        BY <1>1, <2>1, <3>2, <3>4 DEF Stands, Row
      <4>2. After(j) = Remote!First(1, j.version) /\ Len(Content(j.version)) = Segs[j.version]
        BY <1>8, <1>9, <3>2, FirstIsUpto, ContentIsUpto
      <4>3. \/ row[P] = RowOf(0, NoMeta)
            \/ row[P] = RowOf(0, j.version) /\ Segs[j.version] = 1
        BY <3>2, <4>1 DEF Reported, Final
      <4>4. Stored(P)' = [data |-> After(j), whole |-> row[P].meta]
        <5>1. RowOf(0, NoMeta) # NoRow /\ RowOf(0, j.version) # NoRow
          BY <1>8, Sentinels DEF RowOf, RowType
        <5> QED
          BY <1>6, <1>9, <2>1, <3>1, <4>1, <4>3, <5>1, Sentinels DEF Stored
      <4>5. CASE row[P] = RowOf(0, NoMeta)
        BY <1>8, <3>1, <4>2, <4>4, <4>5 DEF Remote!Step, Remote!Mend, Remote!Holding, RowOf
      <4>6. CASE row[P] = RowOf(0, j.version) /\ Segs[j.version] = 1
        BY <1>8, <3>1, <4>2, <4>4, <4>6 DEF Remote!Step, Remote!Mend, Remote!Holding, RowOf
      <4> QED
        BY <4>3, <4>5, <4>6
    <3> QED
      BY <3>3, <3>4 DEF Job
  <2>3. CASE ~(P \in damaged /\ Restarts(w))
    <3>1. P \in damaged' <=> P \in damaged
      BY <2>1, <2>3
    <3> QED
      BY <1>5, <1>6, <1>7, <2>1, <3>1, StoredSame
  <2> QED
    BY <2>2, <2>3
<1>22. ASSUME OpenFile(w) \/ WriteData(w) \/ RecordSegment(w) \/ SaveMetadata(w) \/ Unlink(w)
              \/ Discard(w) \/ DeleteRow(w, "discard_row", "fail")
              \/ DeleteRow(w, "delete_row", "succeed")
       PROVE  Goal
  <2>1. damaged' = damaged
    BY <1>22 DEF OpenFile, WriteData, RecordSegment, SaveMetadata, Unlink, Discard, RemoveFile,
       DeleteRow, History
  <2>2. CASE P \in damaged
    BY <1>10, <2>1, <2>2
  <2>3. CASE P \notin damaged
    BY <1>13, <1>14, <1>15, <1>16, <1>17, <1>18, <1>19, <1>22, <2>3
  <2> QED
    BY <2>2, <2>3
<1> QED
  BY <1>12, <1>20, <1>21, <1>22 DEF Serves

(* Every step is, of each path, a step of RemoteStore or none. *)
LEMMA RemoteStep ==
    ASSUME SingleWriter, NonEmpty, Common, Single, [Next]_vars, NEW p \in Path
    PROVE  Remote!Step(Stored(p), Stored(p)')
<1>1. Common' /\ Typed /\ at \in [Worker -> Place] /\ job \in [Worker -> Job]
  BY CommonStep DEF Common, Typed
<1>2. ASSUME Stored(p)' = Stored(p) PROVE Remote!Step(Stored(p), Stored(p)')
  BY <1>2 DEF Remote!Step
<1>3. ASSUME NEW w \in Worker, BeginUpload(w) \/ BeginRemove(w) \/ SendNext(w) \/ GivesUp(w)
      PROVE  Stored(p)' = Stored(p)
  <2>1. /\ disk' = disk /\ row' = row /\ damaged' = damaged
        /\ at[w] \notin {"write", "record"} /\ at'[w] \notin {"write", "record"}
        /\ \A x \in Worker \ {w} : at'[x] = at[x] /\ job'[x] = job[x]
    BY <1>1, <1>3 DEF BeginUpload, BeginRemove, Begins, SendNext, GivesUp, Goes, History
  <2>2. Superseded(p)' <=> Superseded(p)
    BY <2>1 DEF Superseded
  <2> QED
    BY <2>1, <2>2, StoredSame
<1>4. ASSUME NEW w \in Worker, Serves(w) PROVE Remote!Step(Stored(p), Stored(p)')
  <2>1. PICK P \in Path : P = PathOf(w)
    BY <1>1 DEF PathOf, Job
  <2>2. Local(w, P)
    BY <1>4, <2>1, ServesIsLocal
  <2>3. CASE p = P
    BY <1>4, <2>1, <2>3, RemoteServes
  <2>4. CASE p # P
    BY <1>1, <1>2, <2>2, <2>4, OthersSame
  <2> QED
    BY <2>3, <2>4
<1>5. ASSUME Cleanup \/ UNCHANGED vars PROVE Stored(p)' = Stored(p)
  <2>1. UNCHANGED <<disk, row, at, job, damaged>>
    BY <1>5 DEF Cleanup, vars, Around, History
  <2>2. Superseded(p)' <=> Superseded(p)
    BY <2>1 DEF Superseded
  <2> QED
    BY <2>1, <2>2, StoredSame
<1>6. ASSUME Crash PROVE Remote!Step(Stored(p), Stored(p)')
  <2>1. /\ \A w \in Worker : at'[w] = "none"
        /\ disk' = disk /\ row' = row
        /\ damaged' = damaged \cup {PathOf(w) : w \in {x \in Worker : at[x] \in TornAt}}
    BY <1>6 DEF Crash
  <2>2. CASE p \in damaged'
    BY <2>2 DEF Stored, Remote!Step, Remote!Tear
  <2>3. CASE p \notin damaged'
    <3>1. p \notin damaged /\ ~Superseded(p)
      BY <2>1, <2>3 DEF Superseded, TornAt, PathOf
    <3>2. ~Superseded(p)'
      BY <2>1 DEF Superseded
    <3> QED
      BY <1>2, <2>1, <2>3, <3>1, <3>2, StoredSame
  <2> QED
    BY <2>2, <2>3
<1>7. ASSUME ClearStops PROVE Stored(p)' = Stored(p)
  <2>1. /\ \A w \in Worker : at'[w] = "none" /\ at[w] \notin {"write", "record"}
        /\ UNCHANGED <<disk, row, damaged>>
    BY <1>7 DEF ClearStops, Busy, History
  <2>2. ~Superseded(p)' /\ ~Superseded(p)
    BY <2>1 DEF Superseded
  <2> QED
    BY <2>1, <2>2, StoredSame
<1>8. ASSUME NEW q \in Path, ClearFile(q) PROVE Remote!Step(Stored(p), Stored(p)')
  <2>1. /\ \A w \in Worker : at'[w] = "none" /\ at[w] = "none"
        /\ q \in damaged' /\ row' = row
        /\ \A x \in Path \ {q} : disk'[x] = disk[x] /\ (x \in damaged' <=> x \in damaged)
    BY <1>1, <1>8 DEF ClearFile, Common, ClearedAlone, Typed
  <2>2. CASE p = q
    BY <2>1, <2>2 DEF Stored, Remote!Step, Remote!Tear
  <2>3. CASE p # q
    <3>1. ~Superseded(p)' /\ ~Superseded(p)
      BY <2>1 DEF Superseded
    <3> QED
      BY <1>2, <2>1, <2>3, <3>1, StoredSame
  <2> QED
    BY <2>2, <2>3
<1>9. ASSUME ClearRows PROVE Remote!Step(Stored(p), Stored(p)')
  <2>1. disk[p] = NoFile /\ disk' = disk /\ damaged' = {}
    BY <1>9 DEF ClearRows
  <2>2. Stored(p)' = NoFile /\ Stored(p) \in {NoFile, Torn}
    BY <2>1 DEF Stored
  <2> QED
    BY <2>2 DEF Remote!Step, Remote!Mend
<1> QED
  BY <1>2, <1>3, <1>4, <1>5, <1>6, <1>7, <1>8, <1>9 DEF Next

(* The store implements RemoteStore: what the server keeps and says of a   *)
(* file goes through the segments of one version in their order to the     *)
(* whole of it, and only a crash, a refused statement or half of clear()   *)
(* tears it.                                                               *)
THEOREM StoreImplementsRemote ==
    ASSUME SingleWriter, NonEmpty
    PROVE  Spec => ImplementsStore
<1>1. Init => Remote!Init
  BY DEF Init, Remote!Init, Stored
<1>2. Common /\ Single /\ [Next]_vars => Remote!Next
  BY RemoteStep DEF Remote!Next
<1> QED
  BY <1>1, <1>2, StoreSingle, PTL DEF Spec, ImplementsStore, Remote!Spec
=============================================================================
