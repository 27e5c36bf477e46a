---------------------------- MODULE BackupProofs ----------------------------
(***************************************************************************)
(* Proofs about Backup for any paths, contents, segments, edits, starts    *)
(* and lost requests: what the server reports as complete was on the       *)
(* client's disk, if there was one file there in that second.              *)
(***************************************************************************)
EXTENDS Backup, SequenceTheorems, TLAPS

----------------------------------------------------------------------------
(* The inductive invariant.                                                *)

Data == Seq(Piece)
Metas == [time : Nat, size : Nat, sum : Data]
DiskFiles == [data : Data, time : Nat]
Copies == [data : Data, last : Nat, meta : Metas]
Looks == [path : Path \cup {NoLook.path}, step : Steps, meta : Metas,
          length : Nat, source : Data \cup {NoFile}]
UpAt == {"idle", "open", "read", "send", "abort", "remove"}
Transfers == [at : UpAt, meta : Metas, read : Data, seg : Nat, data : Data,
              source : Data \cup {NoFile}]

Typed ==
    /\ clock \in Nat
    /\ disk \in [Path -> DiskFiles \cup {NoFile}]
    /\ past \subseteq Path \X Data \X Nat
    /\ files \in [Path -> Metas \cup {NoFile}]
    /\ store \in [Path -> Copies \cup {NoFile}]
    /\ look \in Looks
    /\ look.step # "none" => look.path \in Path
    /\ backlog \in [Path -> SUBSET Nat]
    /\ sending \in [Path -> SUBSET Nat]
    /\ next_id \in Nat
    /\ up \in [Path -> Transfers]

(* Every file on the disk has been noted, with a time that is past. *)
DiskInv ==
    \A p \in Path : Here(p) =>
        /\ disk[p].time <= clock
        /\ <<p, disk[p].data, disk[p].time>> \in past

(* A file of second t may still be found at p, and only one can. *)
Live(p, t) ==
    /\ OneFileAt(p, t)
    /\ clock = t \/ (Here(p) /\ disk[p].time = t)

(* What the watcher has put together of p: as long as somebody may find a  *)
(* file with this time, the checksum is that file's.  Of a file that has   *)
(* changed since it may be anything.                                       *)
Sampled(p, m) ==
    /\ m \in Metas
    /\ m.time <= clock
    /\ Live(p, m.time) => <<p, m.sum, m.time>> \in past

(* What the watcher reads of p: what it has opened stays readable, ...     *)
LookOpen ==
    /\ look.step = "fetch" => at = "restore"
    /\ look.step \notin {"length", "sum", "note"} =>
         look.source = NoFile /\ look.meta.sum = <<>>
    /\ look.step = "length" => look.meta.sum = <<>>
    /\ look.step \in {"length", "sum"} /\ look.source = NoFile => Here(look.path)

Looking == at \in {"scan", "visit"} /\ look.step \in {"again", "size", "open", "length", "sum"}

(* ... it was written when its time says or later, ... *)
LookTime ==
    Looking =>
        /\ look.meta.time <= clock
        /\ Here(look.path) => look.meta.time <= disk[look.path].time
        /\ \E x \in past : x[1] = look.path /\ x[3] = look.meta.time

Starts(sum, data) == Len(sum) <= Len(data) /\ \A i \in 1 .. Len(sum) : sum[i] = data[i]

(* ... and the checksum so far is that of the beginning of a file of that  *)
(* time, if there still is one.                                            *)
SumOf(x) ==
    /\ x[1] = look.path /\ x[3] = look.meta.time
    /\ look.source # NoFile => look.source = x[2]
    /\ look.step = "sum" => look.length = Len(x[2]) /\ Starts(look.meta.sum, x[2])

LookSum ==
    /\ Looking /\ look.step \in {"length", "sum"} /\ Live(look.path, look.meta.time)
         => \E x \in past : SumOf(x)
    /\ at \in {"scan", "visit"} /\ look.step = "note" => Sampled(look.path, look.meta)

LookInv == LookOpen /\ LookTime /\ LookSum

FilesInv == \A p \in Path : files[p] # NoFile => Sampled(p, files[p])

(* Operations are numbered in order, one number on one path. *)
QueueInv ==
    \A p \in Path :
        /\ sending[p] \subseteq backlog[p]
        /\ \A i \in backlog[p] :
             /\ i < next_id /\ i \in DOMAIN ops
             /\ \A q \in Path : i \in backlog[q] => q = p
             /\ ops[i].command = "upload" => Sampled(p, ops[i].meta)

(* What a sender reads is no older than the time it will report. *)
SourceInv(p) ==
    /\ up[p].meta.time <= clock
    /\ up[p].source = NoFile => Here(p) /\ up[p].meta.time <= disk[p].time
    /\ up[p].source # NoFile =>
         \E x \in past : x[1] = p /\ up[p].meta.time <= x[3] /\ x[2] = up[p].source
    /\ Placed(p, up[p].meta.time, up[p].read)

(* The server has the segments before this one. *)
Follows(p) ==
    IF up[p].seg = 0 THEN up[p].read = up[p].data
    ELSE /\ store[p] # NoFile /\ store[p].meta = Blank /\ up[p].meta.size # 0
         /\ store[p].data \o up[p].data = up[p].read

UpInv(p) ==
    /\ up[p].at = "idle" <=> sending[p] = {}
    /\ up[p].at \in {"idle", "open"} =>
         up[p].read = <<>> /\ up[p].data = <<>> /\ up[p].seg = 0 /\ up[p].source = NoFile
    /\ up[p].at \in {"open", "read", "send"} => Op(p).command = "upload"
    /\ up[p].at \in {"read", "send"} =>
         /\ OneFileAt(p, up[p].meta.time) => <<p, Op(p).meta.sum, up[p].meta.time>> \in past
         /\ SourceInv(p)
         /\ Follows(p)
         /\ up[p].meta.size = 0 => up[p].read = <<>>
    /\ up[p].at = "send" /\ LastSegment(p, up[p].read) => up[p].read = Op(p).meta.sum

(* What the row of a whole file says of it. *)
RowInv(p, data, m) ==
    m # Blank =>
        /\ data = m.sum
        /\ m.size = Len(m.sum)
        /\ OneFileAt(p, m.time) => <<p, m.sum, m.time>> \in past
        /\ Placed(p, m.time, m.sum)

StoreInv == \A p \in Path : store[p] # NoFile => RowInv(p, store[p].data, store[p].meta)

IInv ==
    /\ Typed /\ DiskInv /\ LookInv /\ FilesInv /\ QueueInv /\ StoreInv
    /\ \A p \in Path : UpInv(p)

----------------------------------------------------------------------------
(* Data.                                                                   *)

(* Sequences of pieces. *)
LEMMA DataOps ==
    ASSUME NEW d \in Data
    PROVE  /\ Len(d) \in Nat /\ DOMAIN d = 1 .. Len(d)
           /\ Len(d) = 0 <=> d = <<>>
           /\ \A x \in Piece : /\ Append(d, x) \in Data
                               /\ Len(Append(d, x)) = Len(d) + 1
                               /\ Append(d, x)[Len(d) + 1] = x
                               /\ \A i \in 1 .. Len(d) : Append(d, x)[i] = d[i]
           /\ \A i \in Nat : i < Len(d) => d[i + 1] \in Piece
<1>1. d \in Seq(Piece)
  BY DEF Data
<1>2. ASSUME NEW x \in Piece
      PROVE  /\ Append(d, x) \in Data
             /\ Len(Append(d, x)) = Len(d) + 1 /\ Append(d, x)[Len(d) + 1] = x
             /\ \A i \in 1 .. Len(d) : Append(d, x)[i] = d[i]
  BY <1>1, AppendProperties DEF Data
<1>3. Len(d) \in Nat /\ (Len(d) = 0 <=> d = <<>>) /\ DOMAIN d = 1 .. Len(d)
  BY <1>1, EmptySeq, LenProperties
<1>4. \A i \in Nat : i < Len(d) => d[i + 1] \in Piece
  <2> TAKE i \in Nat
  <2> HAVE i < Len(d)
  <2>1. i + 1 \in 1 .. Len(d)
    BY <1>3
  <2> QED
    BY <1>1, <2>1, ElementOfSeq
<1> QED
  BY <1>2, <1>3, <1>4

(* Nothing. *)
LEMMA DataNone == <<>> \in Data /\ Len(<<>>) = 0
BY DEF Data

(* Concatenation. *)
LEMMA DataConcat ==
    ASSUME NEW d \in Data, NEW e \in Data
    PROVE  d \o e \in Data /\ d \o <<>> = d
BY ConcatProperties, ConcatEmptySeq DEF Data

LEMMA DataConcatAppend ==
    ASSUME NEW d \in Data, NEW e \in Data, NEW x \in Piece
    PROVE  d \o Append(e, x) = Append(d \o e, x)
<1>1. d \in Seq(Piece) /\ e \in Seq(Piece) /\ <<x>> \in Seq(Piece) /\ d \o e \in Seq(Piece)
  BY ConcatProperties DEF Data
<1>2. Append(e, x) = e \o <<x>> /\ Append(d \o e, x) = (d \o e) \o <<x>>
  BY <1>1, AppendIsConcat
<1> QED
  BY <1>1, <1>2, ConcatAssociative

(* The contents of a version. *)
LEMMA ContentIsData ==
    ASSUME NEW v \in Version
    PROVE  Content[v] \in Data
BY BackupAssumption DEF Data

(* The beginning of a file: nothing, a piece more, all of it. *)
LEMMA StartsFrom ==
    ASSUME NEW d \in Data
    PROVE  /\ Starts(<<>>, d)
           /\ \A s \in Data : Starts(s, d) /\ Len(s) < Len(d) =>
                /\ Append(s, d[Len(s) + 1]) \in Data
                /\ Len(Append(s, d[Len(s) + 1])) = Len(s) + 1
                /\ Starts(Append(s, d[Len(s) + 1]), d)
           /\ \A s \in Data : Starts(s, d) /\ Len(s) = Len(d) => s = d
<1>1. Starts(<<>>, d)
  BY DataNone, DataOps DEF Starts
<1>2. ASSUME NEW s \in Data, Starts(s, d), Len(s) < Len(d)
      PROVE  /\ Append(s, d[Len(s) + 1]) \in Data
             /\ Len(Append(s, d[Len(s) + 1])) = Len(s) + 1
             /\ Starts(Append(s, d[Len(s) + 1]), d)
  <2> DEFINE x == d[Len(s) + 1]
             r == Append(s, x)
  <2>1. Len(s) \in Nat /\ Len(d) \in Nat /\ x \in Piece
    BY <1>2, DataOps
  <2> HIDE DEF x
  <2>2. /\ r \in Data /\ Len(r) = Len(s) + 1 /\ r[Len(s) + 1] = x
        /\ \A i \in 1 .. Len(s) : r[i] = s[i]
    BY <2>1, DataOps
  <2> HIDE DEF r
  <2>3. \A i \in 1 .. Len(r) : r[i] = d[i]
    <3> TAKE i \in 1 .. Len(r)
    <3>1. CASE i = Len(s) + 1
      BY <2>2, <3>1 DEF x
    <3>2. CASE i # Len(s) + 1
      <4>1. i \in 1 .. Len(s)
        BY <2>1, <2>2, <3>2
      <4> QED
        BY <1>2, <2>2, <4>1 DEF Starts
    <3> QED
      BY <3>1, <3>2
  <2>4. Len(r) <= Len(d)
    BY <1>2, <2>1, <2>2
  <2> QED
    BY <2>2, <2>3, <2>4 DEF Starts, r, x
<1>3. ASSUME NEW s \in Data, Starts(s, d), Len(s) = Len(d)
      PROVE  s = d
  <2>1. s \in Seq(Piece) /\ d \in Seq(Piece)
    BY DEF Data
  <2>2. \A i \in 1 .. Len(s) : s[i] = d[i]
    BY <1>3 DEF Starts
  <2> QED
    BY <1>3, <2>1, <2>2, SeqEqual
<1> QED
  BY <1>1, <1>2, <1>3

(* Metadata. *)
LEMMA MetaTypes ==
    /\ Blank \in Metas
    /\ \A f \in DiskFiles : f # NoFile => MetaOf(f) \in Metas /\ MetaOf(f).time = f.time
                                          /\ MetaOf(f).size = Len(f.data) /\ MetaOf(f).sum = f.data
    /\ NoLook \in Looks /\ NoLook.step = "none" /\ NoLook.meta = Blank
    /\ NoLook.source = NoFile /\ NoLook.meta.sum = <<>>
    /\ Idle \in Transfers /\ Idle.at = "idle" /\ Idle.read = <<>> /\ Idle.data = <<>>
    /\ Idle.seg = 0 /\ Idle.source = NoFile
<1>1. Blank \in Metas
  BY DataNone DEF Blank, Metas
<1>2. ASSUME NEW f \in DiskFiles, f # NoFile
      PROVE  MetaOf(f) \in Metas /\ MetaOf(f).time = f.time
             /\ MetaOf(f).size = Len(f.data) /\ MetaOf(f).sum = f.data
  BY <1>2, DataOps DEF DiskFiles, MetaOf, Metas
<1>3. NoLook \in Looks /\ NoLook.step = "none" /\ NoLook.meta = Blank
      /\ NoLook.source = NoFile /\ NoLook.meta.sum = <<>>
  BY <1>1 DEF NoLook, Looks, Steps, Blank
<1>4. Idle \in Transfers /\ Idle.at = "idle" /\ Idle.read = <<>> /\ Idle.data = <<>>
      /\ Idle.seg = 0 /\ Idle.source = NoFile
  BY <1>1, DataNone DEF Idle, Transfers, UpAt
<1> QED
  BY <1>1, <1>2, <1>3, <1>4

(* No file is no contents, no file, no metadata and no row. *)
LEMMA Sentinel ==
    NoFile \notin Data /\ NoFile \notin DiskFiles /\ NoFile \notin Metas /\ NoFile \notin Copies
BY BackupAssumption DEF Data, DiskFiles, Metas, Copies

(* The past. *)
LEMMA PastTypes ==
    ASSUME Typed, NEW x \in past
    PROVE  x[1] \in Path /\ x[2] \in Data /\ x[3] \in Nat /\ x = <<x[1], x[2], x[3]>>
BY DEF Typed

----------------------------------------------------------------------------
(* The disk.                                                               *)

(* A file is written. *)
LEMMA Writes ==
    ASSUME Typed, NEW p \in Path, NEW f \in DiskFiles, Becomes(p, f)
    PROVE  /\ disk' = [disk EXCEPT ![p] = f]
           /\ disk' \in [Path -> DiskFiles \cup {NoFile}]
           /\ past' = past \cup {<<p, f.data, f.time>>}
           /\ past' \subseteq Path \X Data \X Nat
<1>1. f # NoFile /\ f.data \in Data /\ f.time \in Nat
  BY Sentinel DEF DiskFiles
<1>2. past' = past \cup {<<p, f.data, f.time>>} /\ disk' = [disk EXCEPT ![p] = f]
  BY <1>1 DEF Becomes
<1> QED
  BY <1>1, <1>2 DEF Typed

(* A file is removed. *)
LEMMA Removes ==
    ASSUME Typed, NEW p \in Path, Here(p), Becomes(p, NoFile), Unlinks(p)
    PROVE  /\ disk' = [disk EXCEPT ![p] = NoFile]
           /\ disk' \in [Path -> DiskFiles \cup {NoFile}]
           /\ past' = past
           /\ up' \in [Path -> Transfers]
           /\ \A q \in Path : q # p => up'[q] = up[q]
           /\ /\ up'[p].at = up[p].at /\ up'[p].meta = up[p].meta
              /\ up'[p].read = up[p].read /\ up'[p].data = up[p].data
              /\ up'[p].seg = up[p].seg
           /\ up'[p].source = IF up[p].at \in {"read", "send"} /\ up[p].source = NoFile
                              THEN disk[p].data ELSE up[p].source
           /\ look' \in Looks
           /\ look'.path = look.path /\ look'.step = look.step /\ look'.meta = look.meta
           /\ look'.length = look.length
           /\ look'.source = IF /\ look.path = p /\ look.step \in {"length", "sum"}
                                /\ look.source = NoFile
                             THEN disk[p].data ELSE look.source
<1>1. disk[p] \in DiskFiles /\ disk[p].data \in Data /\ disk[p].data # NoFile
  BY Sentinel DEF Typed, Here, DiskFiles
<1>2. up \in [Path -> Transfers] /\ look \in Looks
  BY DEF Typed
<1>3. /\ disk' = [disk EXCEPT ![p] = NoFile]
      /\ disk' \in [Path -> DiskFiles \cup {NoFile}]
      /\ past' = past
  BY DEF Becomes, Typed
<1>4. /\ up' \in [Path -> Transfers]
      /\ \A q \in Path : q # p => up'[q] = up[q]
      /\ /\ up'[p].at = up[p].at /\ up'[p].meta = up[p].meta
         /\ up'[p].read = up[p].read /\ up'[p].data = up[p].data
         /\ up'[p].seg = up[p].seg
      /\ up'[p].source = IF up[p].at \in {"read", "send"} /\ up[p].source = NoFile
                         THEN disk[p].data ELSE up[p].source
  <2>1. CASE up[p].at \in {"read", "send"} /\ up[p].source = NoFile
    <3>1. up' = [up EXCEPT ![p].source = disk[p].data]
      BY <2>1 DEF Unlinks
    <3> QED
      BY <1>1, <1>2, <2>1, <3>1 DEF Transfers
  <2>2. CASE ~(up[p].at \in {"read", "send"} /\ up[p].source = NoFile)
    <3>1. up' = up
      BY <2>2 DEF Unlinks
    <3> QED
      BY <1>2, <2>2, <3>1
  <2> QED
    BY <2>1, <2>2
<1>5. /\ look' \in Looks
      /\ look'.path = look.path /\ look'.step = look.step /\ look'.meta = look.meta
      /\ look'.length = look.length
      /\ look'.source = IF look.path = p /\ look.step \in {"length", "sum"} /\ look.source = NoFile
                        THEN disk[p].data ELSE look.source
  <2>1. CASE look.path = p /\ look.step \in {"length", "sum"} /\ look.source = NoFile
    <3>1. look' = [look EXCEPT !.source = disk[p].data]
      BY <2>1 DEF Unlinks
    <3> QED
      BY <1>1, <1>2, <2>1, <3>1 DEF Looks
  <2>2. CASE ~(look.path = p /\ look.step \in {"length", "sum"} /\ look.source = NoFile)
    <3>1. look' = look
      BY <2>2 DEF Unlinks
    <3> QED
      BY <1>2, <2>2, <3>1
  <2> QED
    BY <2>1, <2>2
<1> QED
  BY <1>3, <1>4, <1>5

(* What the server sends of a file. *)
LEMMA ServedIsData ==
    ASSUME NEW p \in Path, NEW n \in Nat, store[p].data \in Data, n <= Len(store[p].data)
    PROVE  Served(p, n) \in Data
<1> DEFINE d == store[p].data
           m == Lesser(n + SegmentSize, Len(d))
<1>1. d \in Seq(Piece) /\ Len(d) \in Nat /\ SegmentSize \in Nat
  BY DataOps, BackupAssumption DEF Data
<1>2. m \in Nat /\ m <= Len(d)
  BY <1>1 DEF Lesser
<1> HIDE DEF m
<1>3. \A i \in n + 1 .. m : d[i] \in Piece
  <2> TAKE i \in n + 1 .. m
  <2>1. i \in 1 .. Len(d)
    BY <1>1, <1>2
  <2> QED
    BY <1>1, <2>1, ElementOfSeq
<1>4. SubSeq(d, n + 1, m) \in Seq(Piece)
  BY <1>2, <1>3, SubSeqProperties
<1> QED
  BY <1>4 DEF Served, Data, m

(* What a restore writes. *)
LEMMA RestoreWrites ==
    ASSUME Typed, NEW t \in {clock, clock + 1}, RestoreSegment(t)
    PROVE  /\ look.path \in Path /\ look.step = "fetch"
           /\ \E f \in DiskFiles : Becomes(look.path, f) /\ f.time = t
           /\ look' \in Looks /\ look'.step \in {"open", "fetch"} /\ look'.path = look.path
           /\ look'.meta = look.meta /\ look'.source = look.source
           /\ clock' = t /\ t \in Nat
<1> DEFINE p == look.path
           n == look.length
           old == IF n = 0 \/ ~Here(p) THEN <<>> ELSE disk[p].data
           new == old \o Served(p, n)
<1>1. p \in Path /\ n \in Nat /\ look \in Looks /\ look.step = "fetch" /\ t \in Nat
  <2>1. look.step = "fetch"
    BY DEF RestoreSegment
  <2>2. look \in Looks /\ look.path \in Path /\ clock \in Nat
    BY <2>1 DEF Typed
  <2>3. look.length \in Nat
    BY <2>2 DEF Looks
  <2> QED
    BY <2>1, <2>2, <2>3
<1>2. store[p] \in Copies /\ store[p].data \in Data /\ n <= Len(store[p].data)
  BY <1>1 DEF Typed, RestoreSegment, Readable, Copies
<1>3. old \in Data
  BY <1>1, DataNone DEF Typed, Here, DiskFiles
<1>4. Served(p, n) \in Data
  BY <1>1, <1>2, ServedIsData
<1>5. [data |-> new, time |-> t] \in DiskFiles
  BY <1>1, <1>3, <1>4, DataConcat DEF DiskFiles
<1>6. Becomes(p, [data |-> new, time |-> t]) /\ clock' = t
  BY DEF RestoreSegment
<1>7. \/ look' = [look EXCEPT !.length = n + SegmentSize]
      \/ look' = [look EXCEPT !.step = "open"]
  BY DEF RestoreSegment
<1>8. look' \in Looks /\ look'.step \in {"open", "fetch"} /\ look'.path = look.path
      /\ look'.meta = look.meta /\ look'.source = look.source
  BY <1>1, <1>7, BackupAssumption DEF Looks, Steps
<1> QED
  BY <1>1, <1>5, <1>6, <1>8

(* Time goes on, and with it the files.                                    *)
Flow ==
    /\ clock \in Nat /\ clock' \in Nat /\ clock <= clock'
    /\ past \subseteq past' /\ past' \subseteq Path \X Data \X Nat
    /\ disk' \in [Path -> DiskFiles \cup {NoFile}]
    /\ \A p \in Path : disk'[p] # NoFile =>
         \/ disk'[p] = disk[p] /\ disk[p] # NoFile
         \/ clock <= disk'[p].time
    /\ DiskInv'

(* Writing a file in the present. *)
LEMMA WriteFlows ==
    ASSUME Typed, DiskInv, NEW p \in Path, NEW f \in DiskFiles, Becomes(p, f),
           f.time \in {clock, clock + 1}, clock' = f.time
    PROVE  Flow
<1>1. /\ disk' = [disk EXCEPT ![p] = f] /\ past' = past \cup {<<p, f.data, f.time>>}
      /\ disk \in [Path -> DiskFiles \cup {NoFile}] /\ clock \in Nat
      /\ past' \subseteq Path \X Data \X Nat
  BY Writes DEF Typed
<1>2. clock' \in Nat /\ clock <= clock' /\ f.time <= clock' /\ clock <= f.time
  BY <1>1
<1>3. \A q \in Path : disk[q] # NoFile => disk[q].time \in Nat
  BY <1>1 DEF DiskFiles
<1>4. DiskInv'
  BY <1>1, <1>2, <1>3 DEF DiskInv, Here
<1> QED
  BY <1>1, <1>2, <1>4 DEF Flow

(* The steps of the watcher that write no file. *)
LEMMA WatcherWritesNot ==
    ASSUME WatcherStep, \A t \in {clock, clock + 1} : ~RestoreSegment(t)
    PROVE  UNCHANGED <<userVars, up, store>>
BY DEF WatcherStep, Probe, NextLoop, RestoreChecks, RestoreThrows, Ends, ReadTime, ReadTimeAgain,
   ReadSize, OpenSum, ReadLength, ReadSum, ReadFails, NoteFile, RestoreStarts, LooksAt, EraseFile,
   CompareFile, Reads, Throws

(* Every step goes with time. *)
LEMMA Flows == Typed /\ DiskInv /\ [Next]_vars => Flow
<1> SUFFICES ASSUME Typed, DiskInv, [Next]_vars PROVE Flow
  OBVIOUS
<1>1. ASSUME UNCHANGED userVars PROVE Flow
  BY <1>1 DEF Flow, DiskInv, Here, Typed, userVars
<1>2. ASSUME UserEdits PROVE Flow
  <2>1. ASSUME NEW p \in Path, NEW v \in Version, NEW t \in {clock, clock + 1}, Write(p, v, t)
        PROVE  Flow
    <3>1. t \in Nat /\ clock' = t
      BY <2>1 DEF Typed, Write
    <3>2. [data |-> Content[v], time |-> t] \in DiskFiles
      BY <3>1, ContentIsData DEF DiskFiles
    <3>3. Becomes(p, [data |-> Content[v], time |-> t])
      BY <2>1 DEF Write
    <3> QED
      BY <3>1, <3>2, <3>3, WriteFlows
  <2>2. ASSUME NEW p \in Path, Remove(p) PROVE Flow
    <3>1. /\ disk' = [disk EXCEPT ![p] = NoFile] /\ past' = past /\ clock' = clock
          /\ disk \in [Path -> DiskFiles \cup {NoFile}] /\ clock \in Nat
          /\ past \subseteq Path \X Data \X Nat
      BY <2>2, Removes DEF Remove, Typed
    <3> QED
      BY <3>1 DEF Flow, DiskInv, Here
  <2> QED
    BY <1>2, <2>1, <2>2 DEF UserEdits
<1>3. ASSUME NEW t \in {clock, clock + 1}, RestoreSegment(t) PROVE Flow
  BY <1>3, RestoreWrites, WriteFlows
<1>4. ASSUME WatcherStep, \A t \in {clock, clock + 1} : ~RestoreSegment(t)
      PROVE  UNCHANGED userVars
  BY <1>4, WatcherWritesNot
<1>5. ASSUME NEW p \in Path, SenderStep(p) \/ RequestFails(p) PROVE UNCHANGED userVars
  BY <1>5 DEF SenderStep, RequestFails, Takes, UploadOpens, UploadReads, UploadStops, UploadSends,
     RemoveSends
<1>6. ASSUME Stop \/ WatcherRequestFails \/ UNCHANGED vars PROVE UNCHANGED userVars
  BY <1>6 DEF Stop, WatcherRequestFails, Ends, vars
<1>7. ASSUME StartsAgain PROVE Flow
  <2>1. /\ disk' = disk /\ past' = past /\ clock' \in {clock, clock + 1}
        /\ disk \in [Path -> DiskFiles \cup {NoFile}] /\ clock \in Nat
        /\ past \subseteq Path \X Data \X Nat
    BY <1>7 DEF StartsAgain, Typed
  <2>2. clock' \in Nat /\ clock <= clock'
    BY <2>1
  <2>3. ASSUME NEW p \in Path, disk[p] # NoFile PROVE disk[p].time <= clock'
    <3>1. disk[p].time \in Nat /\ disk[p].time <= clock
      BY <2>1, <2>3 DEF DiskFiles, DiskInv, Here
    <3> QED
      BY <2>1, <2>2, <3>1
  <2>4. DiskInv'
    BY <2>1, <2>3 DEF DiskInv, Here
  <2> QED
    BY <2>1, <2>2, <2>4 DEF Flow
<1> QED
  BY <1>1, <1>2, <1>3, <1>4, <1>5, <1>6, <1>7 DEF Next

(* A second in which a file was written twice stays one. *)
LEMMA OneFileWas ==
    ASSUME past \subseteq past', NEW p, NEW t, OneFileAt(p, t)'
    PROVE  OneFileAt(p, t)
BY DEF OneFileAt

(* What may still be found could be found before. *)
LEMMA LiveWas ==
    ASSUME Flow, NEW p \in Path, NEW t \in Nat, t <= clock, Live(p, t)'
    PROVE  Live(p, t)
<1>1. OneFileAt(p, t)
  BY OneFileWas DEF Live, Flow
<1>2. CASE clock' = t
  BY <1>1, <1>2 DEF Flow, Live
<1>3. CASE disk'[p] # NoFile /\ disk'[p].time = t
  <2>1. CASE disk'[p] = disk[p] /\ disk[p] # NoFile
    BY <1>1, <1>3, <2>1 DEF Live, Here
  <2>2. CASE clock <= disk'[p].time
    BY <1>1, <1>3, <2>2 DEF Live, Flow
  <2> QED
    BY <1>3, <2>1, <2>2 DEF Flow
<1> QED
  BY <1>2, <1>3 DEF Live, Here

(* What was sampled stays so. *)
LEMMA SampledStays ==
    ASSUME Flow, NEW p \in Path, NEW m, Sampled(p, m)
    PROVE  Sampled(p, m)'
<1>1. m \in Metas /\ m.time \in Nat /\ m.time <= clock
  BY DEF Sampled, Metas
<1>2. m.time <= clock'
  BY <1>1 DEF Flow
<1>3. ASSUME Live(p, m.time)' PROVE <<p, m.sum, m.time>> \in past'
  <2>1. Live(p, m.time)
    BY <1>1, <1>3, LiveWas
  <2> QED
    BY <2>1 DEF Sampled, Flow
<1> QED
  BY <1>1, <1>2, <1>3 DEF Sampled

(* Pieces stay placed. *)
LEMMA PlacedStays ==
    ASSUME past \subseteq past', NEW p, NEW t, NEW data, Placed(p, t, data)
    PROVE  Placed(p, t, data)'
BY DEF Placed

----------------------------------------------------------------------------
(* Types.                                                                  *)

(* A read of the watcher, or the end of one. *)
MetaReads == ReadTime \/ ReadTimeAgain \/ ReadSize \/ OpenSum \/ ReadLength \/ ReadSum

WatcherReads ==
    \/ Probe \/ NextLoop \/ MetaReads
    \/ RestoreChecks \/ RestoreThrows \/ WatcherRequestFails \/ ReadFails
    \/ \E p \in Path : RestoreStarts(p) \/ LooksAt(p)

(* It changes the watcher's own state and nothing else. *)
LEMMA ReadsOnly ==
    ASSUME WatcherReads
    PROVE  UNCHANGED <<userVars, files, queueVars, up, store>>
BY DEF WatcherReads, MetaReads, Probe, NextLoop, RestoreChecks, RestoreThrows, WatcherRequestFails,
   Ends, ReadTime, ReadTimeAgain, ReadSize, OpenSum, ReadLength, ReadSum, ReadFails, RestoreStarts,
   LooksAt, Reads, Throws

(* What it reads has its type. *)
LEMMA NowTypes ==
    ASSUME Typed, look.step # "none"
    PROVE  /\ look.path \in Path /\ look \in Looks /\ look.meta \in Metas
           /\ look.meta.sum \in Data /\ look.meta.time \in Nat /\ look.length \in Nat
           /\ Here(look.path) => /\ Now \in DiskFiles /\ Now.time \in Nat /\ Now.data \in Data
                                 /\ Len(Now.data) \in Nat
           /\ look.source # NoFile \/ Here(look.path) => LookSource \in Data
<1>1. look.path \in Path /\ look \in Looks /\ look.meta \in Metas
      /\ look.meta.sum \in Data /\ look.meta.time \in Nat /\ look.length \in Nat
  BY DEF Typed, Looks, Metas
<1>2. Here(look.path) => Now \in DiskFiles /\ Now.time \in Nat /\ Now.data \in Data
                         /\ Len(Now.data) \in Nat
  BY <1>1, DataOps DEF Typed, Here, Now, DiskFiles
<1>3. look.source # NoFile \/ Here(look.path) => LookSource \in Data
  BY <1>1, <1>2 DEF LookSource, Looks
<1> QED
  BY <1>1, <1>2, <1>3

(* What each read makes of what is known. *)
LEMMA MetaReadsTo ==
    ASSUME Typed, LookOpen, MetaReads, look' # NoLook
    PROVE  /\ look.step \in {"time", "again", "size", "open", "length", "sum"}
           /\ look' \in Looks /\ look'.path = look.path /\ look'.source = look.source /\ at' = at
           /\ ReadTime => /\ look.step = "time" /\ look'.step \in {"again", "size"}
                          /\ Here(look.path)
                          /\ look'.meta.time = Now.time /\ look'.meta.sum = look.meta.sum
           /\ ~ReadTime => look'.meta.time = look.meta.time
           /\ ReadTimeAgain \/ ReadSize =>
                /\ look.step \in {"again", "size"} /\ look'.step \in {"size", "open"}
                /\ look'.meta.sum = look.meta.sum
           /\ OpenSum => /\ look.step = "open" /\ look'.step = "length" /\ Here(look.path)
                         /\ look'.meta.sum = <<>>
           /\ ReadLength => /\ look.step = "length" /\ Here(look.path)
                            /\ look'.step = SumStep(<<>>, Len(Now.data))
                            /\ look'.length = Len(Now.data) /\ look'.meta.sum = look.meta.sum
           /\ ReadSum => /\ look.step = "sum" /\ Len(look.meta.sum) < Len(LookSource)
                         /\ look'.meta.sum = Append(look.meta.sum, LookSource[Len(look.meta.sum) + 1])
                         /\ look'.step = SumStep(look'.meta.sum, look.length)
                         /\ look'.length = look.length
<1>1. look.step \in {"time", "again", "size", "open", "length", "sum"}
  BY DEF MetaReads, ReadTime, ReadTimeAgain, ReadSize, OpenSum, ReadLength, ReadSum, Reads
<1>2. /\ look.path \in Path /\ look \in Looks /\ look.meta \in Metas
      /\ look.meta.sum \in Data /\ look.meta.time \in Nat /\ look.length \in Nat
      /\ Here(look.path) => /\ Now \in DiskFiles /\ Now.time \in Nat /\ Now.data \in Data
                            /\ Len(Now.data) \in Nat
      /\ look.source # NoFile \/ Here(look.path) => LookSource \in Data
  BY <1>1, NowTypes
<1>10. ASSUME NEW step \in Steps, NEW m \in Metas, GoesOn(step, m)
       PROVE  /\ look' \in Looks /\ look'.path = look.path /\ look'.source = look.source
              /\ look'.step = step /\ look'.meta = m /\ look'.length = look.length
              /\ at' = at
  <2>1. look' = [look EXCEPT !.step = step, !.meta = m] /\ at' = at
    BY <1>10 DEF GoesOn
  <2> QED
    BY <1>2, <2>1 DEF Looks
<1>11. \A step \in {"time", "again", "size", "open", "length", "sum", "note"} : step \in Steps
  BY DEF Steps
<1>3. CASE ReadTime
  <2> DEFINE m == [look.meta EXCEPT !.time = Now.time]
  <2>1. look.step = "time" /\ Here(look.path) /\ (GoesOn("again", m) \/ GoesOn("size", m))
    BY <1>3 DEF ReadTime, Reads
  <2>2. m \in Metas /\ m.time = Now.time /\ m.sum = look.meta.sum
    BY <1>2, <2>1 DEF Metas
  <2> HIDE DEF m
  <2>3. /\ look' \in Looks /\ look'.path = look.path /\ look'.source = look.source /\ at' = at
        /\ look'.step \in {"again", "size"} /\ look'.meta = m
    BY <1>10, <1>11, <2>1, <2>2
  <2> QED
    BY <1>1, <1>3, <2>1, <2>2, <2>3 DEF ReadTimeAgain, ReadSize, OpenSum, ReadLength, ReadSum, Reads
<1>4. CASE ReadTimeAgain
  <2>1. look.step = "again" /\ GoesOn("size", look.meta)
    BY <1>4 DEF ReadTimeAgain, Reads, Turns
  <2>2. /\ look' \in Looks /\ look'.path = look.path /\ look'.source = look.source /\ at' = at
        /\ look'.step = "size" /\ look'.meta = look.meta
    BY <1>2, <1>10, <1>11, <2>1
  <2> QED
    BY <1>1, <2>1, <2>2 DEF ReadTime, OpenSum, ReadLength, ReadSum, Reads
<1>5. CASE ReadSize
  <2> DEFINE m == [look.meta EXCEPT !.size = Len(Now.data)]
  <2>1. look.step = "size" /\ Here(look.path) /\ GoesOn("open", m)
    BY <1>5 DEF ReadSize, Reads
  <2>2. m \in Metas /\ m.time = look.meta.time /\ m.sum = look.meta.sum
    BY <1>2, <2>1 DEF Metas
  <2> HIDE DEF m
  <2>3. /\ look' \in Looks /\ look'.path = look.path /\ look'.source = look.source /\ at' = at
        /\ look'.step = "open" /\ look'.meta = m
    BY <1>10, <1>11, <2>1, <2>2
  <2> QED
    BY <1>1, <2>1, <2>2, <2>3 DEF ReadTime, OpenSum, ReadLength, ReadSum, Reads
<1>6. CASE OpenSum
  <2> DEFINE m == [look.meta EXCEPT !.sum = <<>>]
  <2>1. look.step = "open" /\ Here(look.path) /\ GoesOn("length", m)
    BY <1>6 DEF OpenSum, Reads
  <2>2. m \in Metas /\ m.time = look.meta.time /\ m.sum = <<>>
    BY <1>2, <2>1, DataNone DEF Metas
  <2> HIDE DEF m
  <2>3. /\ look' \in Looks /\ look'.path = look.path /\ look'.source = look.source /\ at' = at
        /\ look'.step = "length" /\ look'.meta = m
    BY <1>10, <1>11, <2>1, <2>2
  <2> QED
    BY <1>1, <2>1, <2>2, <2>3 DEF ReadTime, ReadTimeAgain, ReadSize, ReadLength, ReadSum, Reads
<1>7. CASE ReadLength
  <2> DEFINE step == SumStep(<<>>, Len(Now.data))
  <2>1. /\ look.step = "length" /\ at' = at /\ Here(look.path)
        /\ look' = [look EXCEPT !.step = step, !.length = Len(Now.data)]
    BY <1>7 DEF ReadLength, Reads
  <2>2. Len(Now.data) \in Nat /\ step \in Steps
    BY <1>2, <1>11, <2>1 DEF SumStep
  <2> HIDE DEF step
  <2>3. /\ look' \in Looks /\ look'.path = look.path /\ look'.source = look.source
        /\ look'.step = step /\ look'.length = Len(Now.data)
        /\ look'.meta = look.meta
    BY <1>2, <2>1, <2>2 DEF Looks
  <2> QED
    BY <1>1, <2>1, <2>3 DEF step, ReadTime, ReadTimeAgain, ReadSize, OpenSum, ReadSum, Reads
<1>8. CASE ReadSum
  <2> DEFINE i == Len(look.meta.sum)
             sum == Append(look.meta.sum, LookSource[i + 1])
             m == [look.meta EXCEPT !.sum = sum]
             step == SumStep(sum, look.length)
  <2>1. look.step = "sum" /\ i < Len(LookSource) /\ GoesOn(step, m)
    BY <1>8 DEF ReadSum, Reads
  <2>2. sum \in Data /\ step \in Steps
    <3>1. LookSource \in Data
      BY <1>2, <2>1 DEF LookOpen
    <3>2. i \in Nat /\ LookSource[i + 1] \in Piece
      BY <1>2, <2>1, <3>1, DataOps
    <3>3. sum \in Data
      BY <1>2, <3>2, DataOps
    <3> QED
      BY <1>11, <3>3 DEF SumStep
  <2> HIDE DEF step, sum
  <2>3. m \in Metas /\ m.time = look.meta.time /\ m.sum = sum
    BY <1>2, <2>2 DEF Metas
  <2> HIDE DEF m
  <2>4. /\ look' \in Looks /\ look'.path = look.path /\ look'.source = look.source /\ at' = at
        /\ look'.step = step /\ look'.length = look.length /\ look'.meta = m
    BY <1>10, <2>1, <2>2, <2>3
  <2> QED
    BY <1>1, <2>1, <2>3, <2>4 DEF step, sum, ReadTime, ReadTimeAgain, ReadSize, OpenSum, ReadLength, Reads
<1> QED
  BY <1>3, <1>4, <1>5, <1>6, <1>7, <1>8 DEF MetaReads

(* The other reads begin or end one. *)
LEMMA LooksTo ==
    ASSUME Typed, WatcherReads, ~MetaReads, look' # NoLook
    PROVE  /\ look' \in Looks /\ look'.path \in Path
           /\ look'.step = "time" \/ (look'.step = "fetch" /\ at' = "restore")
           /\ look'.source = NoFile /\ look'.meta.sum = <<>>
<1>1. PICK p \in Path, step \in {"time", "fetch"} :
        /\ look = NoLook /\ look' = [NoLook EXCEPT !.path = p, !.step = step]
        /\ step = "fetch" => at' = "restore"
  BY DEF WatcherReads, Probe, NextLoop, RestoreChecks, RestoreThrows, WatcherRequestFails, Ends,
     ReadFails, RestoreStarts, LooksAt, Throws, Enters, Turns
<1>2. NoLook \in Looks /\ NoLook.source = NoFile /\ NoLook.meta.sum = <<>>
  BY MetaTypes
<1>3. look' \in Looks /\ look'.path = p /\ look'.step = step
      /\ look'.source = NoFile /\ look'.meta.sum = <<>>
  BY <1>1, <1>2 DEF Looks, Steps
<1> QED
  BY <1>1, <1>3

LEMMA ReadsTyped ==
    ASSUME Typed, LookOpen, WatcherReads
    PROVE  Typed'
<1>1. UNCHANGED <<userVars, files, queueVars, up, store>>
  BY ReadsOnly
<1> SUFFICES look' \in Looks /\ (look'.step # "none" => look'.path \in Path)
  BY <1>1 DEF Typed, userVars, queueVars, mailbox
<1>2. CASE look' = NoLook
  BY <1>2, MetaTypes
<1>3. CASE MetaReads /\ look' # NoLook
  BY <1>3, MetaReadsTo DEF Typed
<1> QED
  BY <1>2, <1>3, LooksTo

(* The queue's operations. *)
LEMMA MailboxTypes ==
    ASSUME Typed, NEW p \in Path,
           Mailbox!Put(p) \/ Mailbox!Take(p) \/ Mailbox!Done(p) \/ Mailbox!Retry(p)
    PROVE  /\ backlog' \in [Path -> SUBSET Nat] /\ sending' \in [Path -> SUBSET Nat]
           /\ next_id' \in Nat
<1>1. /\ backlog \in [Path -> SUBSET Nat] /\ sending \in [Path -> SUBSET Nat] /\ next_id \in Nat
  BY DEF Typed
<1>2. next_id' \in Nat
  BY <1>1 DEF Mailbox!Put, Mailbox!Take, Mailbox!Done, Mailbox!Retry
<1>3. backlog' \in [Path -> SUBSET Nat]
  BY <1>1 DEF Mailbox!Put, Mailbox!Take, Mailbox!Done, Mailbox!Retry
<1>4. sending' \in [Path -> SUBSET Nat]
  <2>1. ASSUME Mailbox!Take(p) PROVE sending' \in [Path -> SUBSET Nat]
    BY <1>1, <2>1 DEF Mailbox!Take
  <2> QED
    BY <1>1, <2>1 DEF Mailbox!Put, Mailbox!Done, Mailbox!Retry
<1> QED
  BY <1>2, <1>3, <1>4

(* The watcher stores or reports what it has found. *)
Finds == NoteFile \/ \E p \in Path : EraseFile(p) \/ CompareFile(p)

LEMMA FindsTyped ==
    ASSUME Typed, Finds
    PROVE  Typed'
<1>1. ASSUME NEW p \in Path, NEW c, NEW m, Reports(p, c, m)
      PROVE  /\ backlog' \in [Path -> SUBSET Nat] /\ sending' \in [Path -> SUBSET Nat]
             /\ next_id' \in Nat
  BY <1>1, MailboxTypes DEF Reports, Puts, Typed, queueVars, mailbox
<1>2. /\ backlog' \in [Path -> SUBSET Nat] /\ sending' \in [Path -> SUBSET Nat]
      /\ next_id' \in Nat
  <2>1. ASSUME UNCHANGED queueVars
        PROVE  /\ backlog' \in [Path -> SUBSET Nat] /\ sending' \in [Path -> SUBSET Nat]
               /\ next_id' \in Nat
    BY <2>1 DEF Typed, queueVars, mailbox
  <2>2. CASE NoteFile
    <3>1. look.path \in Path
      BY <2>2 DEF NoteFile, Typed
    <3> QED
      BY <1>1, <2>1, <2>2, <3>1 DEF NoteFile, Note
  <2>3. ASSUME NEW p \in Path, EraseFile(p) \/ CompareFile(p)
        PROVE  \/ UNCHANGED queueVars
               \/ \E c, m : Reports(p, c, m)
    BY <2>3 DEF EraseFile, CompareFile
  <2> QED
    BY <1>1, <2>1, <2>2, <2>3 DEF Finds
<1>3. files' \in [Path -> Metas \cup {NoFile}]
  BY DEF Finds, NoteFile, Note, EraseFile, CompareFile, Typed, Looks
<1>4. look' = NoLook /\ UNCHANGED <<userVars, up, store>>
  BY DEF Finds, NoteFile, EraseFile, CompareFile, Turns
<1> QED
  BY <1>2, <1>3, <1>4, MetaTypes DEF Typed, userVars

(* Where the senders are. *)
LEMMA SenderTypes ==
    ASSUME Typed, NEW p \in Path
    PROVE  /\ \A where \in UpAt : [up EXCEPT ![p].at = where] \in [Path -> Transfers]
           /\ Freed(p) \in [Path -> Transfers]
           /\ up[p].meta \in Metas /\ up[p].read \in Data /\ up[p].meta.size \in Nat
           /\ up[p].meta.time \in Nat
           /\ up[p].data \in Data /\ up[p].seg \in Nat /\ up[p].source \in Data \cup {NoFile}
<1>1. up \in [Path -> Transfers] /\ up[p] \in Transfers
  BY DEF Typed
<1>2. \A where \in UpAt : [up EXCEPT ![p].at = where] \in [Path -> Transfers]
  BY <1>1 DEF Transfers
<1>3. Freed(p) \in [Path -> Transfers]
  BY <1>1, MetaTypes DEF Freed
<1> QED
  BY <1>1, <1>2, <1>3 DEF Transfers, Metas

----------------------------------------------------------------------------
(* The senders.                                                            *)

(* What the server stores of a request is what the sender has read.        *)
LEMMA StoredIs ==
    ASSUME Typed, NEW p \in Path, UpInv(p), up[p].at = "send"
    PROVE  /\ Stored(p) \in Copies
           /\ Stored(p).data = up[p].read
           /\ RowInv(p, up[p].read, Stored(p).meta)
           /\ ~LastSegment(p, up[p].read) => Stored(p).meta = Blank /\ up[p].meta.size # 0
<1> DEFINE read == up[p].read
           size == up[p].meta.size
           final == [up[p].meta EXCEPT !.sum = read]
<1>1. /\ read \in Data /\ size \in Nat /\ Len(read) \in Nat /\ up[p].data \in Data
      /\ up[p].meta \in Metas /\ final \in Metas /\ up[p].seg \in Nat
      /\ final.sum = read /\ final.size = size /\ final.time = up[p].meta.time
  <2>1. /\ read \in Data /\ size \in Nat /\ Len(read) \in Nat /\ up[p].data \in Data
        /\ up[p].meta \in Metas /\ up[p].seg \in Nat
    BY SenderTypes, DataOps
  <2> QED
    BY <2>1 DEF Metas
<1>2. /\ LastSegment(p, read) => read = Op(p).meta.sum
      /\ OneFileAt(p, up[p].meta.time) => <<p, Op(p).meta.sum, up[p].meta.time>> \in past
      /\ SourceInv(p) /\ Follows(p) /\ (size = 0 => read = <<>>)
  BY DEF UpInv
<1>3. Blank \in Metas
  BY MetaTypes
<1>4. Stored(p).data = read
  BY <1>2 DEF Stored, Follows
<1>5. Stored(p).meta = IF LastSegment(p, read) /\ size # 0 THEN final ELSE Blank
  BY <1>2 DEF Stored, Follows
<1>6. Stored(p) = [data |-> Stored(p).data, last |-> up[p].seg, meta |-> Stored(p).meta]
  BY DEF Stored
<1>7. Stored(p) \in Copies
  BY <1>1, <1>3, <1>4, <1>5, <1>6 DEF Copies
<1>8. ASSUME LastSegment(p, read), size # 0
      PROVE  RowInv(p, read, final)
  <2>1. final.size = Len(final.sum)
    BY <1>1, <1>8 DEF LastSegment
  <2>2. OneFileAt(p, final.time) => <<p, final.sum, final.time>> \in past
    BY <1>1, <1>2, <1>8
  <2>3. Placed(p, final.time, final.sum)
    BY <1>1, <1>2 DEF SourceInv
  <2> QED
    BY <1>1, <2>1, <2>2, <2>3 DEF RowInv
<1>9. RowInv(p, read, Blank)
  BY DEF RowInv
<1>10. ~LastSegment(p, read) => size # 0
  BY <1>2, DataNone DEF LastSegment
<1> QED
  BY <1>4, <1>5, <1>7, <1>8, <1>9, <1>10

(* The operation on p is as before. *)
SameOp(p) == sending'[p] = sending[p] /\ (sending[p] # {} => Op(p)' = Op(p))

(* An operation that stays in the queue. *)
LEMMA OpStays ==
    ASSUME Typed, QueueInv, NEW p \in Path, sending'[p] = sending[p],
           \A i \in sending[p] : ops'[i] = ops[i]
    PROVE  SameOp(p)
BY DEF SameOp, Op

(* A sender's source is no older than before. *)
LEMMA SourceStays ==
    ASSUME Typed, Flow, NEW p \in Path, SourceInv(p), up'[p].meta = up[p].meta,
           up'[p].read = up[p].read, up'[p].source = up[p].source,
           up[p].source = NoFile => Here(p)'
    PROVE  SourceInv(p)'
<1> DEFINE T == up[p].meta.time
<1>1. T \in Nat /\ T <= clock /\ past \subseteq past'
  BY SenderTypes DEF SourceInv, Flow
<1>2. T <= clock'
  BY <1>1 DEF Flow
<1>3. ASSUME up[p].source = NoFile PROVE disk'[p] # NoFile /\ T <= disk'[p].time
  <2>1. disk'[p] # NoFile /\ disk'[p].time \in Nat
    BY <1>3 DEF Here, Flow, DiskFiles
  <2>2. CASE disk'[p] = disk[p]
    BY <1>3, <2>1, <2>2 DEF SourceInv
  <2>3. CASE clock <= disk'[p].time
    BY <1>1, <2>1, <2>3 DEF Flow
  <2> QED
    BY <2>1, <2>2, <2>3 DEF Flow
<1>4. Placed(p, T, up[p].read)'
  BY <1>1, PlacedStays DEF SourceInv, Placed
<1>5. up[p].source # NoFile => \E x \in past' : x[1] = p /\ T <= x[3] /\ x[2] = up[p].source
  BY <1>1 DEF SourceInv
<1> QED
  BY <1>2, <1>3, <1>4, <1>5 DEF SourceInv, Here

(* A sender that is left alone. *)
LEMMA UpAlone ==
    ASSUME Typed, Flow, NEW p \in Path, UpInv(p), SameOp(p), up'[p] = up[p],
           store'[p] = store[p],
           Here(p) => Here(p)'
    PROVE  UpInv(p)'
<1>1. CASE up[p].at = "idle"
  BY <1>1 DEF UpInv, SameOp
<1>2. CASE up[p].at # "idle"
  <2>1. sending[p] # {} /\ Op(p)' = Op(p) /\ sending'[p] = sending[p]
    BY <1>2 DEF UpInv, SameOp
  <2>2. CASE up[p].at \in {"read", "send"}
    <3>1. SourceInv(p)'
      BY <2>2, SourceStays DEF UpInv, SourceInv
    <3>2. ASSUME OneFileAt(p, up[p].meta.time)'
          PROVE  <<p, Op(p).meta.sum, up[p].meta.time>> \in past
      <4>1. OneFileAt(p, up[p].meta.time)
        BY <3>2 DEF OneFileAt, Flow
      <4> QED
        BY <2>2, <4>1 DEF UpInv
    <3>3. Follows(p)'
      BY <2>2 DEF UpInv, Follows
    <3>4. /\ OneFileAt(p, up[p].meta.time)' => <<p, Op(p)'.meta.sum, up'[p].meta.time>> \in past'
      BY <2>1, <3>2 DEF Flow
    <3> QED
      BY <2>1, <2>2, <3>1, <3>3, <3>4 DEF UpInv, LastSegment
  <2>3. CASE up[p].at \notin {"read", "send"}
    BY <2>1, <2>3 DEF UpInv
  <2> QED
    BY <2>2, <2>3
<1> QED
  BY <1>1, <1>2

(* A sender that is free again. *)
LEMMA UpFreed ==
    ASSUME Typed, NEW p \in Path, sending' = [sending EXCEPT ![p] = {}], up' = Freed(p)
    PROVE  UpInv(p)' /\ \A q \in Path : q # p => up'[q] = up[q] /\ sending'[q] = sending[q]
<1>1. up'[p] = Idle /\ sending'[p] = {}
      /\ \A q \in Path : q # p => up'[q] = up[q] /\ sending'[q] = sending[q]
  BY DEF Typed, Freed
<1> QED
  BY <1>1, MetaTypes DEF UpInv

(* What the queue does when an operation leaves it, or is given back. *)
LEMMA Leaves ==
    ASSUME Typed, QueueInv, Flow, NEW p \in Path, Completes(p) \/ GivesBack(p)
    PROVE  /\ sending' = [sending EXCEPT ![p] = {}] /\ up' = Freed(p)
           /\ \A q \in Path : /\ backlog'[q] \subseteq backlog[q]
                              /\ \A i \in backlog'[q] : ops'[i] = ops[i]
           /\ \A q \in Path : q # p => SameOp(q)
           /\ QueueInv'
<1>1. sending' = [sending EXCEPT ![p] = {}] /\ up' = Freed(p) /\ next_id' = next_id
  BY DEF Completes, GivesBack, Mailbox!Done, Mailbox!Retry
<1>2. \A q \in Path : q # p => \A i \in sending[p] : i \notin backlog[q]
  BY DEF QueueInv
<1>3. \A q \in Path : /\ backlog'[q] \subseteq backlog[q] \ (IF q = p /\ Completes(p) THEN sending[p] ELSE {})
                      /\ q # p => backlog'[q] = backlog[q]
  BY DEF Completes, GivesBack, Mailbox!Done, Mailbox!Retry, Typed
<1>4. \A q \in Path : \A i \in backlog'[q] : ops'[i] = ops[i] /\ i \in DOMAIN ops'
  <2>1. CASE GivesBack(p)
    BY <1>3, <2>1 DEF GivesBack, QueueInv
  <2>2. CASE Completes(p)
    <3> SUFFICES ASSUME NEW q \in Path, NEW i \in backlog'[q]
                 PROVE  ops'[i] = ops[i] /\ i \in DOMAIN ops'
      OBVIOUS
    <3>1. i \in backlog[q] /\ i \notin sending[p]
      BY <1>2, <1>3, <2>2
    <3>2. i \in DOMAIN ops \ sending[p]
      BY <3>1 DEF QueueInv
    <3> QED
      BY <2>2, <3>2 DEF Completes
  <2> QED
    BY <2>1, <2>2
<1>5. \A q \in Path : q # p => sending'[q] = sending[q] /\ sending[q] \subseteq backlog'[q]
  BY <1>1, <1>3 DEF QueueInv, Typed
<1>6. \A q \in Path : q # p => SameOp(q)
  BY <1>4, <1>5, OpStays
<1>7. QueueInv'
  <2>1. \A q \in Path : sending'[q] \subseteq backlog'[q]
    BY <1>1, <1>5 DEF Typed
  <2> QED
    BY <1>1, <1>3, <1>4, <2>1, SampledStays DEF QueueInv
<1> QED
  BY <1>1, <1>3, <1>4, <1>6, <1>7

(* A step that leaves the queue and the files alone. *)
LEMMA QueueAlone ==
    ASSUME Typed, QueueInv, Flow, UNCHANGED queueVars
    PROVE  QueueInv' /\ \A q \in Path : SameOp(q)
<1>1. \A q \in Path : SameOp(q)
  BY DEF SameOp, Op, queueVars, mailbox
<1>2. QueueInv'
  BY SampledStays DEF QueueInv, queueVars, mailbox
<1> QED
  BY <1>1, <1>2

(* A report gets a number of its own. *)
LEMMA ReportsKeep ==
    ASSUME Typed, QueueInv, Flow, NEW p \in Path, NEW c, NEW m, Reports(p, c, m),
           c = "upload" => Sampled(p, m)
    PROVE  QueueInv' /\ \A q \in Path : SameOp(q)
<1>1. CASE UNCHANGED queueVars
  BY <1>1, QueueAlone
<1>2. CASE Puts(p, c, m)
  <2>1. /\ backlog' = [backlog EXCEPT ![p] = sending[p] \cup {next_id}]
        /\ next_id' = next_id + 1 /\ sending' = sending
        /\ ops' = [i \in UNION {backlog'[q] : q \in Path} |->
                     IF i = next_id THEN [command |-> c, meta |-> m] ELSE ops[i]]
    BY <1>2 DEF Puts, Mailbox!Put
  <2>2. /\ backlog \in [Path -> SUBSET Nat] /\ sending \in [Path -> SUBSET Nat] /\ next_id \in Nat
    BY DEF Typed
  <2>3. \A q \in Path : \A i \in backlog[q] : i # next_id /\ i < next_id'
    BY <2>1, <2>2 DEF QueueInv
  <2>4. \A q \in Path : sending[q] \subseteq backlog[q] /\ sending'[q] \subseteq backlog'[q]
    BY <2>1, <2>2 DEF QueueInv
  <2>5. \A q \in Path : \A i \in backlog'[q] :
          i \in DOMAIN ops' /\ (i # next_id => ops'[i] = ops[i])
    BY <2>1
  <2>6. \A q \in Path : SameOp(q)
    <3>1. \A q \in Path : \A i \in sending[q] : ops'[i] = ops[i]
      <4> SUFFICES ASSUME NEW q \in Path, NEW i \in sending[q] PROVE ops'[i] = ops[i]
        OBVIOUS
      <4>1. i \in backlog[q] /\ i \in backlog'[q]
        BY <2>1, <2>4
      <4> QED
        BY <2>3, <2>5, <4>1
    <3> QED
      BY <2>1, <3>1, OpStays
  <2>7. \A q \in Path : \A i \in backlog'[q] :
          \/ i \in backlog[q]
          \/ q = p /\ i = next_id /\ ops'[i] = [command |-> c, meta |-> m]
    BY <2>1, <2>2, <2>4
  <2>8. ASSUME NEW q \in Path, NEW i \in backlog'[q]
        PROVE  /\ i < next_id' /\ i \in DOMAIN ops'
               /\ \A r \in Path : i \in backlog'[r] => r = q
               /\ ops'[i].command = "upload" => Sampled(q, ops[i].meta)'
    <3>1. i < next_id'
      <4>1. CASE i \in backlog[q]
        BY <2>3, <4>1
      <4>2. CASE i = next_id
        BY <2>1, <2>2, <4>2
      <4> QED
        BY <2>7, <4>1, <4>2
    <3>2. \A r \in Path : i \in backlog'[r] => r = q
      BY <2>3, <2>7 DEF QueueInv
    <3>3. ASSUME ops'[i].command = "upload" PROVE Sampled(q, ops[i].meta)'
      <4>1. CASE i \in backlog[q]
        <5>1. ops'[i] = ops[i]
          BY <2>3, <2>5, <4>1
        <5>2. Sampled(q, ops[i].meta)
          BY <3>3, <4>1, <5>1 DEF QueueInv
        <5> QED
          BY <5>1, <5>2, SampledStays DEF Sampled
      <4>2. CASE q = p /\ ops'[i] = [command |-> c, meta |-> m]
        <5>1. c = "upload" /\ ops'[i].meta = m
          BY <3>3, <4>2
        <5>2. Sampled(p, m)'
          BY <5>1, SampledStays
        <5> QED
          BY <4>2, <5>1, <5>2 DEF Sampled
      <4> QED
        BY <2>7, <4>1, <4>2
    <3> QED
      BY <2>5, <3>1, <3>2, <3>3
  <2>9. QueueInv'
    BY <2>4, <2>8 DEF QueueInv
  <2> QED
    BY <2>6, <2>9
<1> QED
  BY <1>1, <1>2 DEF Reports

(* The invariant of what senders change. *)
SendInv == Typed /\ QueueInv /\ StoreInv /\ \A p \in Path : UpInv(p)

(* A step of the sender of p. *)
LEMMA SenderLocal ==
    ASSUME SendInv, Flow, NEW p \in Path, UNCHANGED userVars,
           \A q \in Path : q # p => up'[q] = up[q] /\ store'[q] = store[q] /\ SameOp(q),
           UpInv(p)'
    PROVE  \A q \in Path : UpInv(q)'
<1> SUFFICES ASSUME NEW q \in Path, q # p PROVE UpInv(q)'
  OBVIOUS
<1>1. Here(q) => Here(q)'
  BY DEF userVars, Here
<1> QED
  BY <1>1, UpAlone DEF SendInv

(* A sender takes an operation. *)
LEMMA TakesKeeps ==
    ASSUME SendInv, Flow, NEW p \in Path, Takes(p)
    PROVE  SendInv'
<1>1. PICK k \in backlog[p] : sending' = [sending EXCEPT ![p] = {k}]
  BY DEF Takes, Mailbox!Take
<1>2. /\ sending[p] = {} /\ backlog' = backlog /\ next_id' = next_id /\ ops' = ops
      /\ sending \in [Path -> SUBSET Nat] /\ up \in [Path -> Transfers]
      /\ UNCHANGED <<userVars, watcherVars, store>>
  BY DEF Takes, Mailbox!Take, SendInv, Typed
<1>3. up' = [up EXCEPT ![p].at = IF ops[k].command = "upload" THEN "open" ELSE "remove"]
  BY <1>1, <1>2 DEF Takes, Sender
<1>4. Typed'
  <2>1. up' \in [Path -> Transfers]
    BY <1>2, <1>3 DEF Transfers, UpAt
  <2>2. sending' \in [Path -> SUBSET Nat]
    BY <1>1, <1>2 DEF SendInv, Typed
  <2> QED
    BY <1>2, <2>1, <2>2 DEF SendInv, Typed, userVars, watcherVars
<1>5. QueueInv'
  BY <1>1, <1>2, SampledStays DEF SendInv, QueueInv
<1>6. StoreInv'
  BY <1>2 DEF SendInv, StoreInv, RowInv, OneFileAt, Placed, userVars
<1>7. UpInv(p)'
  <2>1. up[p].at = "idle" /\ up[p].read = <<>> /\ up[p].data = <<>> /\ up[p].seg = 0
        /\ up[p].source = NoFile
    BY <1>2 DEF SendInv, UpInv
  <2>2. sending'[p] = {k} /\ Op(p)' = ops[k]
    BY <1>1, <1>2 DEF Op
  <2>3. up'[p].at = (IF ops[k].command = "upload" THEN "open" ELSE "remove")
        /\ up'[p].read = <<>> /\ up'[p].data = <<>> /\ up'[p].seg = 0 /\ up'[p].source = NoFile
    BY <1>2, <1>3, <2>1 DEF Transfers
  <2> QED
    BY <2>2, <2>3 DEF UpInv
<1>8. \A q \in Path : q # p => up'[q] = up[q] /\ store'[q] = store[q] /\ SameOp(q)
  BY <1>1, <1>2, <1>3 DEF SameOp, Op
<1> QED
  BY <1>2, <1>4, <1>5, <1>6, <1>7, <1>8, SenderLocal DEF SendInv

(* An operation leaves the queue or is given back, whatever the server has *)
(* made of the request.                                                    *)
LEMMA LeavesKeeps ==
    ASSUME SendInv, Flow, NEW p \in Path, Completes(p) \/ GivesBack(p),
           UNCHANGED <<userVars, watcherVars>>,
           store' \in [Path -> Copies \cup {NoFile}], StoreInv',
           \A q \in Path : q # p => store'[q] = store[q]
    PROVE  SendInv'
<1>1. Typed /\ QueueInv
  BY DEF SendInv
<1>2. /\ sending' = [sending EXCEPT ![p] = {}] /\ up' = Freed(p)
      /\ \A q \in Path : q # p => SameOp(q)
      /\ QueueInv'
  BY <1>1, Leaves
<1>3. UpInv(p)' /\ \A q \in Path : q # p => up'[q] = up[q]
  BY <1>1, <1>2, UpFreed
<1>4. backlog' \in [Path -> SUBSET Nat] /\ sending' \in [Path -> SUBSET Nat] /\ next_id' \in Nat
  BY <1>1, MailboxTypes DEF Completes, GivesBack
<1>5. up' \in [Path -> Transfers]
  BY <1>1, <1>2, SenderTypes
<1>6. Typed'
  BY <1>1, <1>4, <1>5 DEF Typed, userVars, watcherVars
<1> QED
  BY <1>2, <1>3, <1>6, SenderLocal DEF SendInv

(* The operation being sent. *)
LEMMA OpSampled ==
    ASSUME SendInv, NEW p \in Path, up[p].at \in {"open", "read", "send"}
    PROVE  sending[p] # {} /\ Sampled(p, Op(p).meta)
<1>1. sending[p] # {} /\ Op(p).command = "upload" /\ sending[p] \subseteq backlog[p]
  BY DEF SendInv, UpInv, QueueInv
<1>2. PICK i \in sending[p] : Op(p) = ops[i]
  BY <1>1 DEF Op
<1> QED
  BY <1>1, <1>2 DEF SendInv, QueueInv

(* A sender goes on with its operation. *)
LEMMA GoesOnKeeps ==
    ASSUME SendInv, Flow, NEW p \in Path, UNCHANGED <<userVars, watcherVars, queueVars>>,
           up' \in [Path -> Transfers], store' \in [Path -> Copies \cup {NoFile}],
           \A q \in Path : q # p => up'[q] = up[q] /\ store'[q] = store[q],
           StoreInv', UpInv(p)'
    PROVE  SendInv'
<1>1. Typed /\ QueueInv
  BY DEF SendInv
<1>2. Typed'
  BY <1>1 DEF Typed, userVars, watcherVars, queueVars, mailbox
<1>3. QueueInv' /\ \A q \in Path : SameOp(q)
  BY <1>1, QueueAlone
<1> QED
  BY <1>2, <1>3, SenderLocal DEF SendInv

(* The file it opens is the one whose metadata it was given: its time says *)
(* so.                                                                     *)
LEMMA UploadOpensKeeps ==
    ASSUME SendInv, DiskInv, Flow, NEW p \in Path, UploadOpens(p)
    PROVE  SendInv'
<1>1. up[p].at = "open" /\ UNCHANGED <<userVars, watcherVars, store>>
  BY DEF UploadOpens
<1>2. store' \in [Path -> Copies \cup {NoFile}] /\ StoreInv'
  BY <1>1 DEF SendInv, Typed, StoreInv, RowInv, OneFileAt, Placed, userVars
<1>3. CASE AsRecorded(p)
  <2> DEFINE T == disk[p].time
  <2>1. /\ up' = [up EXCEPT ![p].at = "read", ![p].meta = MetaOf(disk[p])]
        /\ UNCHANGED queueVars
    BY <1>3 DEF UploadOpens
  <2>2. /\ up \in [Path -> Transfers] /\ disk[p] # NoFile /\ disk[p] \in DiskFiles
        /\ MetaOf(disk[p]) \in Metas /\ MetaOf(disk[p]).time = T /\ T \in Nat /\ Here(p)
    BY <1>3, MetaTypes DEF SendInv, Typed, AsRecorded, Here, DiskFiles
  <2>3. up' \in [Path -> Transfers]
    BY <2>1, <2>2 DEF Transfers, UpAt
  <2>4. /\ up'[p].at = "read" /\ up'[p].meta = MetaOf(disk[p])
        /\ up'[p].read = up[p].read /\ up'[p].source = up[p].source
        /\ up'[p].data = up[p].data /\ up'[p].seg = up[p].seg
        /\ \A q \in Path : q # p => up'[q] = up[q]
    BY <2>1, <2>2 DEF Transfers
  <2>5. OneFileAt(p, T) => <<p, Op(p).meta.sum, T>> \in past
    <3>1. Sampled(p, Op(p).meta) /\ Op(p).meta.time = T
      BY <1>1, <1>3, OpSampled DEF AsRecorded
    <3> QED
      BY <2>2, <3>1 DEF Sampled, Live
  <2>6. SameOp(p) /\ sending[p] # {} /\ Op(p)' = Op(p) /\ sending' = sending
    BY <1>1, <2>1, OpSampled, QueueAlone DEF SendInv, SameOp, queueVars, mailbox
  <2>7. UpInv(p)'
    <3>1. /\ up[p].read = <<>> /\ up[p].data = <<>> /\ up[p].seg = 0 /\ up[p].source = NoFile
          /\ Op(p).command = "upload"
      BY <1>1 DEF SendInv, UpInv
    <3>2. disk' = disk /\ past' = past /\ clock' = clock
      BY <1>1 DEF userVars
    <3>3. T <= clock
      BY <2>2 DEF DiskInv
    <3>8. T <= T
      BY <2>2
    <3>4. Placed(p, T, <<>>)'
      BY DEF Placed
    <3>5. SourceInv(p)'
      BY <2>2, <2>4, <3>1, <3>2, <3>3, <3>4, <3>8 DEF SourceInv, Here, Placed
    <3>6. OneFileAt(p, up[p].meta.time)' => <<p, Op(p).meta.sum, up[p].meta.time>>' \in past'
      BY <2>2, <2>4, <2>5, <2>6, <3>2 DEF OneFileAt
    <3>7. Follows(p)'
      BY <2>4, <3>1 DEF Follows
    <3> QED
      BY <2>4, <2>6, <3>1, <3>5, <3>6, <3>7 DEF UpInv
  <2> QED
    BY <1>1, <1>2, <2>1, <2>3, <2>4, <2>7, GoesOnKeeps
<1>4. CASE ~AsRecorded(p)
  BY <1>1, <1>2, <1>4, LeavesKeeps DEF UploadOpens
<1> QED
  BY <1>3, <1>4

(* The file a sender reads was there, no longer ago than it will report. *)
LEMMA SourceWas ==
    ASSUME Typed, DiskInv, NEW p \in Path, SourceInv(p)
    PROVE  /\ Source(p) \in Data
           /\ \E x \in past : x[1] = p /\ up[p].meta.time <= x[3] /\ x[2] = Source(p)
<1>1. CASE up[p].source = NoFile
  <2>1. /\ Here(p) /\ up[p].meta.time <= disk[p].time /\ disk[p] \in DiskFiles
        /\ <<p, disk[p].data, disk[p].time>> \in past
    BY <1>1 DEF SourceInv, DiskInv, Typed, Here
  <2> QED
    BY <1>1, <2>1 DEF Source, DiskFiles
<1>2. CASE up[p].source # NoFile
  BY <1>2, SenderTypes DEF SourceInv, Source
<1> QED
  BY <1>1, <1>2

(* A piece more is placed. *)
LEMMA PlacedMore ==
    ASSUME Typed, NEW p \in Path, NEW t \in Nat, NEW d \in Data, Placed(p, t, d),
           NEW x \in past, x[1] = p, t <= x[3], Len(d) < Len(x[2])
    PROVE  Placed(p, t, Append(d, x[2][Len(d) + 1]))
<1> DEFINE y == x[2][Len(d) + 1]
           e == Append(d, y)
<1>1. x[2] \in Data /\ Len(d) \in Nat /\ Len(x[2]) \in Nat /\ y \in Piece
      /\ DOMAIN x[2] = 1 .. Len(x[2]) /\ DOMAIN d = 1 .. Len(d)
  BY PastTypes, DataOps
<1>2. Len(d) + 1 \in DOMAIN x[2]
  BY <1>1
<1> HIDE DEF y
<1>3. e \in Data /\ Len(e) = Len(d) + 1 /\ e[Len(d) + 1] = y /\ DOMAIN e = 1 .. Len(e)
      /\ \A i \in 1 .. Len(d) : e[i] = d[i]
  BY <1>1, DataOps
<1> HIDE DEF e
<1>4. ASSUME NEW i \in DOMAIN e
      PROVE  \E z \in past : z[1] = p /\ t <= z[3] /\ i \in DOMAIN z[2] /\ z[2][i] = e[i]
  <2>1. CASE i = Len(d) + 1
    BY <1>2, <1>3, <2>1 DEF y
  <2>2. CASE i # Len(d) + 1
    <3>1. i \in DOMAIN d /\ e[i] = d[i]
      BY <1>1, <1>3, <2>2
    <3> QED
      BY <3>1 DEF Placed
  <2> QED
    BY <2>1, <2>2
<1>5. Placed(p, t, e)
  BY <1>4 DEF Placed
<1> QED
  BY <1>5 DEF e, y

(* What the sender of p has read after another piece. *)
LEMMA UploadReadsInto ==
    ASSUME SendInv, DiskInv, NEW p \in Path, UploadReads(p)
    PROVE  \E read \in Data, data \in Data :
             /\ up' = [up EXCEPT ![p].read = read, ![p].data = data, ![p].at = up'[p].at]
             /\ up'[p].at \in {"read", "send", "abort"}
             /\ up'[p].read = read /\ up'[p].data = data /\ up'[p].seg = up[p].seg
             /\ up'[p].meta = up[p].meta /\ up'[p].source = up[p].source
             /\ \A q \in Path : q # p => up'[q] = up[q]
             /\ up'[p].at = "send" /\ Len(read) = up[p].meta.size => read = Op(p).meta.sum
             /\ Placed(p, up[p].meta.time, read)
             /\ up[p].seg = 0 => read = data
             /\ up[p].seg # 0 => store[p].data \o data = read
             /\ up[p].meta.size = 0 => read = <<>>
<1> DEFINE size == up[p].meta.size
           T == up[p].meta.time
           i == Len(up[p].read)
           nothing == size = 0
           x == Source(p)[i + 1]
           read == IF nothing THEN <<>> ELSE Append(up[p].read, x)
           data == IF nothing THEN <<>> ELSE Append(up[p].data, x)
           goes == IF ~LastSegment(p, read) /\ Len(data) < SegmentSize THEN "read"
                   ELSE IF IF LastSegment(p, read) THEN Checked(p, read) ELSE open
                   THEN "send" ELSE "abort"
<1>1. /\ up \in [Path -> Transfers] /\ up[p].at = "read"
      /\ up' = [up EXCEPT ![p].read = read, ![p].data = data, ![p].at = goes]
      /\ nothing \/ i < Len(Source(p))
  BY DEF SendInv, Typed, UploadReads
<1>2. /\ up[p].read \in Data /\ up[p].data \in Data /\ size \in Nat /\ i \in Nat /\ T \in Nat
      /\ Typed
  BY SenderTypes, DataOps DEF SendInv
<1>3. SourceInv(p) /\ Follows(p) /\ (nothing => up[p].read = <<>>)
  BY <1>1 DEF SendInv, UpInv
<1>4. Source(p) \in Data
      /\ \E y \in past : y[1] = p /\ T <= y[3] /\ y[2] = Source(p)
  BY <1>2, <1>3, SourceWas
<1>5. ~nothing => x \in Piece
  BY <1>1, <1>2, <1>4, DataOps
<1> HIDE DEF x
<1>6. read \in Data /\ data \in Data
  BY <1>2, <1>5, DataNone, DataOps
<1>7. Placed(p, T, read)
  <2>1. CASE nothing
    BY <2>1 DEF Placed
  <2>2. CASE ~nothing
    <3>1. Placed(p, T, up[p].read)
      BY <1>3 DEF SourceInv
    <3>2. PICK y \in past : y[1] = p /\ T <= y[3] /\ y[2] = Source(p)
      BY <1>4
    <3>3. Placed(p, T, Append(up[p].read, y[2][i + 1]))
      BY <1>1, <1>2, <2>2, <3>1, <3>2, PlacedMore
    <3> QED
      BY <2>2, <3>2, <3>3 DEF x
  <2> QED
    BY <2>1, <2>2
<1>8. up[p].seg = 0 => read = data
  BY <1>3 DEF Follows
<1>9. ASSUME up[p].seg # 0 PROVE store[p].data \o data = read
  <2>1. ~nothing /\ store[p] # NoFile /\ store[p].data \o up[p].data = up[p].read
    BY <1>3, <1>9 DEF Follows
  <2>2. store[p].data \in Data
    BY <1>2, <2>1 DEF Typed, Copies
  <2>3. store[p].data \o Append(up[p].data, x) = Append(store[p].data \o up[p].data, x)
    BY <1>2, <1>5, <2>1, <2>2, DataConcatAppend
  <2> QED
    BY <2>1, <2>3
<1>10. goes \in {"read", "send", "abort"} /\ (goes = "send" /\ Len(read) = size => read = Op(p).meta.sum)
  BY DEF LastSegment, Checked
<1>11. nothing => read = <<>>
  OBVIOUS
<1> HIDE DEF read, data, goes
<1>12. /\ up'[p].at = goes /\ up'[p].read = read /\ up'[p].data = data
       /\ up'[p].meta = up[p].meta /\ up'[p].seg = up[p].seg
       /\ up'[p].source = up[p].source /\ \A q \in Path : q # p => up'[q] = up[q]
  BY <1>1 DEF Transfers
<1>13. up' = [up EXCEPT ![p].read = read, ![p].data = data, ![p].at = up'[p].at]
  BY <1>1, <1>12
<1> QED
  BY <1>6, <1>7, <1>8, <1>9, <1>10, <1>11, <1>12, <1>13

LEMMA UploadReadsKeeps ==
    ASSUME SendInv, DiskInv, Flow, NEW p \in Path, UploadReads(p)
    PROVE  SendInv'
<1>1. up[p].at = "read" /\ UNCHANGED <<userVars, watcherVars, queueVars, store>>
  BY DEF UploadReads
<1>2. store' \in [Path -> Copies \cup {NoFile}] /\ StoreInv'
  BY <1>1 DEF SendInv, Typed, StoreInv, RowInv, OneFileAt, Placed, userVars
<1>3. PICK read \in Data, data \in Data :
        /\ up' = [up EXCEPT ![p].read = read, ![p].data = data, ![p].at = up'[p].at]
        /\ up'[p].at \in {"read", "send", "abort"}
        /\ up'[p].read = read /\ up'[p].data = data /\ up'[p].seg = up[p].seg
        /\ up'[p].meta = up[p].meta /\ up'[p].source = up[p].source
        /\ \A q \in Path : q # p => up'[q] = up[q]
        /\ up'[p].at = "send" /\ Len(read) = up[p].meta.size => read = Op(p).meta.sum
        /\ Placed(p, up[p].meta.time, read)
        /\ up[p].seg = 0 => read = data
        /\ up[p].seg # 0 => store[p].data \o data = read
        /\ up[p].meta.size = 0 => read = <<>>
  BY UploadReadsInto
<1>4. up' \in [Path -> Transfers]
  <2>1. up \in [Path -> Transfers] /\ up'[p].at \in UpAt
    BY <1>3 DEF SendInv, Typed, UpAt
  <2> QED
    BY <1>3, <2>1 DEF Transfers
<1>5. sending[p] # {} /\ Op(p)' = Op(p) /\ sending' = sending
  BY <1>1, OpSampled, QueueAlone DEF SendInv, SameOp, queueVars, mailbox
<1>6. UpInv(p)'
  <2>1. /\ Op(p).command = "upload"
        /\ OneFileAt(p, up[p].meta.time) => <<p, Op(p).meta.sum, up[p].meta.time>> \in past
        /\ SourceInv(p) /\ Follows(p)
    BY <1>1 DEF SendInv, UpInv
  <2>2. past' = past /\ disk' = disk /\ clock' = clock /\ store' = store
    BY <1>1 DEF userVars
  <2>3. SourceInv(p)'
    BY <1>3, <2>1, <2>2 DEF SourceInv, Placed, Here
  <2>4. Follows(p)'
    BY <1>3, <2>1, <2>2 DEF Follows
  <2>5. OneFileAt(p, up[p].meta.time)' => <<p, Op(p).meta.sum, up[p].meta.time>>' \in past'
    BY <1>3, <1>5, <2>1, <2>2 DEF OneFileAt
  <2> QED
    BY <1>3, <1>5, <2>1, <2>3, <2>4, <2>5 DEF UpInv, LastSegment
<1> QED
  BY <1>1, <1>2, <1>3, <1>4, <1>6, GoesOnKeeps

(* A sender that leaves off. *)
LEMMA StopsAt ==
    ASSUME SendInv, Flow, NEW p \in Path, UNCHANGED <<userVars, watcherVars, queueVars>>,
           up[p].at \in {"read", "send"}, Sender(p, "abort"),
           store' \in [Path -> Copies \cup {NoFile}],
           \A q \in Path : q # p => store'[q] = store[q],
           StoreInv'
    PROVE  SendInv'
<1>1. up \in [Path -> Transfers]
  BY DEF SendInv, Typed
<1>2. up' = [up EXCEPT ![p].at = "abort"] /\ up' \in [Path -> Transfers]
  BY SenderTypes DEF SendInv, Sender, UpAt
<1>3. up'[p].at = "abort" /\ \A q \in Path : q # p => up'[q] = up[q]
  BY <1>1, <1>2 DEF Transfers
<1>4. sending[p] # {} /\ sending' = sending
  BY OpSampled DEF queueVars, mailbox
<1>5. UpInv(p)'
  BY <1>3, <1>4 DEF UpInv
<1> QED
  BY <1>2, <1>3, <1>5, GoesOnKeeps

LEMMA UploadStopsKeeps ==
    ASSUME SendInv, Flow, NEW p \in Path, UploadStops(p)
    PROVE  SendInv'
<1>1. up[p].at = "read" /\ UNCHANGED <<userVars, watcherVars, store>>
  BY DEF UploadStops
<1>2. /\ store' \in [Path -> Copies \cup {NoFile}] /\ StoreInv'
      /\ \A q \in Path : q # p => store'[q] = store[q]
  BY <1>1 DEF SendInv, Typed, StoreInv, RowInv, OneFileAt, Placed, userVars
<1>3. CASE Sender(p, "abort") /\ UNCHANGED queueVars
  BY <1>1, <1>2, <1>3, StopsAt
<1>4. CASE GivesBack(p)
  BY <1>1, <1>2, <1>4, LeavesKeeps
<1> QED
  BY <1>3, <1>4 DEF UploadStops

(* The server has stored a segment. *)
LEMMA StoresKeeps ==
    ASSUME SendInv, NEW p \in Path, up[p].at = "send", UNCHANGED userVars,
           store' = [store EXCEPT ![p] = Stored(p)]
    PROVE  /\ store' \in [Path -> Copies \cup {NoFile}] /\ StoreInv'
           /\ store'[p] = Stored(p) /\ \A q \in Path : q # p => store'[q] = store[q]
<1>1. /\ Stored(p) \in Copies /\ Stored(p).data = up[p].read
      /\ RowInv(p, up[p].read, Stored(p).meta)
  BY StoredIs DEF SendInv
<1>2. store \in [Path -> Copies \cup {NoFile}]
  BY DEF SendInv, Typed
<1>3. /\ store' \in [Path -> Copies \cup {NoFile}]
      /\ store'[p] = Stored(p) /\ \A q \in Path : q # p => store'[q] = store[q]
  BY <1>1, <1>2
<1>4. past' = past
  BY DEF userVars
<1>5. StoreInv'
  BY <1>1, <1>3, <1>4 DEF SendInv, StoreInv, RowInv, OneFileAt, Placed
<1> QED
  BY <1>3, <1>5

(* The server has no such file any more. *)
LEMMA GoneKeeps ==
    ASSUME SendInv, NEW p \in Path, UNCHANGED userVars, store' = Gone(p)
    PROVE  /\ store' \in [Path -> Copies \cup {NoFile}] /\ StoreInv'
           /\ \A q \in Path : q # p => store'[q] = store[q]
<1>1. store \in [Path -> Copies \cup {NoFile}] /\ past' = past
  BY DEF SendInv, Typed, userVars
<1>2. /\ store' \in [Path -> Copies \cup {NoFile}] /\ store'[p] = NoFile
      /\ \A q \in Path : q # p => store'[q] = store[q]
  BY <1>1 DEF Gone
<1> QED
  BY <1>1, <1>2 DEF SendInv, StoreInv, RowInv, OneFileAt, Placed

LEMMA UploadSendsKeeps ==
    ASSUME SendInv, Flow, NEW p \in Path, UploadSends(p)
    PROVE  SendInv'
<1>1. /\ up[p].at = "send" /\ UNCHANGED <<userVars, watcherVars>>
      /\ store' = [store EXCEPT ![p] = Stored(p)]
  BY DEF UploadSends
<1>2. /\ store' \in [Path -> Copies \cup {NoFile}] /\ StoreInv'
      /\ store'[p] = Stored(p) /\ \A q \in Path : q # p => store'[q] = store[q]
  BY <1>1, StoresKeeps
<1>3. CASE LastSegment(p, up[p].read)
  BY <1>1, <1>2, <1>3, LeavesKeeps DEF UploadSends
<1>4. CASE ~LastSegment(p, up[p].read)
  <2>1. /\ up' = [up EXCEPT ![p].at = "read", ![p].seg = up[p].seg + 1, ![p].data = <<>>]
        /\ UNCHANGED queueVars
    BY <1>4 DEF UploadSends
  <2>2. /\ up \in [Path -> Transfers] /\ up[p].seg \in Nat /\ up[p].seg + 1 # 0
        /\ up[p].read \in Data
    BY SenderTypes DEF SendInv, Typed
  <2>3. /\ up'[p].at = "read" /\ up'[p].meta = up[p].meta /\ up'[p].read = up[p].read
        /\ up'[p].seg = up[p].seg + 1 /\ up'[p].data = <<>>
        /\ up'[p].source = up[p].source /\ \A q \in Path : q # p => up'[q] = up[q]
        /\ up' \in [Path -> Transfers]
    BY <2>1, <2>2, DataNone DEF Transfers, UpAt
  <2>4. /\ store'[p] \in Copies /\ store'[p].data = up[p].read /\ store'[p].meta = Blank
        /\ up[p].meta.size # 0
    BY <1>1, <1>2, <1>4, StoredIs DEF SendInv
  <2>5. sending[p] # {} /\ Op(p)' = Op(p) /\ sending' = sending
    BY <1>1, <2>1, OpSampled, QueueAlone DEF SendInv, SameOp, queueVars, mailbox
  <2>6. /\ Op(p).command = "upload" /\ SourceInv(p)
        /\ OneFileAt(p, up[p].meta.time) => <<p, Op(p).meta.sum, up[p].meta.time>> \in past
    BY <1>1 DEF SendInv, UpInv
  <2>7. past' = past /\ disk' = disk /\ clock' = clock
    BY <1>1 DEF userVars
  <2>8. UpInv(p)'
    <3>1. SourceInv(p)'
      BY <2>3, <2>6, <2>7 DEF SourceInv, Placed, Here
    <3>2. Follows(p)'
      BY <2>2, <2>3, <2>4, DataConcat, Sentinel DEF Follows
    <3>3. OneFileAt(p, up[p].meta.time)' => <<p, Op(p).meta.sum, up[p].meta.time>>' \in past'
      BY <2>3, <2>5, <2>6, <2>7 DEF OneFileAt
    <3> QED
      BY <2>3, <2>4, <2>5, <2>6, <3>1, <3>2, <3>3 DEF UpInv
  <2> QED
    BY <1>1, <1>2, <2>1, <2>3, <2>8, GoesOnKeeps
<1> QED
  BY <1>3, <1>4

LEMMA RemoveSendsKeeps ==
    ASSUME SendInv, Flow, NEW p \in Path, RemoveSends(p)
    PROVE  SendInv'
<1>1. UNCHANGED <<userVars, watcherVars>> /\ store' = Gone(p) /\ Completes(p)
  BY DEF RemoveSends
<1> QED
  BY <1>1, GoneKeeps, LeavesKeeps

LEMMA RequestFailsKeeps ==
    ASSUME SendInv, Flow, NEW p \in Path, RequestFails(p)
    PROVE  SendInv'
<1>1. UNCHANGED <<userVars, watcherVars>>
  BY DEF RequestFails
<1>2. \/ store' = store
      \/ up[p].at = "send" /\ store' = [store EXCEPT ![p] = Stored(p)]
      \/ store' = Gone(p)
  BY DEF RequestFails
<1>3. /\ store' \in [Path -> Copies \cup {NoFile}] /\ StoreInv'
      /\ \A q \in Path : q # p => store'[q] = store[q]
  <2>1. CASE store' = store
    BY <1>1, <2>1 DEF SendInv, Typed, StoreInv, RowInv, OneFileAt, Placed, userVars
  <2> QED
    BY <1>1, <1>2, <2>1, StoresKeeps, GoneKeeps
<1>4. \/ up[p].at = "send" /\ Sender(p, "abort") /\ UNCHANGED queueVars
      \/ GivesBack(p)
  BY DEF RequestFails
<1> QED
  BY <1>1, <1>3, <1>4, StopsAt, LeavesKeeps

(* Whatever a sender does. *)
LEMMA SendersKeep ==
    ASSUME SendInv, DiskInv, Flow, NEW p \in Path, SenderStep(p) \/ RequestFails(p)
    PROVE  SendInv'
BY TakesKeeps, UploadOpensKeeps, UploadReadsKeeps, UploadStopsKeeps, UploadSendsKeeps,
   RemoveSendsKeeps, RequestFailsKeeps DEF SenderStep

----------------------------------------------------------------------------
(* The watcher and the user.                                               *)

(* No metadata is being read. *)
LEMMA LookEmpty ==
    ASSUME look'.step \in {"none", "open", "fetch"}, look'.step # "none" => at' = "restore",
           look'.source = NoFile, look'.meta.sum = <<>>
    PROVE  LookInv'
BY DEF LookInv, LookOpen, LookTime, LookSum, Looking

LEMMA NoLookKeeps == look' = NoLook => LookInv'
BY MetaTypes, LookEmpty

(* The file that is found under the name is the only one there was in the  *)
(* second of the time read.                                                *)
LEMMA FoundIs ==
    ASSUME Typed, DiskInv, LookTime, Looking, Here(look.path), Live(look.path, look.meta.time),
           NEW x \in past, x[1] = look.path, x[3] = look.meta.time
    PROVE  Now.data = x[2]
<1> DEFINE p == look.path
           T == look.meta.time
<1>1. /\ p \in Path /\ T \in Nat /\ clock \in Nat /\ disk[p].time \in Nat
      /\ disk[p].time <= clock /\ T <= disk[p].time
      /\ <<p, disk[p].data, disk[p].time>> \in past
  BY NowTypes DEF Looking, LookTime, DiskInv, Typed, Now
<1>2. disk[p].time = T
  BY <1>1 DEF Live
<1> HIDE DEF T
<1>3. <<p, disk[p].data, T>> \in past /\ OneFileAt(p, T)
  BY <1>1, <1>2 DEF Live, T
<1>4. <<p, disk[p].data, T>>[2] = x[2]
  BY <1>3 DEF OneFileAt, T
<1> QED
  BY <1>4 DEF Now

(* What has been read so far is no newer than the file, and what was       *)
(* opened stays open.                                                      *)
LEMMA LookStays ==
    ASSUME Typed, DiskInv, LookInv, Flow, at' = at,
           look'.path = look.path, look'.step = look.step, look'.meta = look.meta,
           look'.length = look.length,
           \/ /\ look'.source = look.source
              /\ look.step \in {"length", "sum"} /\ look.source = NoFile => Here(look.path)'
           \/ /\ look.step \in {"length", "sum"} /\ look.source = NoFile
              /\ look'.source = Now.data
    PROVE  LookInv'
<1> DEFINE p == look.path
           T == look.meta.time
<1>1. LookOpen'
  <2>1. look'.source = NoFile /\ look.step \in {"length", "sum"} => Here(look.path)'
    <3>1. CASE look'.source = look.source
      BY <3>1, NowTypes, Sentinel DEF LookInv, LookOpen
    <3>2. CASE look.step \in {"length", "sum"} /\ look.source = NoFile /\ look'.source = Now.data
      <4>1. Now.data \in Data
        BY <3>2, NowTypes DEF LookInv, LookOpen
      <4> QED
        BY <3>2, <4>1, Sentinel
    <3> QED
      BY <3>1, <3>2
  <2> QED
    BY <2>1 DEF LookInv, LookOpen, Here
<1>2. ASSUME Looking
      PROVE  /\ p \in Path /\ T \in Nat /\ T <= clock /\ T <= clock'
             /\ disk'[p] # NoFile => T <= disk'[p].time
             /\ \E x \in past' : x[1] = p /\ x[3] = T
  <2>1. p \in Path /\ T \in Nat /\ T <= clock
    BY <1>2, NowTypes DEF Looking, LookInv, LookTime
  <2>2. T <= clock' /\ clock \in Nat
    BY <2>1 DEF Flow
  <2>3. ASSUME disk'[p] # NoFile PROVE T <= disk'[p].time
    <3>1. disk'[p].time \in Nat
      BY <2>1, <2>3 DEF Flow, DiskFiles
    <3>2. \/ disk'[p] = disk[p] /\ disk[p] # NoFile
          \/ clock <= disk'[p].time
      BY <2>1, <2>3 DEF Flow
    <3>3. disk[p] # NoFile => T <= disk[p].time
      BY <1>2 DEF LookInv, LookTime, Here
    <3> QED
      BY <2>1, <2>2, <3>1, <3>2, <3>3
  <2>4. \E x \in past' : x[1] = p /\ x[3] = T
    BY <1>2 DEF LookInv, LookTime, Flow
  <2> QED
    BY <2>1, <2>2, <2>3, <2>4
<1>3. Looking' = Looking
  BY DEF Looking
<1>4. LookTime'
  BY <1>2, <1>3 DEF LookTime, Here
<1>5. ASSUME Looking, look.step \in {"length", "sum"}, Live(p, T)'
      PROVE  (\E x \in past : SumOf(x))'
  <2>1. Live(p, T)
    BY <1>2, <1>5, LiveWas
  <2>2. PICK x \in past : SumOf(x)
    BY <1>5, <2>1 DEF LookInv, LookSum
  <2>3. x \in past' /\ x[1] = p /\ x[3] = T
    BY <2>2 DEF Flow, SumOf
  <2>4. look'.source # NoFile => look'.source = x[2]
    <3>1. CASE look'.source = look.source
      BY <2>2, <3>1 DEF SumOf
    <3>2. CASE look.source = NoFile /\ look'.source = Now.data
      <4>1. Here(p)
        BY <1>5, <3>2 DEF LookInv, LookOpen
      <4>2. Now.data = x[2]
        BY <1>5, <2>1, <2>3, <4>1, FoundIs DEF LookInv
      <4> QED
        BY <3>2, <4>2
    <3> QED
      BY <3>1, <3>2
  <2> QED
    BY <2>2, <2>3, <2>4 DEF SumOf
<1>6. ASSUME at \in {"scan", "visit"}, look.step = "note" PROVE Sampled(p, look.meta)'
  <2>1. p \in Path /\ Sampled(p, look.meta)
    BY <1>6 DEF Typed, LookInv, LookSum
  <2> QED
    BY <2>1, SampledStays DEF Sampled, Here, Live, OneFileAt
<1>7. LookSum'
  BY <1>3, <1>5, <1>6 DEF LookSum, Sampled, Live, OneFileAt, Here
<1> QED
  BY <1>1, <1>4, <1>7 DEF LookInv

(* Nothing new is remembered. *)
LEMMA FilesStay ==
    ASSUME Typed, FilesInv, Flow, files' = files
    PROVE  FilesInv'
<1> SUFFICES ASSUME NEW p \in Path, files[p] # NoFile PROVE Sampled(p, files[p])'
  BY DEF FilesInv
<1>1. Sampled(p, files[p])
  BY DEF FilesInv
<1> QED
  BY <1>1, SampledStays DEF Sampled, Here, Live, OneFileAt

(* The senders and the server do nothing. *)
LEMMA StoreStays ==
    ASSUME StoreInv, past \subseteq past', store' = store
    PROVE  StoreInv'
<1> SUFFICES ASSUME NEW p \in Path, store[p] # NoFile, store[p].meta # Blank
             PROVE  RowInv(p, store[p].data, store[p].meta)'
  BY DEF StoreInv, RowInv
<1> DEFINE m == store[p].meta
<1>1. RowInv(p, store[p].data, m)
  BY DEF StoreInv
<1>2. OneFileAt(p, m.time)' => OneFileAt(p, m.time)
  BY DEF OneFileAt
<1>3. Placed(p, m.time, m.sum)'
  BY <1>1 DEF RowInv, Placed
<1> QED
  BY <1>1, <1>2, <1>3 DEF RowInv

LEMMA SendersStay ==
    ASSUME IInv, Flow, UNCHANGED <<up, store>>, \A q \in Path : SameOp(q),
           \A q \in Path : Here(q) => Here(q)'
    PROVE  StoreInv' /\ \A q \in Path : UpInv(q)'
<1>1. StoreInv'
  BY StoreStays DEF IInv, Flow
<1>2. ASSUME NEW q \in Path PROVE UpInv(q)'
  BY UpAlone DEF IInv
<1> QED
  BY <1>1, <1>2

(* A read of metadata.                                                     *)
LEMMA MetaReadsKeep ==
    ASSUME Typed, Typed', DiskInv, LookInv, UNCHANGED userVars, MetaReads, look' # NoLook
    PROVE  LookInv'
<1> DEFINE p == look.path
           T == look.meta.time
           old == look.meta.sum
           sum == look'.meta.sum
<1>1. /\ clock' = clock /\ disk' = disk /\ past' = past /\ at' = at
      /\ look' \in Looks /\ look'.path = p /\ look'.source = look.source
      /\ look.step \in {"time", "again", "size", "open", "length", "sum"}
  BY MetaReadsTo DEF LookInv, userVars
<1>2. /\ p \in Path /\ old \in Data /\ T \in Nat /\ clock \in Nat
      /\ Here(p) => /\ Now \in DiskFiles /\ Now.time \in Nat /\ Now.data \in Data
                    /\ Len(Now.data) \in Nat
                    /\ Now.time <= clock /\ <<p, Now.data, Now.time>> \in past
      /\ look.source # NoFile \/ Here(p) => LookSource \in Data
  BY <1>1, NowTypes DEF Typed, DiskInv, Now
<1>3. look'.meta \in Metas
  BY <1>1 DEF Looks
<1>4. LookOpen'
  <2>1. CASE ReadTime \/ ReadTimeAgain \/ ReadSize
    <3>1. /\ look.step \in {"time", "again", "size"} /\ look'.step \in {"again", "size", "open"}
          /\ sum = old
      BY <2>1, MetaReadsTo DEF LookInv
    <3> QED
      BY <1>1, <3>1 DEF LookInv, LookOpen
  <2>2. CASE OpenSum
    <3>1. look'.step = "length" /\ sum = <<>> /\ Here(p)
      BY <2>2, MetaReadsTo DEF LookInv
    <3> QED
      BY <1>1, <3>1 DEF LookOpen, Here
  <2>3. CASE ReadLength
    <3>1. look'.step \in {"sum", "note"} /\ Here(p)
      BY <2>3, MetaReadsTo DEF LookInv, SumStep
    <3> QED
      BY <1>1, <3>1 DEF LookOpen, Here
  <2>4. CASE ReadSum
    <3>1. look.step = "sum" /\ look'.step \in {"sum", "note"}
      BY <2>4, MetaReadsTo DEF LookInv, SumStep
    <3> QED
      BY <1>1, <3>1 DEF LookInv, LookOpen, Here
  <2> QED
    BY <2>1, <2>2, <2>3, <2>4 DEF MetaReads
<1>5. LookTime'
  <2>1. CASE ReadTime
    <3>1. Here(p) /\ look'.meta.time = Now.time
      BY <2>1, MetaReadsTo DEF LookInv
    <3>2. Now.time <= Now.time
      BY <1>2, <3>1
    <3>3. \E x \in past : x[1] = p /\ x[3] = Now.time
      BY <1>2, <3>1
    <3> QED
      BY <1>1, <1>2, <3>1, <3>2, <3>3 DEF LookTime, Here, Now
  <2>2. CASE ~ReadTime
    <3>1. look'.meta.time = T
      BY <2>2, MetaReadsTo DEF LookInv
    <3>2. look.step # "time"
      BY <2>2, MetaReadsTo DEF MetaReads, LookInv
    <3>3. Looking' => Looking
      BY <1>1, <3>2 DEF Looking
    <3> QED
      BY <1>1, <3>1, <3>3 DEF LookInv, LookTime, Here
  <2> QED
    BY <2>1, <2>2
<1>6. ASSUME at \in {"scan", "visit"}, look'.step \in {"length", "sum", "note"}
      PROVE  LookSum'
  <2>1. (OpenSum \/ ReadLength \/ ReadSum) /\ look'.meta.time = T /\ Looking
    <3>1. OpenSum \/ ReadLength \/ ReadSum
      BY <1>6, MetaReadsTo DEF MetaReads, LookInv
    <3>2. ~ReadTime /\ look.step \in {"open", "length", "sum"}
      BY <3>1, MetaReadsTo DEF LookInv, ReadTime, Reads
    <3> QED
      BY <1>6, <3>1, <3>2, MetaReadsTo DEF LookInv, Looking
  <2>2. Live(p, T)' <=> Live(p, T)
    BY <1>1, <2>1 DEF Live, OneFileAt, Here
  <2>3. T <= clock /\ \E x \in past : x[1] = p /\ x[3] = T
    BY <2>1 DEF LookInv, LookTime
  <2>4. CASE OpenSum
    <3>1. look'.step = "length" /\ look.step = "open"
      BY <2>4, MetaReadsTo DEF LookInv
    <3>2. look'.source = NoFile
      BY <1>1, <3>1 DEF LookInv, LookOpen
    <3> QED
      BY <1>1, <2>1, <2>3, <3>1, <3>2 DEF LookSum, SumOf
  <2>5. ASSUME ReadLength \/ ReadSum, Live(p, T)
        PROVE  \E x \in past : /\ x[1] = p /\ x[3] = T /\ x[2] \in Data
                               /\ look.source # NoFile => look.source = x[2]
                               /\ look'.length = Len(x[2]) /\ Starts(sum, x[2]) /\ sum \in Data
    <3>1. look.step \in {"length", "sum"}
      BY <2>5, MetaReadsTo DEF LookInv
    <3>2. PICK x \in past : SumOf(x)
      BY <2>1, <2>5, <3>1 DEF LookInv, LookSum
    <3>3. x[1] = p /\ x[3] = T /\ x[2] \in Data /\ (look.source # NoFile => look.source = x[2])
      BY <3>2, PastTypes DEF SumOf
    <3>4. Here(p) => Now.data = x[2]
      BY <2>1, <2>5, <3>3, FoundIs DEF LookInv
    <3>5. CASE ReadLength
      <4>1. look'.length = Len(Now.data) /\ Here(p) /\ sum = old /\ look.step = "length"
        BY <3>5, MetaReadsTo DEF LookInv
      <4>2. sum = <<>>
        BY <4>1 DEF LookInv, LookOpen
      <4> QED
        BY <3>3, <3>4, <4>1, <4>2, StartsFrom, DataNone
    <3>6. CASE ReadSum
      <4>1. /\ look.step = "sum" /\ Len(old) < Len(LookSource) /\ look'.length = look.length
            /\ sum = Append(old, LookSource[Len(old) + 1])
        BY <3>6, MetaReadsTo DEF LookInv
      <4>2. LookSource = x[2]
        BY <3>3, <3>4, <4>1 DEF LookInv, LookOpen, LookSource
      <4>3. look.length = Len(x[2]) /\ Starts(old, x[2])
        BY <3>2, <4>1 DEF SumOf
      <4> QED
        BY <1>2, <3>3, <4>1, <4>2, <4>3, StartsFrom
    <3> QED
      BY <2>5, <3>5, <3>6
  <2>6. CASE ReadLength \/ ReadSum
    <3>1. look'.step = SumStep(sum, look'.length)
      <4>1. CASE ReadLength
        <5>1. look.step = "length" /\ sum = old /\ look'.step = SumStep(<<>>, look'.length)
          BY <4>1, MetaReadsTo DEF LookInv
        <5> QED
          BY <5>1 DEF LookInv, LookOpen
      <4>2. CASE ReadSum
        BY <4>2, MetaReadsTo DEF LookInv
      <4> QED
        BY <2>6, <4>1, <4>2
    <3>2. ASSUME look'.step = "note" PROVE Sampled(p, look.meta)'
      <4>1. ASSUME Live(p, T) PROVE <<p, sum, T>> \in past
        <5>1. PICK x \in past : /\ x[1] = p /\ x[3] = T /\ x[2] \in Data
                                /\ look'.length = Len(x[2]) /\ Starts(sum, x[2]) /\ sum \in Data
          BY <2>5, <2>6, <4>1
        <5>2. Len(sum) = look'.length
          BY <3>1, <3>2 DEF SumStep
        <5>3. sum = x[2]
          BY <5>1, <5>2, StartsFrom
        <5>4. x = <<x[1], x[2], x[3]>>
          BY PastTypes
        <5> QED
          BY <5>1, <5>3, <5>4
      <4> QED
        BY <1>1, <1>3, <2>1, <2>2, <2>3, <4>1 DEF Sampled, Live, OneFileAt, Here
    <3>3. ASSUME look'.step \in {"length", "sum"}, Live(p, T)' PROVE \E x \in past' : SumOf(x)'
      BY <1>1, <2>1, <2>2, <2>5, <2>6, <3>3 DEF SumOf
    <3> QED
      BY <1>1, <2>1, <3>2, <3>3 DEF LookSum, Sampled, Live, OneFileAt, Here
  <2> QED
    BY <2>1, <2>4, <2>6
<1>7. ASSUME ~(at \in {"scan", "visit"} /\ look'.step \in {"length", "sum", "note"})
      PROVE  LookSum'
  BY <1>1, <1>7 DEF LookSum, Looking
<1> QED
  BY <1>4, <1>5, <1>6, <1>7 DEF LookInv

(* The watcher reads the disk. *)
LEMMA WatcherReadsKeep ==
    ASSUME IInv, Flow, WatcherReads
    PROVE  IInv'
<1>1. UNCHANGED <<userVars, files, queueVars, up, store>> /\ Typed /\ Typed'
  BY ReadsOnly, ReadsTyped DEF IInv, LookInv
<1>2. DiskInv' /\ FilesInv' /\ QueueInv' /\ \A q \in Path : SameOp(q)
  BY <1>1, FilesStay, QueueAlone DEF IInv, Flow
<1>3. StoreInv' /\ \A q \in Path : UpInv(q)'
  BY <1>1, <1>2, SendersStay DEF Here, userVars
<1>4. LookInv'
  <2>1. CASE look' = NoLook
    BY <2>1, NoLookKeeps
  <2>2. CASE look' # NoLook /\ MetaReads
    BY <1>1, <2>2, MetaReadsKeep DEF IInv
  <2>3. CASE look' # NoLook /\ ~MetaReads
    <3>1. /\ look'.step = "time" \/ (look'.step = "fetch" /\ at' = "restore")
          /\ look'.source = NoFile /\ look'.meta.sum = <<>>
      BY <1>1, <2>3, LooksTo
    <3> QED
      BY <3>1 DEF LookInv, LookOpen, LookTime, LookSum, Looking
  <2> QED
    BY <2>1, <2>2, <2>3
<1> QED
  BY <1>1, <1>2, <1>3, <1>4 DEF IInv

(* What it has found, it stores and reports. *)
LEMMA FindsKeep ==
    ASSUME IInv, Flow, Finds
    PROVE  IInv'
<1>1. Typed /\ Typed' /\ UNCHANGED <<userVars, up, store>> /\ look' = NoLook
  BY FindsTyped DEF IInv, Finds, NoteFile, EraseFile, CompareFile, Turns
<1>2. LookInv' /\ DiskInv'
  BY <1>1, NoLookKeeps DEF Flow
<1>3. /\ QueueInv' /\ \A q \in Path : SameOp(q)
      /\ FilesInv'
  <2>1. CASE NoteFile
    <3> DEFINE p == look.path
    <3>1. p \in Path /\ Sampled(p, look.meta) /\ look.meta \in Metas
      BY <2>1 DEF NoteFile, IInv, LookInv, LookSum, Typed, Sampled
    <3>2. UNCHANGED queueVars \/ Reports(p, "upload", look.meta)
      BY <2>1 DEF NoteFile, Note
    <3>3. QueueInv' /\ \A q \in Path : SameOp(q)
      BY <1>1, <3>1, <3>2, QueueAlone, ReportsKeep DEF IInv
    <3>4. files' = files \/ files' = [files EXCEPT ![p] = look.meta]
      BY <2>1 DEF NoteFile, Note
    <3>5. CASE files' = files
      BY <1>1, <3>3, <3>5, FilesStay DEF IInv
    <3>6. CASE files' = [files EXCEPT ![p] = look.meta]
      <4> SUFFICES ASSUME NEW q \in Path, files'[q] # NoFile PROVE Sampled(q, files[q])'
        BY <3>3 DEF FilesInv
      <4>1. files'[q] = IF q = p THEN look.meta ELSE files[q]
        BY <1>1, <3>6 DEF Typed
      <4>2. Sampled(q, IF q = p THEN look.meta ELSE files[q])
        BY <3>1, <4>1 DEF IInv, FilesInv
      <4> QED
        BY <1>1, <4>1, <4>2, SampledStays DEF Sampled, Here, Live, OneFileAt
    <3> QED
      BY <3>4, <3>5, <3>6
  <2>2. ASSUME NEW p \in Path, EraseFile(p) \/ CompareFile(p)
        PROVE  QueueInv' /\ (\A q \in Path : SameOp(q)) /\ FilesInv'
    <3>1. files' = files \/ files' = [files EXCEPT ![p] = NoFile]
      BY <2>2 DEF EraseFile, CompareFile
    <3>2. \/ UNCHANGED queueVars
          \/ Reports(p, "remove", Blank)
          \/ files[p] # NoFile /\ Reports(p, "upload", files[p])
      BY <2>2 DEF EraseFile, CompareFile
    <3>3. files[p] # NoFile => Sampled(p, files[p])
      BY DEF IInv, FilesInv
    <3>4. QueueInv' /\ \A q \in Path : SameOp(q)
      BY <1>1, <3>2, <3>3, QueueAlone, ReportsKeep DEF IInv
    <3>5. ASSUME NEW q \in Path, files'[q] # NoFile PROVE Sampled(q, files[q])'
      <4>1. files'[q] = files[q]
        BY <1>1, <3>1, <3>5 DEF Typed
      <4>2. Sampled(q, files[q])
        BY <3>5, <4>1 DEF IInv, FilesInv
      <4> QED
        BY <1>1, <4>1, <4>2, SampledStays DEF Sampled, Here, Live, OneFileAt
    <3> QED
      BY <3>4, <3>5 DEF FilesInv
  <2> QED
    BY <2>1, <2>2 DEF Finds
<1>4. StoreInv' /\ \A q \in Path : UpInv(q)'
  BY <1>1, <1>3, SendersStay DEF Here, userVars
<1> QED
  BY <1>1, <1>2, <1>3, <1>4 DEF IInv

(* A file is written, by the user or by a restore. *)
LEMMA WritesKeep ==
    ASSUME IInv, Flow, NEW p \in Path, NEW f \in DiskFiles, Becomes(p, f),
           UNCHANGED <<files, queueVars, up, store>>,
           look' \in Looks, look'.step # "none" => look'.path \in Path, LookInv'
    PROVE  IInv'
<1>1. Typed /\ disk' = [disk EXCEPT ![p] = f] /\ f # NoFile
  BY Writes, Sentinel DEF IInv
<1>2. Typed'
  BY <1>1 DEF Typed, queueVars, mailbox, Flow
<1>3. DiskInv' /\ FilesInv' /\ QueueInv' /\ \A q \in Path : SameOp(q)
  BY <1>1, FilesStay, QueueAlone DEF IInv, Flow
<1>4. \A q \in Path : Here(q) => Here(q)'
  BY <1>1 DEF Typed, Here
<1>5. StoreInv' /\ \A q \in Path : UpInv(q)'
  BY <1>1, <1>3, <1>4, SendersStay
<1> QED
  BY <1>2, <1>3, <1>5 DEF IInv

LEMMA RestoreKeeps ==
    ASSUME IInv, Flow, NEW t \in {clock, clock + 1}, RestoreSegment(t)
    PROVE  IInv'
<1>1. /\ look.path \in Path /\ look.step = "fetch"
      /\ \E f \in DiskFiles : Becomes(look.path, f) /\ f.time = t
      /\ look' \in Looks /\ look'.step \in {"open", "fetch"} /\ look'.path = look.path
      /\ look'.meta = look.meta /\ look'.source = look.source
  BY RestoreWrites DEF IInv
<1>2. UNCHANGED <<files, queueVars, up, store, at>>
  BY DEF RestoreSegment
<1>3. at = "restore" /\ look.source = NoFile /\ look.meta.sum = <<>>
  BY <1>1 DEF IInv, LookInv, LookOpen
<1>4. LookInv'
  BY <1>1, <1>2, <1>3, LookEmpty
<1> QED
  BY <1>1, <1>2, <1>4, WritesKeep

(* The user removes a file: whoever reads it has it as it was. *)
LEMMA RemoveKeeps ==
    ASSUME IInv, Flow, NEW p \in Path, Remove(p)
    PROVE  IInv'
<1>1. Here(p) /\ Becomes(p, NoFile) /\ Unlinks(p)
      /\ UNCHANGED <<clock, files, at, queueVars, store>>
  BY DEF Remove, Edits
<1>2. /\ Typed /\ disk' = [disk EXCEPT ![p] = NoFile] /\ past' = past
      /\ up' \in [Path -> Transfers]
      /\ \A q \in Path : q # p => up'[q] = up[q]
      /\ up'[p].at = up[p].at /\ up'[p].meta = up[p].meta /\ up'[p].read = up[p].read
      /\ up'[p].data = up[p].data /\ up'[p].seg = up[p].seg
      /\ up'[p].source = IF up[p].at \in {"read", "send"} /\ up[p].source = NoFile
                         THEN disk[p].data ELSE up[p].source
  BY <1>1, Removes DEF IInv
<1>3. /\ look' \in Looks
      /\ look'.path = look.path /\ look'.step = look.step /\ look'.meta = look.meta
      /\ look'.length = look.length
      /\ look'.source = IF /\ look.path = p /\ look.step \in {"length", "sum"}
                           /\ look.source = NoFile
                        THEN disk[p].data ELSE look.source
  BY <1>1, <1>2, Removes
<1>4. Typed'
  BY <1>1, <1>2, <1>3 DEF Typed, queueVars, mailbox, Flow
<1>5. LookInv'
  <2>1. CASE look.path = p /\ look.step \in {"length", "sum"} /\ look.source = NoFile
    BY <1>1, <1>2, <1>3, <2>1, LookStays DEF IInv, Now
  <2>2. CASE ~(look.path = p /\ look.step \in {"length", "sum"} /\ look.source = NoFile)
    <3>1. look'.source = look.source
      BY <1>3, <2>2
    <3>2. look.step \in {"length", "sum"} /\ look.source = NoFile => Here(look.path)'
      BY <1>2, <1>3, <2>2 DEF IInv, LookInv, LookOpen, Here, Typed
    <3> QED
      BY <1>1, <1>2, <1>3, <3>1, <3>2, LookStays DEF IInv
  <2> QED
    BY <2>1, <2>2
<1>6. DiskInv' /\ FilesInv' /\ QueueInv' /\ StoreInv' /\ \A q \in Path : SameOp(q)
  BY <1>1, <1>2, FilesStay, QueueAlone, StoreStays DEF IInv, Flow
<1>7. \A q \in Path : q # p => UpInv(q)'
  <2> SUFFICES ASSUME NEW q \in Path, q # p PROVE UpInv(q)'
    OBVIOUS
  <2>1. Here(q) => Here(q)'
    BY <1>2 DEF Typed, Here
  <2> QED
    BY <1>1, <1>2, <1>6, <2>1, UpAlone DEF IInv
<1>8. UpInv(p)'
  <2>1. UpInv(p) /\ SameOp(p)
    BY <1>6 DEF IInv
  <2>2. CASE up[p].at = "idle"
    BY <1>2, <2>1, <2>2 DEF UpInv, SameOp
  <2>3. CASE up[p].at \notin {"idle", "read", "send"}
    <3>1. sending[p] # {} /\ sending'[p] = sending[p] /\ Op(p)' = Op(p)
      BY <2>1, <2>3 DEF UpInv, SameOp
    <3> QED
      BY <1>2, <2>1, <2>3, <3>1 DEF UpInv
  <2>4. CASE up[p].at \in {"read", "send"}
    <3>1. sending[p] # {} /\ sending'[p] = sending[p] /\ Op(p)' = Op(p)
      BY <2>1, <2>4 DEF UpInv, SameOp
    <3>2. SourceInv(p)'
      <4>1. SourceInv(p)
        BY <2>1, <2>4 DEF UpInv
      <4>2. CASE up[p].source # NoFile
        BY <1>2, <2>4, <4>1, <4>2, SourceStays
      <4>3. CASE up[p].source = NoFile
        <5>1. up'[p].source = disk[p].data /\ disk[p].data # NoFile
          BY <1>1, <1>2, <2>4, <4>3, Sentinel DEF Typed, Here, DiskFiles
        <5>2. up[p].meta.time <= disk[p].time /\ <<p, disk[p].data, disk[p].time>> \in past
          BY <1>1, <4>1, <4>3 DEF SourceInv, IInv, DiskInv
        <5>3. \E x \in past : x[1] = p /\ up[p].meta.time <= x[3] /\ x[2] = disk[p].data
          BY <5>2
        <5> QED
          BY <1>1, <1>2, <4>1, <5>1, <5>3 DEF SourceInv, Placed
      <4> QED
        BY <4>2, <4>3
    <3>3. Follows(p)'
      BY <1>1, <1>2, <2>1, <2>4 DEF UpInv, Follows
    <3>4. OneFileAt(p, up[p].meta.time)' => <<p, Op(p).meta.sum, up[p].meta.time>>' \in past'
      BY <1>2, <2>1, <2>4, <3>1 DEF UpInv, OneFileAt
    <3> QED
      BY <1>2, <2>1, <2>4, <3>1, <3>2, <3>3, <3>4 DEF UpInv, LastSegment
  <2> QED
    BY <2>2, <2>3, <2>4
<1> QED
  BY <1>4, <1>5, <1>6, <1>7, <1>8 DEF IInv

LEMMA UserKeeps ==
    ASSUME IInv, Flow, UserEdits
    PROVE  IInv'
<1>1. ASSUME NEW p \in Path, NEW v \in Version, NEW t \in {clock, clock + 1}, Write(p, v, t)
      PROVE  IInv'
  <2> DEFINE f == [data |-> Content[v], time |-> t]
  <2>1. t \in Nat
    BY DEF IInv, Typed
  <2>2. f \in DiskFiles
    BY <2>1, ContentIsData DEF DiskFiles
  <2>3. /\ Becomes(p, f)
        /\ UNCHANGED <<files, queueVars, up, store, look, at>>
    BY <1>1 DEF Write, Edits
  <2> HIDE DEF f
  <2>4. look' \in Looks /\ (look'.step # "none" => look'.path \in Path)
    BY <2>3 DEF IInv, Typed
  <2>5. look.step \in {"length", "sum"} /\ look.source = NoFile => Here(look.path)'
    BY <2>2, <2>3, Writes, Sentinel DEF IInv, LookInv, LookOpen, Here, Typed
  <2>6. LookInv'
    BY <2>3, <2>5, LookStays DEF IInv
  <2> QED
    BY <2>2, <2>3, <2>4, <2>6, WritesKeep
<1> QED
  BY <1>1, RemoveKeeps DEF UserEdits

----------------------------------------------------------------------------
(* The client as a whole.                                                  *)

(* A client that starts again forgets what it read and what it sent. *)
LEMMA StartsAgainKeeps ==
    ASSUME IInv, Flow, StartsAgain
    PROVE  IInv'
<1>1. /\ UNCHANGED <<disk, past, store>> /\ look' = NoLook /\ next_id' = 0
      /\ files' = [q \in Path |-> NoFile] /\ up' = [q \in Path |-> Idle]
      /\ backlog' = [q \in Path |-> {}] /\ sending' = [q \in Path |-> {}]
  BY DEF StartsAgain, Enters
<1>2. Typed'
  BY <1>1, MetaTypes DEF IInv, Typed, Flow
<1>3. LookInv' /\ DiskInv' /\ FilesInv' /\ QueueInv'
  BY <1>1, NoLookKeeps DEF Flow, FilesInv, QueueInv
<1>4. StoreInv' /\ \A q \in Path : UpInv(q)'
  BY <1>1, MetaTypes, StoreStays DEF IInv, UpInv
<1> QED
  BY <1>2, <1>3, <1>4 DEF IInv

(* The watcher is elsewhere, and nobody edits. *)
LEMMA LookKept ==
    ASSUME Typed, DiskInv, LookInv, Flow, UNCHANGED <<userVars, watcherVars>>
    PROVE  LookInv'
<1>1. look.step \in {"length", "sum"} /\ look.source = NoFile => Here(look.path)'
  BY DEF LookInv, LookOpen, Here, userVars, watcherVars
<1> QED
  BY <1>1, LookStays DEF watcherVars

(* The client is told to stop. *)
LEMMA StopKeeps ==
    ASSUME IInv, Flow, Stop
    PROVE  IInv'
<1>1. UNCHANGED <<userVars, watcherVars, ops, up, store, backlog, sending, next_id>>
  BY DEF Stop, Mailbox!Close
<1>2. Typed /\ Typed'
  BY <1>1 DEF IInv, Typed, userVars, watcherVars
<1>3. LookInv' /\ DiskInv' /\ FilesInv'
  BY <1>1, <1>2, LookKept, FilesStay DEF IInv, Flow, watcherVars
<1>4. QueueInv' /\ \A q \in Path : SameOp(q)
  BY <1>1, <1>2, SampledStays DEF IInv, QueueInv, SameOp, Op
<1>5. StoreInv' /\ \A q \in Path : UpInv(q)'
  BY <1>1, <1>4, SendersStay DEF Here, userVars
<1> QED
  BY <1>2, <1>3, <1>4, <1>5 DEF IInv

LEMMA BackupStarts == Init => IInv
<1> SUFFICES ASSUME Init PROVE IInv
  OBVIOUS
<1>1. Typed
  BY MetaTypes DEF Init, Mailbox!Init, Typed
<1>2. DiskInv /\ LookInv /\ FilesInv /\ QueueInv /\ StoreInv
  BY MetaTypes DEF Init, Mailbox!Init, DiskInv, Here, LookInv, LookOpen, LookTime, LookSum, Looking,
     FilesInv, QueueInv, StoreInv
<1>3. \A p \in Path : UpInv(p)
  BY MetaTypes DEF Init, Mailbox!Init, UpInv
<1> QED
  BY <1>1, <1>2, <1>3 DEF IInv

LEMMA BackupSteps == IInv /\ [Next]_vars => IInv'
<1> SUFFICES ASSUME IInv, [Next]_vars PROVE IInv'
  OBVIOUS
<1>1. Flow
  BY Flows DEF IInv
<1>2. CASE WatcherStep
  BY <1>1, <1>2, RestoreKeeps, WatcherReadsKeep, FindsKeep DEF WatcherStep, WatcherReads, MetaReads,
     Finds
<1>3. ASSUME NEW p \in Path, SenderStep(p) \/ RequestFails(p)
      PROVE  IInv'
  <2>1. UNCHANGED <<userVars, watcherVars>>
    BY <1>3 DEF SenderStep, RequestFails, Takes, UploadOpens, UploadReads, UploadStops, UploadSends,
       RemoveSends
  <2>2. SendInv'
    BY <1>1, <1>3, SendersKeep DEF IInv, SendInv
  <2>3. DiskInv' /\ LookInv' /\ FilesInv'
    BY <1>1, <2>1, LookKept, FilesStay DEF IInv, Flow, watcherVars
  <2> QED
    BY <2>2, <2>3 DEF IInv, SendInv
<1>4. CASE UNCHANGED vars
  <2>1. UNCHANGED <<userVars, watcherVars, queueVars, up, store>>
    BY <1>4 DEF vars
  <2>2. Typed /\ Typed'
    BY <2>1 DEF IInv, Typed, userVars, watcherVars, queueVars, mailbox
  <2>3. LookInv' /\ DiskInv' /\ FilesInv' /\ QueueInv' /\ \A q \in Path : SameOp(q)
    BY <1>1, <2>1, <2>2, LookKept, FilesStay, QueueAlone DEF IInv, Flow, watcherVars
  <2>4. StoreInv' /\ \A q \in Path : UpInv(q)'
    BY <1>1, <2>1, <2>3, SendersStay DEF Here, userVars
  <2> QED
    BY <2>2, <2>3, <2>4 DEF IInv
<1>5. CASE WatcherRequestFails
  BY <1>1, <1>5, WatcherReadsKeep DEF WatcherReads
<1> QED
  BY <1>1, <1>2, <1>3, <1>4, <1>5, UserKeeps, StopKeeps, StartsAgainKeeps DEF Next

(* The invariant holds of every user, careful or not, and of every loss of *)
(* a request.                                                              *)
THEOREM BackupInvariant == Spec => []IInv
<1>1. Init => IInv
  BY BackupStarts
<1>2. IInv /\ [Next]_vars => IInv'
  BY BackupSteps
<1> QED
  BY <1>1, <1>2, PTL DEF Spec

(* What the server reports of a complete file was once true of the         *)
(* client's file, if there was one file there in that second; if there     *)
(* were more, each piece was in its place in that second or later.         *)
THEOREM BackupStored == Spec => []StoredWasOnDisk
<1>1. IInv => StoredWasOnDisk
  BY DEF IInv, StoreInv, RowInv, StoredWasOnDisk
<1> QED
  BY <1>1, BackupInvariant, PTL
=============================================================================
