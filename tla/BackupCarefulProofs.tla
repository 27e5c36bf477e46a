------------------------ MODULE BackupCarefulProofs ------------------------
(***************************************************************************)
(* Proofs about Backup for a user whose edits the watcher can tell: a      *)
(* restore brings back what the server has whole, and, when requests are   *)
(* answered and no file is empty, what the watcher remembers and the queue *)
(* has no operation on is what the server has.                             *)
(***************************************************************************)
EXTENDS BackupProofs

----------------------------------------------------------------------------
(* The inductive invariant of a restore.                                   *)

Early == {"probe", "restore", "scan"}
Summing == {"open", "length", "sum", "note"}

(* The file at p is there as the server has it. *)
Restored(p) == view[p] # NoFile => Here(p) /\ disk[p].data = store[p].data

(* A file of which look.length pieces are here already. *)
Fetched ==
    LET p == look.path
        n == look.length
    IN  /\ at = "restore" /\ p \in todo
        /\ n # 0 => /\ Here(p) /\ n < view[p].size
                    /\ disk[p].data = SubSeq(store[p].data, 1, n)

(* A file that has come: whole, or not as the server reported it. *)
Came(p) ==
    /\ p \in todo /\ Here(p)
    /\ disk[p].data = view[p].sum <=> store[p].data = view[p].sum

(* What the watcher reads stays as it is until it has read it. *)
ReadInv ==
    /\ look.step \in {"time", "again", "size"} => at \in {"scan", "visit"}
    /\ look.step \in Summing => at \in {"restore", "scan", "visit"}
    /\ look.step \notin {"none", "fetch"} => Here(look.path) /\ look.source = NoFile
    /\ look.step = "sum" =>
         /\ look.length = Len(Now.data) /\ Len(look.meta.sum) # look.length
         /\ Starts(look.meta.sum, Now.data)
    /\ look.step = "note" => look.meta.sum = Now.data

RestoreInv ==
    /\ at \in Early => \A p \in Path : backlog[p] = {}
    /\ ReadInv
    /\ at = "restore" =>
         /\ \A p \in Path : view[p] = Reported(p)
         /\ \A p \in Path : IF p \in todo THEN store[p] # NoFile ELSE Restored(p)
         /\ look.step \in Summing => Came(look.path)
    /\ look.step = "fetch" => Fetched
    /\ at \in Ended \ {"stopped", "lost"} =>
         /\ at = "mismatch"
         /\ \E p \in Path : store[p] # NoFile /\ store[p].meta.sum # store[p].data

----------------------------------------------------------------------------
(* The inductive invariant of what is recorded.                            *)

NonEmpty == \A v \in Version : Content[v] # <<>>

PastInv ==
    /\ 1 <= clock
    /\ \A x \in past : x[2] # <<>> /\ x[3] \in 1 .. clock
    /\ \A p \in Path : store[p] # NoFile => store[p].data # <<>>

(* The server was told of p before this second. *)
Older(p) == store[p] # NoFile => store[p].meta.time < clock

(* A row with the time of the file has its checksum. *)
SameAsDisk(p) ==
    store[p] # NoFile /\ store[p].meta # Blank /\ Here(p) /\ store[p].meta.time = disk[p].time
        => store[p].meta.sum = disk[p].data

(* The sender of p sends its oldest operation, and reads the file as it    *)
(* is, unless that has changed since it was opened.                        *)
SenderInv(p) ==
    /\ \A i \in sending[p], j \in backlog[p] : i <= j
    /\ up[p].at = "remove" => Op(p).command # "upload"
    /\ up[p].at = "abort" => Op(p).command = "upload"
    /\ up[p].at \in {"read", "send"} =>
         /\ up[p].meta.size # 0 /\ up[p].meta.time = Op(p).meta.time
         /\ Here(p) /\ up[p].meta.time = disk[p].time =>
              /\ up[p].source = NoFile /\ up[p].meta = MetaOf(disk[p])
              /\ Starts(up[p].read, disk[p].data)
    /\ up[p].at = "send" => up[p].read # <<>>

(* The watcher has compared p with what the server said. *)
Compared(p) == at \in {"sleep", "erase", "visit"} \/ (at = "compare" /\ p \notin todo)

(* No operation on p is newer than i. *)
Newest(p, i) == \A j \in backlog[p] : j <= i

(* No file is remembered: the server has none, or will be told.            *)
AbsentInv(p) ==
    files[p] = NoFile =>
        \/ backlog[p] = {} /\ store[p] = NoFile
        \/ \E i \in backlog[p] : Newest(p, i) /\ ops[i].command = "remove"

(* The file is remembered as it is: the server has it, or will be told.    *)
PresentInv(p) ==
    files[p] # NoFile /\ files[p] = MetaOf(disk[p]) =>
        \/ backlog[p] = {} /\ store[p] # NoFile /\ store[p].data = disk[p].data
        \/ \E i \in backlog[p] : /\ Newest(p, i)
                                 /\ ops[i].command = "upload" /\ ops[i].meta = files[p]
                                 /\ i \in sending[p] => up[p].at # "abort"

RecordInv(p) ==
    /\ at \in {"probe", "restore"} => Older(p)
    /\ at \in {"scan", "compare"} /\ ~Compared(p) => backlog[p] = {} /\ view[p] = Reported(p)
    /\ Compared(p) /\ open => AbsentInv(p) /\ PresentInv(p)

RecordsInv ==
    /\ failures = 0
    /\ PastInv
    /\ \A p \in Path : SameAsDisk(p) /\ SenderInv(p) /\ RecordInv(p)

----------------------------------------------------------------------------
(* Restores.                                                               *)

(* The first pieces of a file. *)
LEMMA Prefix ==
    ASSUME NEW d \in Data
    PROVE  /\ SubSeq(d, 1, 0) = <<>>
           /\ SubSeq(d, 1, Len(d)) = d
           /\ \A n \in Nat : n <= Len(d) =>
                /\ SubSeq(d, 1, n) \in Data /\ Len(SubSeq(d, 1, n)) = n
                /\ \A i \in 1 .. n : SubSeq(d, 1, n)[i] = d[i]
<1>1. d \in Seq(Piece) /\ Len(d) \in Nat
  BY DataOps DEF Data
<1>2. SubSeq(d, 1, 0) = <<>>
  BY SubSeqEmpty
<1>3. SubSeq(d, 1, Len(d)) = d
  BY <1>1, SubSeqFull
<1>4. ASSUME NEW n \in Nat, n <= Len(d)
      PROVE  /\ SubSeq(d, 1, n) \in Data /\ Len(SubSeq(d, 1, n)) = n
             /\ \A i \in 1 .. n : SubSeq(d, 1, n)[i] = d[i]
  <2>1. \A i \in 1 .. n : d[i] \in Piece
    <3>1. \A i \in 1 .. n : i \in 1 .. Len(d)
      BY <1>1, <1>4
    <3> QED
      BY <1>1, <3>1, ElementOfSeq
  <2>2. /\ SubSeq(d, 1, n) \in Seq(Piece)
        /\ Len(SubSeq(d, 1, n)) = IF 1 <= n THEN n - 1 + 1 ELSE 0
        /\ \A i \in 1 .. n - 1 + 1 : SubSeq(d, 1, n)[i] = d[1 + i - 1]
    BY <1>4, <2>1, SubSeqProperties
  <2>3. Len(SubSeq(d, 1, n)) = n
    BY <1>4, <2>2
  <2>4. \A i \in 1 .. n : SubSeq(d, 1, n)[i] = d[i]
    <3> TAKE i \in 1 .. n
    <3>1. i \in 1 .. n - 1 + 1 /\ 1 + i - 1 = i
      BY <1>4
    <3> QED
      BY <2>2, <3>1
  <2> QED
    BY <2>2, <2>3, <2>4 DEF Data
<1> QED
  BY <1>2, <1>3, <1>4

(* The first pieces and those that follow them. *)
LEMMA PrefixGoesOn ==
    ASSUME NEW d \in Data, NEW n \in Nat, NEW m \in Nat, n <= m, m <= Len(d)
    PROVE  SubSeq(d, 1, n) \o SubSeq(d, n + 1, m) = SubSeq(d, 1, m)
<1> DEFINE a == SubSeq(d, 1, n)
           b == SubSeq(d, n + 1, m)
           c == SubSeq(d, 1, m)
<1>1. d \in Seq(Piece) /\ Len(d) \in Nat /\ n <= Len(d)
  BY DataOps DEF Data
<1>2. /\ a \in Data /\ Len(a) = n /\ \A i \in 1 .. n : a[i] = d[i]
      /\ c \in Data /\ Len(c) = m /\ \A i \in 1 .. m : c[i] = d[i]
  BY <1>1, Prefix
<1>3. /\ b \in Seq(Piece) /\ Len(b) = m - n
      /\ \A i \in 1 .. m - n : b[i] = d[n + i]
  <2>1. \A i \in n + 1 .. m : d[i] \in Piece
    <3>1. \A i \in n + 1 .. m : i \in 1 .. Len(d)
      BY <1>1
    <3> QED
      BY <1>1, <3>1, ElementOfSeq
  <2>2. /\ b \in Seq(Piece)
        /\ Len(b) = IF n + 1 <= m THEN m - (n + 1) + 1 ELSE 0
        /\ \A i \in 1 .. m - (n + 1) + 1 : b[i] = d[(n + 1) + i - 1]
    BY <2>1, SubSeqProperties
  <2>3. Len(b) = m - n
    BY <2>2
  <2>4. \A i \in 1 .. m - n : b[i] = d[n + i]
    <3> TAKE i \in 1 .. m - n
    <3>1. i \in 1 .. m - (n + 1) + 1 /\ (n + 1) + i - 1 = n + i
      OBVIOUS
    <3> QED
      BY <2>2, <3>1
  <2> QED
    BY <2>2, <2>3, <2>4
<1>4. a \in Seq(Piece) /\ c \in Seq(Piece)
  BY <1>2 DEF Data
<1> HIDE DEF a, b, c
<1>5. /\ a \o b \in Seq(Piece) /\ Len(a \o b) = m
      /\ \A i \in 1 .. m : (a \o b)[i] = c[i]
  <2>1. /\ a \o b \in Seq(Piece) /\ Len(a \o b) = Len(a) + Len(b)
        /\ \A i \in 1 .. Len(a) + Len(b) :
             (a \o b)[i] = IF i <= Len(a) THEN a[i] ELSE b[i - Len(a)]
    BY <1>3, <1>4, ConcatProperties
  <2>2. Len(a) + Len(b) = m
    BY <1>2, <1>3
  <2>3. ASSUME NEW i \in 1 .. m PROVE (a \o b)[i] = c[i]
    <3>1. CASE i <= n
      BY <1>2, <2>1, <2>2, <3>1
    <3>2. CASE ~(i <= n)
      <4>1. i - n \in 1 .. m - n /\ n + (i - n) = i
        BY <3>2
      <4>2. (a \o b)[i] = b[i - n]
        BY <1>2, <2>1, <2>2, <3>2
      <4>3. b[i - n] = d[i]
        BY <1>3, <4>1
      <4> QED
        BY <1>2, <4>2, <4>3
    <3> QED
      BY <3>1, <3>2
  <2> QED
    BY <2>1, <2>2, <2>3
<1>6. a \o b = c
  BY <1>2, <1>4, <1>5, SeqEqual
<1> QED
  BY <1>6 DEF a, b, c

(* Nothing is sent before the watcher compares. *)
LEMMA EarlyQuiet ==
    ASSUME IInv, RestoreInv, at \in Early, NEW p \in Path
    PROVE  ~SenderStep(p) /\ ~RequestFails(p)
<1>1. backlog[p] = {} /\ sending[p] \subseteq backlog[p]
  BY DEF RestoreInv, IInv, QueueInv
<1>2. sending[p] = {}
  BY <1>1
<1>3. up[p].at = "idle"
  BY <1>2 DEF IInv, UpInv
<1> QED
  BY <1>1, <1>3 DEF SenderStep, RequestFails, Takes, Mailbox!Take, UploadOpens, UploadReads,
     UploadStops, UploadSends, RemoveSends

(* What a row says of its file. *)
LEMMA RowOf ==
    ASSUME IInv, NEW p \in Path, store[p] # NoFile
    PROVE  /\ store[p] \in Copies /\ store[p].data \in Data /\ store[p].meta \in Metas
           /\ store[p].meta.size \in Nat /\ store[p].meta.sum \in Data
           /\ store[p].meta.size = Len(store[p].meta.sum)
           /\ store[p].meta # Blank =>
                /\ store[p].data = store[p].meta.sum
                /\ Placed(p, store[p].meta.time, store[p].data)
           /\ store[p].meta = Blank => store[p].meta.sum = <<>>
<1>1. store[p] \in Copies
  BY DEF IInv, Typed
<1>2. store[p].data \in Data /\ store[p].meta \in Metas
  BY <1>1 DEF Copies
<1>3. store[p].meta.size \in Nat /\ store[p].meta.sum \in Data
  BY <1>2 DEF Metas
<1>4. CASE store[p].meta = Blank
  BY <1>1, <1>2, <1>3, <1>4, DataNone DEF Blank
<1>5. CASE store[p].meta # Blank
  BY <1>1, <1>2, <1>3, <1>5 DEF IInv, StoreInv, RowInv
<1> QED
  BY <1>4, <1>5

(* What a restore writes is what the server has so far. *)
LEMMA FetchStep ==
    ASSUME IInv, RestoreInv, NEW t \in {clock, clock + 1}, RestoreSegment(t)
    PROVE  LET p == look.path
               n == look.length
           IN  /\ at = "restore" /\ p \in Path /\ n \in Nat /\ look \in Looks
               /\ p \in todo /\ store[p] # NoFile /\ view[p] = store[p].meta
               /\ disk' = [disk EXCEPT ![p] = disk'[p]] /\ disk'[p] # NoFile
               /\ store[p].data # <<>> => disk'[p].data # <<>>
               /\ UNCHANGED <<at, todo>>
               /\ \/ /\ look' = [look EXCEPT !.length = n + SegmentSize]
                     /\ n + SegmentSize < view[p].size
                     /\ disk'[p].data = SubSeq(store[p].data, 1, n + SegmentSize)
                  \/ /\ look' = [look EXCEPT !.step = "open"]
                     /\ disk'[p].data = view[p].sum <=> store[p].data = view[p].sum
<1> DEFINE p == look.path
           n == look.length
           d == store[p].data
           size == view[p].size
           m == Lesser(n + SegmentSize, Len(d))
           old == IF n = 0 \/ ~Here(p) THEN <<>> ELSE disk[p].data
           new == old \o Served(p, n)
<1>1. look.step = "fetch" /\ Readable(p, n) /\ Becomes(p, [data |-> new, time |-> t])
      /\ UNCHANGED <<at, todo>>
  BY DEF RestoreSegment
<1>2. /\ at = "restore" /\ p \in Path /\ n \in Nat /\ look \in Looks /\ Typed /\ p \in todo
      /\ n # 0 => Here(p) /\ disk[p].data = SubSeq(d, 1, n)
  BY <1>1, NowTypes DEF RestoreInv, Fetched, IInv
<1>3. /\ store[p] # NoFile /\ view[p] = store[p].meta /\ n <= Len(d)
      /\ d \in Data /\ Len(d) \in Nat /\ size \in Nat /\ store[p].meta.sum \in Data
      /\ size = Len(store[p].meta.sum)
      /\ store[p].meta # Blank => d = store[p].meta.sum
      /\ store[p].meta = Blank => store[p].meta.sum = <<>>
  BY <1>1, <1>2, RowOf, DataOps DEF Readable, RestoreInv, Reported
<1>4. old = SubSeq(d, 1, n)
  BY <1>2, <1>3, Prefix
<1>5. /\ SegmentSize \in Nat /\ SegmentSize # 0
      /\ m \in Nat /\ n <= m /\ m <= Len(d) /\ (m = n + SegmentSize \/ m = Len(d))
      /\ n + SegmentSize <= Len(d) => m = n + SegmentSize
      /\ n + SegmentSize >= Len(d) => m = Len(d)
  <2>1. SegmentSize \in Nat /\ SegmentSize # 0 /\ n + SegmentSize \in Nat
        /\ n <= n + SegmentSize
    BY <1>2, BackupAssumption
  <2>2. /\ m \in Nat /\ m <= n + SegmentSize /\ m <= Len(d)
        /\ m = n + SegmentSize \/ m = Len(d)
        /\ n + SegmentSize <= Len(d) => m = n + SegmentSize
        /\ Len(d) <= n + SegmentSize => m = Len(d)
    <3> DEFINE a == n + SegmentSize
               b == Len(d)
    <3>1. a \in Nat /\ b \in Nat
      BY <1>3, <2>1
    <3> HIDE DEF a, b
    <3>2. /\ Lesser(a, b) \in Nat /\ Lesser(a, b) <= a /\ Lesser(a, b) <= b
          /\ Lesser(a, b) = a \/ Lesser(a, b) = b
          /\ a <= b => Lesser(a, b) = a
          /\ b <= a => Lesser(a, b) = b
      BY <3>1 DEF Lesser
    <3> QED
      BY <3>2 DEF a, b
  <2> HIDE DEF m
  <2> QED
    BY <1>2, <1>3, <2>1, <2>2
<1>6. new = SubSeq(d, 1, m)
  <2>1. Served(p, n) = SubSeq(d, n + 1, m)
    BY DEF Served
  <2> HIDE DEF m, d
  <2>2. SubSeq(d, 1, n) \o SubSeq(d, n + 1, m) = SubSeq(d, 1, m)
    BY <1>2, <1>3, <1>5, PrefixGoesOn
  <2> QED
    BY <1>4, <2>1, <2>2
<1> HIDE DEF m, new
<1>7. new \in Data /\ Len(new) = m /\ (m = Len(d) => new = d)
  BY <1>3, <1>5, <1>6, Prefix
<1>8. d # <<>> => new # <<>>
  <2>1. d # <<>> => Len(d) # 0
    BY <1>3, DataOps
  <2>2. d # <<>> => m # 0
    BY <1>2, <1>3, <1>5, <2>1
  <2> QED
    BY <1>7, <2>2, DataNone
<1>9. disk' = [disk EXCEPT ![p] = disk'[p]] /\ disk'[p] # NoFile /\ disk'[p].data = new
  <2>1. t \in Nat
    BY <1>2 DEF Typed
  <2>2. [data |-> new, time |-> t] \in DiskFiles
    BY <1>7, <2>1 DEF DiskFiles
  <2>3. disk' = [disk EXCEPT ![p] = [data |-> new, time |-> t]]
        /\ disk'[p] = [data |-> new, time |-> t]
    BY <1>1, <1>2 DEF Becomes, Typed
  <2>4. disk'[p] # NoFile /\ disk'[p].data = new
    BY <2>2, <2>3, Sentinel
  <2> QED
    BY <2>3, <2>4
<1>10. CASE ~LastFetched(p, n)
  <2>1. look' = [look EXCEPT !.length = n + SegmentSize] /\ n + SegmentSize < size
    BY <1>2, <1>3, <1>5, <1>10 DEF RestoreSegment, LastFetched
  <2>2. size # 0
    BY <1>2, <1>3, <1>5, <2>1
  <2>3. size = Len(d)
    BY <1>3, <2>2, DataNone
  <2>4. new = SubSeq(d, 1, n + SegmentSize)
    BY <1>2, <1>3, <1>5, <1>6, <2>1, <2>3
  <2> QED
    BY <1>1, <1>2, <1>3, <1>8, <1>9, <2>1, <2>4
<1>11. CASE LastFetched(p, n)
  <2>1. look' = [look EXCEPT !.step = "open"] /\ n + SegmentSize >= size
    BY <1>11 DEF RestoreSegment, LastFetched
  <2>2. new = view[p].sum <=> d = view[p].sum
    <3>1. CASE store[p].meta # Blank
      <4>1. size = Len(d)
        BY <1>3, <3>1
      <4> QED
        BY <1>5, <1>7, <2>1, <4>1
    <3>2. CASE store[p].meta = Blank
      <4>1. view[p].sum = <<>>
        BY <1>3, <3>2
      <4>2. d = <<>> => new = <<>>
        <5>1. d = <<>> => m = 0
          BY <1>3, <1>5, DataNone
        <5> QED
          BY <1>7, <5>1, DataOps
      <4> QED
        BY <1>8, <4>1, <4>2
    <3> QED
      BY <3>1, <3>2
  <2> QED
    BY <1>1, <1>2, <1>3, <1>8, <1>9, <2>1, <2>2
<1> QED
  BY <1>10, <1>11

(* The watcher restores a segment. *)
LEMMA RestoreFetches ==
    ASSUME IInv, RestoreInv, NEW t \in {clock, clock + 1}, RestoreSegment(t)
    PROVE  RestoreInv'
<1>0. PICK p \in Path, n \in Nat : p = look.path /\ n = look.length
  BY FetchStep
<1>1. /\ at = "restore" /\ look \in Looks /\ p \in todo
      /\ store[p] # NoFile /\ view[p] = store[p].meta
      /\ disk' = [disk EXCEPT ![p] = disk'[p]] /\ disk'[p] # NoFile
      /\ UNCHANGED <<at, todo>>
      /\ \/ /\ look' = [look EXCEPT !.length = n + SegmentSize]
            /\ n + SegmentSize < view[p].size
            /\ disk'[p].data = SubSeq(store[p].data, 1, n + SegmentSize)
         \/ /\ look' = [look EXCEPT !.step = "open"]
            /\ disk'[p].data = view[p].sum <=> store[p].data = view[p].sum
  BY <1>0, FetchStep
<1>2. UNCHANGED <<files, view, restore, queueVars, store>> /\ look.step = "fetch"
      /\ look.source = NoFile
  BY DEF RestoreSegment, IInv, LookInv, LookOpen
<1>3. \A q \in Path : backlog'[q] = {} /\ view'[q] = Reported(q)'
  BY <1>1, <1>2 DEF RestoreInv, Early, Reported, queueVars, mailbox
<1>4. \A q \in Path : IF q \in todo' THEN store'[q] # NoFile ELSE Restored(q)'
  BY <1>1, <1>2 DEF RestoreInv, Restored, Here, IInv, Typed
<1>5. CASE /\ look' = [look EXCEPT !.length = n + SegmentSize]
           /\ n + SegmentSize < view[p].size
           /\ disk'[p].data = SubSeq(store[p].data, 1, n + SegmentSize)
  <2>1. look'.step = "fetch" /\ look'.path = p /\ look'.length = n + SegmentSize
    BY <1>0, <1>1, <1>2, <1>5 DEF Looks
  <2>2. Fetched'
    BY <1>1, <1>2, <1>5, <2>1 DEF Fetched, Here
  <2>3. ReadInv'
    BY <2>1 DEF ReadInv, Summing
  <2> QED
    BY <1>1, <1>3, <1>4, <2>1, <2>2, <2>3 DEF RestoreInv, Summing, Ended
<1>6. CASE /\ look' = [look EXCEPT !.step = "open"]
           /\ disk'[p].data = view[p].sum <=> store[p].data = view[p].sum
  <2>1. look'.step = "open" /\ look'.path = p /\ look'.source = NoFile
    BY <1>0, <1>1, <1>2, <1>6 DEF Looks
  <2>2. Came(p)'
    BY <1>1, <1>2, <1>6 DEF Came, Here
  <2>3. ReadInv'
    BY <1>1, <2>1 DEF ReadInv, Here
  <2> QED
    BY <1>1, <1>3, <1>4, <2>1, <2>2, <2>3 DEF RestoreInv, Ended, Came
<1> QED
  BY <1>1, <1>5, <1>6

(* What the watcher reads is there. *)
LEMMA ReadsOn ==
    ASSUME IInv, RestoreInv
    PROVE  ~ReadFails
<1> SUFFICES ASSUME ReadFails PROVE FALSE
  OBVIOUS
<1>1. ReadInv
  BY DEF RestoreInv
<1>2. CASE look.step \in {"time", "again", "size", "open", "length"} /\ ~Here(look.path)
  BY <1>1, <1>2 DEF ReadInv
<1>3. CASE look.step = "sum" /\ Len(look.meta.sum) >= Len(LookSource)
  <2>1. /\ LookSource = Now.data /\ look.length = Len(Now.data)
        /\ Len(look.meta.sum) # look.length /\ Len(look.meta.sum) <= Len(Now.data)
    BY <1>1, <1>3 DEF ReadInv, LookSource, Starts
  <2>2. look.meta.sum \in Data /\ Now.data \in Data
    BY <1>1, <1>3, NowTypes DEF ReadInv, IInv
  <2>3. Len(look.meta.sum) \in Nat /\ Len(Now.data) \in Nat
    BY <2>2, DataOps
  <2> QED
    BY <1>3, <2>1, <2>3
<1> QED
  BY <1>2, <1>3 DEF ReadFails

(* What it has read is the file. *)
LEMMA ReadsTrue ==
    ASSUME IInv, RestoreInv, MetaReads
    PROVE  /\ ReadInv' /\ at' = at /\ look'.step # "fetch"
           /\ todo' = todo \/ at # "restore"
           /\ at = "restore" /\ look'.step \in Summing => Came(look'.path)
<1>1. UNCHANGED <<userVars, view, store>>
  BY DEF MetaReads, ReadTime, ReadTimeAgain, ReadSize, OpenSum, ReadLength, ReadSum, Reads
<1>2. at' = at
  BY DEF MetaReads, ReadTime, ReadTimeAgain, ReadSize, OpenSum, ReadLength, ReadSum, GoesOn, Turns
<1>3. todo' = todo \/ at # "restore"
  BY DEF MetaReads, ReadTime, ReadTimeAgain, ReadSize, OpenSum, ReadLength, ReadSum, GoesOn, Reads,
     RestoreInv, ReadInv
<1>4. CASE look' = NoLook
  BY <1>2, <1>3, <1>4, MetaTypes DEF ReadInv, Summing
<1>5. CASE look' # NoLook
  <2>1. ReadInv /\ Typed /\ LookOpen
    BY DEF RestoreInv, IInv, LookInv
  <2>2. /\ look.step \in {"time", "again", "size", "open", "length", "sum"}
        /\ look'.path = look.path /\ look'.source = look.source
    BY <1>5, <2>1, MetaReadsTo
  <2>3. /\ Here(look.path) /\ look.source = NoFile /\ Now.data \in Data /\ look.meta.sum \in Data
        /\ Now' = Now /\ LookSource = Now.data
    BY <1>1, <2>1, <2>2, NowTypes DEF ReadInv, Now, userVars, LookSource
  <2>4. Here(look.path)' /\ look'.source = NoFile
    BY <1>1, <2>2, <2>3 DEF Here, userVars
  <2>5. CASE ReadTime \/ ReadTimeAgain \/ ReadSize
    <3>1. look.step \in {"time", "again", "size"} /\ look'.step \in {"again", "size", "open"}
      BY <1>5, <2>1, <2>5, MetaReadsTo
    <3>2. at \in {"scan", "visit"}
      BY <2>1, <3>1 DEF ReadInv
    <3> QED
      BY <1>2, <1>3, <2>4, <3>1, <3>2 DEF ReadInv, Summing
  <2>6. CASE OpenSum \/ ReadLength \/ ReadSum
    <3>1. look.step \in {"open", "length", "sum"} /\ look'.step \in {"length", "sum", "note"}
      BY <1>5, <2>1, <2>6, MetaReadsTo DEF SumStep
    <3>2. at \in {"restore", "scan", "visit"}
      BY <2>1, <3>1 DEF ReadInv, Summing
    <3>3. ASSUME look'.step \in {"sum", "note"}
          PROVE  /\ look'.length = Len(Now.data) /\ look'.meta.sum \in Data
                 /\ Starts(look'.meta.sum, Now.data)
                 /\ look'.step = SumStep(look'.meta.sum, look'.length)
      <4>1. CASE ReadLength
        <5>1. look.step = "length" /\ look'.length = Len(Now.data) /\ look'.meta.sum = look.meta.sum
              /\ look'.step = SumStep(<<>>, Len(Now.data))
          BY <1>5, <2>1, <4>1, MetaReadsTo
        <5>2. look.meta.sum = <<>>
          BY <2>1, <5>1 DEF LookOpen
        <5> QED
          BY <2>3, <5>1, <5>2, StartsFrom, DataNone
      <4>2. CASE ReadSum
        <5>1. /\ look.step = "sum" /\ Len(look.meta.sum) < Len(Now.data)
              /\ look'.meta.sum = Append(look.meta.sum, Now.data[Len(look.meta.sum) + 1])
              /\ look'.step = SumStep(look'.meta.sum, look.length)
              /\ look'.length = look.length
          BY <1>5, <2>1, <2>3, <4>2, MetaReadsTo
        <5>2. look.length = Len(Now.data) /\ Starts(look.meta.sum, Now.data)
          BY <2>1, <5>1 DEF ReadInv
        <5> QED
          BY <2>3, <5>1, <5>2, StartsFrom
      <4>3. CASE OpenSum
        BY <1>5, <2>1, <3>3, <4>3, MetaReadsTo
      <4> QED
        BY <2>6, <4>1, <4>2, <4>3
    <3>4. look'.step = "sum" =>
            /\ look'.length = Len(Now.data) /\ Len(look'.meta.sum) # look'.length
            /\ Starts(look'.meta.sum, Now.data)
      BY <3>3 DEF SumStep
    <3>5. look'.step = "note" => look'.meta.sum = Now.data
      BY <2>3, <3>3, StartsFrom DEF SumStep
    <3>6. ReadInv'
      BY <1>2, <2>3, <2>4, <3>1, <3>2, <3>4, <3>5, <2>2 DEF ReadInv, Starts
    <3>7. at = "restore" => Came(look.path)
      BY <3>1 DEF RestoreInv, Summing
    <3> QED
      BY <1>2, <1>3, <2>2, <3>1, <3>6, <3>7
  <2> QED
    BY <2>5, <2>6 DEF MetaReads
<1> QED
  BY <1>4, <1>5

(* The checksum of a file that has come is compared. *)
LEMMA RestoreCompares ==
    ASSUME IInv, RestoreInv, RestoreChecks
    PROVE  RestoreInv'
<1>0. PICK p \in Path : p = look.path
  BY NowTypes DEF RestoreChecks, IInv
<1>1. /\ at = "restore" /\ look.step = "note" /\ p = look.path
      /\ UNCHANGED <<disk, view, queueVars, store>>
  BY <1>0 DEF RestoreChecks, Ends, userVars
<1>2. /\ Came(p) /\ look.meta.sum = disk[p].data
      /\ store[p] # NoFile /\ view[p] = store[p].meta
  BY <1>1 DEF RestoreInv, ReadInv, Summing, Now, Came, Reported
<1>3. CASE look.meta.sum = view[p].sum
  <2>1. at' = "restore" /\ todo' = todo \ {p} /\ look'.step = "none"
    BY <1>1, <1>3, MetaTypes DEF RestoreChecks, Turns
  <2>2. Restored(p)'
    BY <1>1, <1>2, <1>3 DEF Came, Restored, Here
  <2>3. \A q \in Path : IF q \in todo' THEN store'[q] # NoFile ELSE Restored(q)'
    BY <1>1, <2>1, <2>2 DEF RestoreInv, Restored, Here
  <2>4. \A q \in Path : backlog'[q] = {} /\ view'[q] = Reported(q)'
    BY <1>1 DEF RestoreInv, Early, Reported, queueVars, mailbox
  <2> QED
    BY <2>1, <2>3, <2>4 DEF RestoreInv, ReadInv, Summing, Ended
<1>4. CASE look.meta.sum # view[p].sum
  <2>1. at' = "mismatch" /\ look'.step = "none"
    BY <1>1, <1>4, MetaTypes DEF RestoreChecks, Ends, Enters
  <2>2. store[p].meta.sum # store[p].data
    BY <1>2, <1>4 DEF Came
  <2> QED
    BY <1>1, <1>2, <2>1, <2>2 DEF RestoreInv, ReadInv, Summing, Early
<1> QED
  BY <1>3, <1>4

(* A restore is ended by nothing but the order to stop. *)
LEMMA RestoreStops ==
    ASSUME IInv, RestoreInv, RestoreThrows
    PROVE  Ends("stopped")
<1> DEFINE p == look.path
           n == look.length
<1>1. look.step = "fetch" /\ p \in Path /\ n \in Nat /\ Fetched
  BY NowTypes DEF RestoreThrows, IInv, RestoreInv
<1>2. store[p] # NoFile /\ view[p] = store[p].meta
  BY <1>1 DEF RestoreInv, Fetched, Reported
<1>3. /\ store[p].data \in Data /\ store[p].meta.size = Len(store[p].meta.sum)
      /\ store[p].meta # Blank => store[p].data = store[p].meta.sum
      /\ store[p].meta = Blank => store[p].meta.sum = <<>>
  BY <1>1, <1>2, RowOf
<1>4. n <= Len(store[p].data)
  <2>1. Len(store[p].data) \in Nat /\ Len(<<>>) = 0
    BY <1>3, DataOps, DataNone
  <2> QED
    BY <1>1, <1>2, <1>3, <2>1 DEF Fetched
<1> QED
  BY <1>2, <1>4 DEF RestoreThrows, Readable

(* Every other step of the watcher. *)
LEMMA RestoreReads ==
    ASSUME IInv, RestoreInv, at \notin Ended, WatcherReads \/ Finds
    PROVE  RestoreInv'
<1>1. UNCHANGED <<userVars, up, store>>
  BY ReadsOnly DEF Finds, NoteFile, EraseFile, CompareFile
<1>2. CASE Probe
  <2>1. /\ look'.step = "none" /\ UNCHANGED queueVars /\ at = "probe"
        /\ view' = [p \in Path |-> Reported(p)]
        /\ \/ at' = "restore" /\ todo' = {p \in Path : store[p] # NoFile}
           \/ at' = "scan"
    BY <1>2, MetaTypes DEF Probe, Enters
  <2>2. \A p \in Path : backlog'[p] = {} /\ view'[p] = Reported(p)'
    BY <1>1, <2>1 DEF RestoreInv, Early, queueVars, mailbox, Reported
  <2>3. at' = "restore" => \A p \in Path : IF p \in todo' THEN store'[p] # NoFile ELSE Restored(p)'
    BY <1>1, <2>1, <2>2 DEF Restored, Reported
  <2> QED
    BY <2>1, <2>2, <2>3 DEF RestoreInv, ReadInv, Summing, Ended
<1>3. CASE NextLoop
  <2>1. look'.step = "none" /\ UNCHANGED queueVars
        /\ at' \in {"scan", "compare", "sleep", "erase", "visit"}
        /\ (at' = "scan" => at = "restore")
    BY <1>3, MetaTypes DEF NextLoop, Enters, LoopEnds
  <2> QED
    BY <2>1 DEF RestoreInv, Early, ReadInv, Summing, Ended, queueVars, mailbox
<1>4. ASSUME MetaReads PROVE RestoreInv'
  <2>1. /\ ReadInv' /\ at' = at /\ look'.step # "fetch"
        /\ todo' = todo \/ at # "restore"
        /\ at = "restore" /\ look'.step \in Summing => Came(look'.path)
    BY <1>4, ReadsTrue
  <2>2. UNCHANGED <<view, queueVars, disk, store>>
    BY <1>1, <1>4 DEF MetaReads, ReadTime, ReadTimeAgain, ReadSize, OpenSum, ReadLength, ReadSum, Reads,
       userVars
  <2> QED
    BY <2>1, <2>2 DEF RestoreInv, Restored, Reported, Came, Here, queueVars, mailbox
<1>5. ASSUME Ends("stopped") \/ Ends("lost") PROVE RestoreInv'
  <2>1. at' \in {"stopped", "lost"} /\ look'.step = "none"
    BY <1>5, MetaTypes DEF Ends, Enters
  <2> QED
    BY <2>1 DEF RestoreInv, ReadInv, Summing, Early
<1>6. ASSUME NEW p \in Path, RestoreStarts(p) PROVE RestoreInv'
  <2>1. /\ at = "restore" /\ look = NoLook /\ p \in todo
        /\ look' = [look EXCEPT !.path = p, !.step = "fetch"]
        /\ UNCHANGED <<view, at, todo, queueVars, store, disk>>
    BY <1>6 DEF RestoreStarts, userVars
  <2>2. look'.step = "fetch" /\ look'.path = p /\ look'.length = 0
    BY <2>1 DEF NoLook
  <2>3. Fetched' /\ ReadInv'
    BY <2>1, <2>2 DEF Fetched, ReadInv, Summing
  <2> QED
    BY <2>1, <2>2, <2>3 DEF RestoreInv, Summing, Early, Ended, Reported, Restored, Here, queueVars, mailbox
<1>7. ASSUME NEW p \in Path, LooksAt(p) PROVE RestoreInv'
  <2>1. at \in {"scan", "visit"} /\ at' = at /\ UNCHANGED queueVars
    BY <1>7 DEF LooksAt, Turns
  <2>2. look'.step # "fetch" /\ ReadInv'
    <3>1. CASE look' = NoLook
      BY <3>1, MetaTypes DEF ReadInv, Summing
    <3>2. CASE look' # NoLook
      <4>1. look = NoLook /\ look' = [look EXCEPT !.path = p, !.step = "time"] /\ Here(p)
        BY <1>7, <3>2 DEF LooksAt, Turns
      <4>2. look'.path = p /\ look'.step = "time" /\ look'.source = NoFile
        BY <4>1 DEF NoLook
      <4> QED
        BY <1>1, <2>1, <4>1, <4>2 DEF ReadInv, Summing, Here, userVars
    <3> QED
      BY <3>1, <3>2
  <2> QED
    BY <2>1, <2>2 DEF RestoreInv, Ended, queueVars, mailbox
<1>8. CASE Finds
  <2>1. at' = at /\ look'.step = "none" /\ at # "restore"
    BY <1>8, MetaTypes DEF Finds, NoteFile, EraseFile, CompareFile, Turns
  <2>2. at \in Early => UNCHANGED queueVars
    BY <1>8 DEF Finds, NoteFile, Note, EraseFile, CompareFile, Early
  <2> QED
    BY <2>1, <2>2 DEF RestoreInv, ReadInv, Summing, queueVars, mailbox
<1>9. CASE WatcherRequestFails
  BY <1>5, <1>9 DEF WatcherRequestFails
<1> QED
  BY <1>2, <1>3, <1>4, <1>5, <1>6, <1>7, <1>8, <1>9, ReadsOn, RestoreStops, RestoreCompares
     DEF WatcherReads

LEMMA RestoreStep ==
    ASSUME CarefulUser, IInv, RestoreInv, [Next]_vars
    PROVE  RestoreInv'
<1>1. CASE at \notin Ended /\ WatcherStep
  BY <1>1, RestoreFetches, RestoreReads DEF WatcherStep, WatcherReads, MetaReads, Finds
<1>2. ASSUME at \notin Ended, NEW p \in Path, SenderStep(p) \/ RequestFails(p)
      PROVE  RestoreInv'
  <2>1. at \notin Early
    BY <1>2, EarlyQuiet
  <2>2. UNCHANGED <<userVars, watcherVars>>
    BY <1>2 DEF SenderStep, RequestFails, Takes, UploadOpens, UploadReads, UploadStops, UploadSends,
       RemoveSends
  <2>3. ReadInv'
    BY <2>2 DEF RestoreInv, ReadInv, Here, Now, Starts, userVars, watcherVars
  <2> QED
    BY <1>2, <2>1, <2>2, <2>3 DEF RestoreInv, Early, Fetched, userVars, watcherVars
<1>3. CASE Stop \/ UNCHANGED vars
  <2>1. UNCHANGED <<userVars, watcherVars, store, backlog>>
    BY <1>3 DEF Stop, Mailbox!Close, vars, queueVars, mailbox
  <2> QED
    BY <2>1 DEF RestoreInv, ReadInv, Here, Now, Fetched, Came, Restored, Reported, userVars, watcherVars
<1>4. CASE StartsAgain
  <2>1. at' = "probe" /\ look'.step = "none" /\ backlog' = [p \in Path |-> {}]
    BY <1>4, MetaTypes DEF StartsAgain, Enters
  <2> QED
    BY <2>1 DEF RestoreInv, ReadInv, Summing, Ended
<1>5. ASSUME UserEdits PROVE RestoreInv'
  <2>1. PICK p \in Path : Edits(p) /\ (\E f : Becomes(p, f)) /\ (look' = look \/ Unlinks(p))
    BY <1>5 DEF UserEdits, Write, Remove
  <2>2. /\ at # "restore" /\ ~(look.step # "none" /\ look.path = p)
        /\ UNCHANGED <<view, at, todo, queueVars, store>>
    BY <2>1 DEF Edits, Noticeable
  <2>3. look' = look
    BY <2>1, <2>2 DEF Unlinks
  <2>4. look.step \notin {"none", "fetch"} => Here(look.path)' /\ Now' = Now
    <3>1. PICK f : disk' = [disk EXCEPT ![p] = f]
      BY <2>1 DEF Becomes
    <3>2. look.step \notin {"none", "fetch"} => look.path # p /\ look.path \in Path /\ Here(look.path)
      BY <2>2 DEF RestoreInv, ReadInv, IInv, Typed
    <3> QED
      BY <2>3, <3>1, <3>2 DEF Here, Now, IInv, Typed
  <2>5. ReadInv'
    BY <2>2, <2>3, <2>4 DEF RestoreInv, ReadInv, Starts
  <2> QED
    BY <2>2, <2>3, <2>5 DEF RestoreInv, Fetched, queueVars, mailbox
<1>6. CASE at \notin Ended /\ WatcherRequestFails
  BY <1>6, RestoreReads DEF WatcherReads
<1> QED
  BY <1>1, <1>2, <1>3, <1>4, <1>5, <1>6 DEF Next

(* For a user whose edits the watcher can tell, a restore brings back every*)
(* file that the server has whole; and unless the client is told to stop   *)
(* or a request of it gets no answer, nothing ends it before it monitors   *)
(* but a restore that comes to a file whose upload never ended.            *)
THEOREM BackupRestores ==
    ASSUME CarefulUser
    PROVE  Spec => []RestoresComplete
<1>1. Init => RestoreInv
  BY MetaTypes DEF Init, Mailbox!Init, RestoreInv, ReadInv, Summing, Ended
<1>2. IInv /\ RestoreInv /\ [Next]_vars => RestoreInv'
  BY RestoreStep
<1>3. RestoreInv => RestoresComplete
  BY DEF RestoreInv, RestoresComplete, Restored
<1> QED
  BY <1>1, <1>2, <1>3, BackupInvariant, PTL DEF Spec

----------------------------------------------------------------------------
(* What is recorded: times and contents.                                   *)

CarefulInv == IInv /\ RestoreInv /\ RecordsInv /\ at \in Loops

(* A row that brings metadata has a time of the past. *)
LEMMA RowTimes ==
    ASSUME CarefulInv, NEW p \in Path, store[p] # NoFile
    PROVE  store[p].meta.time \in Nat /\ store[p].meta.time <= clock
<1>1. /\ store[p].meta \in Metas /\ store[p].data \in Data
      /\ store[p].meta # Blank => Placed(p, store[p].meta.time, store[p].data)
  BY RowOf DEF CarefulInv
<1>2. store[p].meta.time \in Nat /\ clock \in Nat
  BY <1>1 DEF Metas, CarefulInv, IInv, Typed
<1>3. CASE store[p].meta = Blank
  BY <1>2, <1>3 DEF Blank
<1>4. CASE store[p].meta # Blank
  <2>1. store[p].data # <<>> /\ \A x \in past : x[3] \in 1 .. clock
    BY DEF CarefulInv, RecordsInv, PastInv
  <2>2. 1 \in DOMAIN store[p].data
    <3>1. Len(store[p].data) \in Nat /\ Len(store[p].data) # 0
      BY <1>1, <2>1, DataOps
    <3>2. 1 \in 1 .. Len(store[p].data)
      BY <3>1
    <3> QED
      BY <1>1, <3>2, DataOps
  <2>3. PICK x \in past : store[p].meta.time <= x[3]
    BY <1>1, <1>4, <2>2 DEF Placed
  <2> QED
    BY <1>2, <2>1, <2>3
<1> QED
  BY <1>2, <1>3, <1>4

(* Files, rows and operations are no newer than the clock, and files are   *)
(* not empty.                                                              *)
LEMMA Times ==
    ASSUME CarefulInv, NEW p \in Path
    PROVE  /\ clock \in Nat /\ 1 <= clock
           /\ Here(p) => /\ disk[p] \in DiskFiles /\ disk[p].data \in Data /\ disk[p].data # <<>>
                         /\ disk[p].time \in Nat /\ 1 <= disk[p].time /\ disk[p].time <= clock
           /\ files[p] # NoFile => files[p] \in Metas /\ files[p].time \in Nat /\ files[p].time <= clock
           /\ store[p] # NoFile => store[p].meta.time \in Nat /\ store[p].meta.time <= clock
           /\ up[p].at \in {"read", "send"} => up[p].meta.time \in Nat /\ up[p].meta.time <= clock
<1>1. /\ clock \in Nat /\ 1 <= clock
      /\ \A x \in past : x[2] # <<>> /\ x[3] \in 1 .. clock
  BY DEF CarefulInv, IInv, Typed, RecordsInv, PastInv
<1>2. ASSUME Here(p)
      PROVE  /\ disk[p] \in DiskFiles /\ disk[p].data \in Data /\ disk[p].data # <<>>
             /\ disk[p].time \in Nat /\ 1 <= disk[p].time /\ disk[p].time <= clock
  <2>1. disk[p] \in DiskFiles /\ <<p, disk[p].data, disk[p].time>> \in past
    BY <1>2 DEF CarefulInv, IInv, Typed, DiskInv, Here
  <2> QED
    BY <1>1, <2>1 DEF DiskFiles
<1>3. ASSUME files[p] # NoFile
      PROVE  files[p] \in Metas /\ files[p].time \in Nat /\ files[p].time <= clock
  BY <1>3 DEF CarefulInv, IInv, FilesInv, Sampled, Metas
<1>4. ASSUME up[p].at \in {"read", "send"}
      PROVE  up[p].meta.time \in Nat /\ up[p].meta.time <= clock
  BY <1>4, SenderTypes DEF CarefulInv, IInv, UpInv, SourceInv
<1> QED
  BY <1>1, <1>2, <1>3, <1>4, RowTimes

(* Nothing about p changes. *)
Same(p) ==
    /\ disk'[p] = disk[p] /\ files'[p] = files[p] /\ store'[p] = store[p] /\ up'[p] = up[p]
    /\ backlog'[p] = backlog[p] /\ sending'[p] = sending[p]
    /\ \A i \in backlog[p] : ops'[i] = ops[i]

(* Its sender goes on as before. *)
LEMMA SenderSame ==
    ASSUME CarefulInv, NEW p \in Path, backlog'[p] = backlog[p] \/ sending[p] = {}, SameOp(p),
           up'[p] = up[p], disk'[p] = disk[p]
    PROVE  SenderInv(p)'
<1>1. SenderInv(p) /\ (up[p].at = "idle" <=> sending[p] = {}) /\ sending'[p] = sending[p]
  BY DEF CarefulInv, RecordsInv, IInv, UpInv, SameOp
<1>2. up[p].at # "idle" => Op(p)' = Op(p)
  BY <1>1 DEF SameOp
<1> QED
  BY <1>1, <1>2 DEF SenderInv, Here, MetaOf

LEMMA Frame ==
    ASSUME CarefulInv, NEW p \in Path, Same(p), Flow, at' = at, open' = open,
           view'[p] = view[p], p \in todo' <=> p \in todo
    PROVE  SameAsDisk(p)' /\ SenderInv(p)' /\ RecordInv(p)'
<1>1. SameAsDisk(p) /\ RecordInv(p) /\ sending[p] \subseteq backlog[p]
  BY DEF CarefulInv, RecordsInv, IInv, QueueInv
<1>2. SameOp(p)
  BY <1>1, OpStays DEF CarefulInv, IInv, Same
<1>3. SenderInv(p)'
  BY <1>2, SenderSame DEF Same
<1>4. SameAsDisk(p)'
  BY <1>1 DEF SameAsDisk, Same, Here
<1>5. RecordInv(p)'
  <2>1. Compared(p)' <=> Compared(p)
    BY DEF Compared
  <2>2. Older(p) => Older(p)'
    <3>1. store[p] # NoFile => store[p].meta.time \in Nat
      BY Times
    <3> QED
      BY <3>1 DEF Older, Same, Flow
  <2>3. AbsentInv(p) => AbsentInv(p)'
    BY DEF AbsentInv, Newest, Same
  <2>4. PresentInv(p) => PresentInv(p)'
    BY DEF PresentInv, Newest, Same, MetaOf
  <2> QED
    BY <1>1, <2>1, <2>2, <2>3, <2>4 DEF RecordInv, Reported, Same
<1> QED
  BY <1>3, <1>4, <1>5

----------------------------------------------------------------------------
(* What is recorded: the user.                                             *)

(* The file is another, and newer than whatever anybody has of it. *)
LEMMA RecordsWrite ==
    ASSUME CarefulUser, NonEmpty, CarefulInv, Flow, NEW p \in Path, NEW v \in Version,
           NEW t \in {clock, clock + 1}, Write(p, v, t)
    PROVE  RecordsInv'
<1> DEFINE f == [data |-> Content[v], time |-> t]
<1>1. /\ clock \in Nat /\ 1 <= clock /\ t \in Nat /\ clock < t /\ clock' = t
      /\ Becomes(p, f) /\ UNCHANGED <<watcherVars, queueVars, up, store, failures>>
  BY Times DEF Write, Edits, watcherVars
<1>2. f \in DiskFiles /\ f # NoFile
  BY <1>1, ContentIsData, Sentinel DEF DiskFiles
<1>3. disk' = [disk EXCEPT ![p] = f] /\ past' = past \cup {<<p, f.data, f.time>>} /\ up' = up
      /\ disk \in [Path -> DiskFiles \cup {NoFile}]
  BY <1>1, <1>2, Writes DEF CarefulInv, IInv, Typed
<1>4. disk'[p] = f /\ f.time = t /\ f.data # <<>> /\ \A q \in Path : q # p => disk'[q] = disk[q]
  BY <1>3 DEF NonEmpty
<1>5. PastInv'
  <2>1. PastInv
    BY DEF CarefulInv, RecordsInv
  <2>2. \A x \in past : x[3] \in 1 .. clock'
    <3>1. \A x \in past : x[3] \in 1 .. clock
      BY <2>1 DEF PastInv
    <3> QED
      BY <1>1, <3>1
  <2> QED
    BY <1>1, <1>3, <1>4, <2>1, <2>2 DEF PastInv
<1>6. ASSUME NEW q \in Path, q # p PROVE SameAsDisk(q)' /\ SenderInv(q)' /\ RecordInv(q)'
  BY <1>1, <1>3, <1>4, <1>6, Frame DEF Same, watcherVars, queueVars, mailbox
<1>7. SameAsDisk(p)' /\ SenderInv(p)' /\ RecordInv(p)'
  <2>1. SameAsDisk(p)'
    <3>1. store[p] # NoFile => store[p].meta.time # t
      BY <1>1, Times
    <3> QED
      BY <1>1, <1>4, <3>1 DEF SameAsDisk
  <2>2. SenderInv(p)'
    <3>1. up[p].at \in {"read", "send"} => up[p].meta.time # t
      BY <1>1, Times
    <3>2. SenderInv(p)
      BY DEF CarefulInv, RecordsInv
    <3>3. Op(p)' = Op(p) /\ backlog' = backlog /\ sending' = sending
      BY <1>1 DEF Op, queueVars, mailbox
    <3> QED
      BY <1>3, <1>4, <3>1, <3>2, <3>3 DEF SenderInv
  <2>3. RecordInv(p)'
    <3>1. RecordInv(p) /\ UNCHANGED <<at, todo, view, files, backlog, sending, ops, store, up, open>>
      BY <1>1, <1>3 DEF CarefulInv, RecordsInv, watcherVars, queueVars, mailbox
    <3>2. PresentInv(p)'
      <4>1. files[p] # NoFile => files[p] # MetaOf(f)
        BY <1>1, <1>2, <1>4, Times, MetaTypes
      <4> QED
        BY <1>4, <3>1, <4>1 DEF PresentInv, MetaOf
    <3>3. Older(p) => Older(p)'
      BY <1>1, <3>1, Times DEF Older
    <3> QED
      BY <3>1, <3>2, <3>3 DEF RecordInv, Compared, AbsentInv, Newest, Reported
  <2> QED
    BY <2>1, <2>2, <2>3
<1> QED
  BY <1>1, <1>5, <1>6, <1>7 DEF RecordsInv, CarefulInv

LEMMA RecordsRemove ==
    ASSUME CarefulInv, Flow, NEW p \in Path, Remove(p)
    PROVE  RecordsInv'
<1>1. /\ Here(p) /\ Becomes(p, NoFile) /\ Unlinks(p) /\ clock' = clock
      /\ UNCHANGED <<files, view, at, todo, queueVars, store, failures>>
  BY DEF Remove, Edits
<1>2. /\ disk' = [disk EXCEPT ![p] = NoFile] /\ past' = past
      /\ \A q \in Path : q # p => up'[q] = up[q]
      /\ up'[p].at = up[p].at /\ up'[p].meta = up[p].meta /\ up'[p].read = up[p].read
      /\ disk \in [Path -> DiskFiles \cup {NoFile}]
  BY <1>1, Removes DEF CarefulInv, IInv, Typed
<1>3. disk'[p] = NoFile /\ \A q \in Path : q # p => disk'[q] = disk[q]
  BY <1>2
<1>4. ASSUME NEW q \in Path, q # p PROVE SameAsDisk(q)' /\ SenderInv(q)' /\ RecordInv(q)'
  BY <1>1, <1>2, <1>3, <1>4, Frame DEF Same, queueVars, mailbox
<1>5. UNCHANGED <<at, todo, view, files, backlog, sending, ops, store, open, clock, failures>>
      /\ Op(p)' = Op(p)
  BY <1>1 DEF queueVars, mailbox, Op
<1>6. SameAsDisk(p)' /\ SenderInv(p)' /\ RecordInv(p)'
  <2>1. SameAsDisk(p)'
    BY <1>3 DEF SameAsDisk, Here
  <2>2. SenderInv(p)'
    BY <1>2, <1>3, <1>5 DEF CarefulInv, RecordsInv, SenderInv, Here
  <2>3. RecordInv(p)'
    BY <1>2, <1>3, <1>5 DEF CarefulInv, RecordsInv, RecordInv, Compared, AbsentInv, PresentInv, Newest, Reported,
       Older, MetaOf
  <2> QED
    BY <2>1, <2>2, <2>3
<1>7. PastInv'
  BY <1>2, <1>5 DEF CarefulInv, RecordsInv, PastInv
<1> QED
  BY <1>4, <1>5, <1>6, <1>7 DEF RecordsInv, CarefulInv

----------------------------------------------------------------------------
(* What is recorded: the watcher.                                          *)

(* A restore writes files that are newer than what the server has of them. *)
LEMMA RecordsRestore ==
    ASSUME CarefulInv, Flow, NEW t \in {clock, clock + 1}, RestoreSegment(t)
    PROVE  RecordsInv'
<1>0. PICK p \in Path : p = look.path
  BY FetchStep DEF CarefulInv
<1>1. /\ at = "restore" /\ disk' = [disk EXCEPT ![p] = disk'[p]] /\ disk'[p] # NoFile
      /\ store[p] # NoFile
      /\ store[p].data # <<>> => disk'[p].data # <<>>
      /\ at' = "restore"
  BY <1>0, FetchStep DEF CarefulInv
<1>2. PICK f \in DiskFiles : Becomes(p, f) /\ f.time = t
  BY <1>0, RestoreWrites DEF CarefulInv, IInv
<1>3. /\ disk' = [disk EXCEPT ![p] = f] /\ past' = past \cup {<<p, f.data, f.time>>} /\ up' = up
      /\ disk \in [Path -> DiskFiles \cup {NoFile}]
  <2>1. up' = up
    BY DEF RestoreSegment
  <2> QED
    BY <1>2, <2>1, Writes DEF CarefulInv, IInv, Typed
<1>4. /\ clock \in Nat /\ 1 <= clock /\ t \in Nat /\ clock <= t /\ clock' = t
      /\ UNCHANGED <<files, view, queueVars, store, failures>>
  <2>1. clock \in Nat /\ 1 <= clock
    BY <1>0, Times
  <2>2. clock' = t /\ UNCHANGED <<files, view, queueVars, store, failures>>
    BY DEF RestoreSegment, bounds
  <2> QED
    BY <2>1, <2>2
<1>5. disk'[p] = f /\ f.data # <<>> /\ \A q \in Path : q # p => disk'[q] = disk[q]
  <2>1. store[p].data # <<>>
    BY <1>1 DEF CarefulInv, RecordsInv, PastInv
  <2> QED
    BY <1>1, <1>3, <2>1
<1>6. PastInv'
  <2>1. PastInv
    BY DEF CarefulInv, RecordsInv
  <2>2. \A x \in past : x[3] \in 1 .. clock'
    <3>1. \A x \in past : x[3] \in 1 .. clock
      BY <2>1 DEF PastInv
    <3> QED
      BY <1>4, <3>1
  <2> QED
    BY <1>2, <1>3, <1>4, <1>5, <2>1, <2>2 DEF PastInv
<1>7. \A q \in Path : Older(q) /\ SameAsDisk(q) /\ backlog[q] = {} /\ sending[q] = {} /\ up[q].at = "idle"
  <2> SUFFICES ASSUME NEW q \in Path
               PROVE  Older(q) /\ SameAsDisk(q) /\ backlog[q] = {} /\ sending[q] = {} /\ up[q].at = "idle"
    OBVIOUS
  <2>1. Older(q) /\ SameAsDisk(q) /\ backlog[q] = {} /\ sending[q] \subseteq backlog[q]
    BY <1>1 DEF CarefulInv, RecordsInv, RecordInv, RestoreInv, Early, IInv, QueueInv
  <2>2. sending[q] = {}
    BY <2>1
  <2> QED
    BY <2>1, <2>2 DEF CarefulInv, IInv, UpInv
<1>8. ASSUME NEW q \in Path PROVE SameAsDisk(q)' /\ SenderInv(q)' /\ RecordInv(q)'
  <2>1. store[q] # NoFile => store[q].meta.time \in Nat /\ store[q].meta.time < clock
    BY <1>7, Times DEF Older
  <2>2. SameAsDisk(q)'
    <3>1. CASE q = p
      BY <1>2, <1>4, <1>5, <2>1, <3>1 DEF SameAsDisk
    <3>2. CASE q # p
      BY <1>4, <1>5, <1>7, <3>2 DEF SameAsDisk, Here
    <3> QED
      BY <3>1, <3>2
  <2>3. SenderInv(q)'
    BY <1>3, <1>4, <1>7 DEF CarefulInv, RecordsInv, SenderInv, queueVars, mailbox
  <2>4. RecordInv(q)'
    <3>1. ~Compared(q)' /\ at' \notin {"scan", "compare"}
      BY <1>1 DEF Compared
    <3>2. Older(q)'
      BY <1>4, <2>1 DEF Older
    <3> QED
      BY <3>1, <3>2 DEF RecordInv
  <2> QED
    BY <2>2, <2>3, <2>4
<1> QED
  BY <1>4, <1>6, <1>8 DEF RecordsInv, CarefulInv

(* The watcher goes from the probe to the files, and from them to what the *)
(* server said.                                                            *)
LEMMA RecordsReads ==
    ASSUME MaxFailures = 0, CarefulInv, Flow, at \notin Ended, WatcherReads
    PROVE  RecordsInv'
<1>0. ~ReadFails /\ ~WatcherRequestFails
  BY ReadsOn DEF CarefulInv, RecordsInv, WatcherRequestFails
<1>1. UNCHANGED <<userVars, files, queueVars, up, store, failures>>
  <2>1. UNCHANGED <<userVars, files, queueVars, up, store>>
    BY ReadsOnly
  <2>2. failures' = failures
    BY <1>0 DEF WatcherReads, MetaReads, Probe, NextLoop, RestoreChecks, RestoreThrows, ReadTime,
       ReadTimeAgain, ReadSize, OpenSum, ReadLength, ReadSum, RestoreStarts, LooksAt, Reads, bounds
  <2> QED
    BY <2>1, <2>2
<1>2. PastInv'
  BY <1>1 DEF CarefulInv, RecordsInv, PastInv, userVars
<1>3. ASSUME NEW p \in Path PROVE SameAsDisk(p)' /\ SenderInv(p)'
  <2>1. Op(p)' = Op(p)
    BY <1>1 DEF Op, queueVars, mailbox
  <2> QED
    BY <1>1, <2>1 DEF CarefulInv, RecordsInv, SameAsDisk, SenderInv, Here, userVars, queueVars, mailbox
<1>4. ASSUME NEW p \in Path PROVE RecordInv(p)'
  <2>1. RecordInv(p) /\ backlog' = backlog /\ open' = open
        /\ UNCHANGED <<clock, disk, files, sending, ops, up, store>>
    BY <1>1 DEF CarefulInv, RecordsInv, userVars, queueVars, mailbox
  <2>2. (Older(p)' <=> Older(p)) /\ (AbsentInv(p)' <=> AbsentInv(p)) /\ (PresentInv(p)' <=> PresentInv(p))
    BY <2>1 DEF Older, AbsentInv, PresentInv, Newest
  <2>3. CASE Probe
    <3>1. /\ at = "probe" /\ at' \in {"restore", "scan"} /\ view'[p] = Reported(p)
      BY <2>3 DEF Probe, Enters
    <3>2. backlog[p] = {}
      BY <3>1 DEF CarefulInv, RestoreInv, Early
    <3> QED
      BY <2>1, <2>2, <3>1, <3>2 DEF RecordInv, Compared, Reported
  <2>4. CASE NextLoop
    <3>1. /\ view' = view
          /\ \/ at = "restore" /\ at' = "scan"
             \/ at = "scan" /\ at' = "compare" /\ todo' = Path
             \/ at = "compare" /\ todo = {} /\ at' = "sleep"
             \/ at \in {"sleep", "erase", "visit"} /\ at' \in {"sleep", "erase", "visit"}
      BY <2>4 DEF NextLoop, Enters, LoopEnds
    <3>2. CASE at = "restore" /\ at' = "scan"
      <4>1. backlog[p] = {} /\ view[p] = Reported(p)
        BY <3>2 DEF CarefulInv, RestoreInv, Early
      <4> QED
        BY <2>1, <3>1, <3>2, <4>1 DEF RecordInv, Compared, Reported
    <3>3. CASE at = "scan" /\ at' = "compare" /\ todo' = Path
      BY <2>1, <3>1, <3>3 DEF RecordInv, Compared, Reported
    <3>4. CASE at = "compare" /\ todo = {} /\ at' = "sleep"
      BY <2>1, <2>2, <3>1, <3>4 DEF RecordInv, Compared
    <3>5. CASE at \in {"sleep", "erase", "visit"} /\ at' \in {"sleep", "erase", "visit"}
      BY <2>1, <2>2, <3>1, <3>5 DEF RecordInv, Compared
    <3> QED
      BY <3>1, <3>2, <3>3, <3>4, <3>5
  <2>5. ASSUME at' = at, view' = view, at # "compare" PROVE RecordInv(p)'
    BY <2>1, <2>2, <2>5 DEF RecordInv, Compared, Reported
  <2>6. CASE MetaReads
    <3>1. at' = at /\ view' = view
      BY <2>6 DEF MetaReads, ReadTime, ReadTimeAgain, ReadSize, OpenSum, ReadLength, ReadSum, Reads,
         GoesOn, Turns
    <3>2. look.step \in {"time", "again", "size"} \cup Summing
      BY <2>6 DEF MetaReads, ReadTime, ReadTimeAgain, ReadSize, OpenSum, ReadLength, ReadSum, Reads,
         Summing
    <3>3. at # "compare"
      BY <3>2 DEF CarefulInv, RestoreInv, ReadInv
    <3> QED
      BY <2>5, <3>1, <3>3
  <2>7. ASSUME \E q \in Path : RestoreStarts(q) \/ LooksAt(q) PROVE RecordInv(p)'
    <3>1. at' = at /\ view' = view /\ at # "compare"
      BY <2>7 DEF RestoreStarts, LooksAt, Turns
    <3> QED
      BY <2>5, <3>1
  <2>8. CASE RestoreChecks \/ RestoreThrows
    <3>1. /\ view' = view /\ at = "restore"
          /\ at' = "restore" \/ at' \in Ended
      BY <2>8 DEF RestoreChecks, RestoreThrows, Ends, Enters, Turns, CarefulInv, IInv, LookInv, LookOpen
    <3> QED
      BY <2>1, <2>2, <3>1 DEF RecordInv, Compared, Ended
  <2> QED
    BY <1>0, <2>3, <2>4, <2>6, <2>7, <2>8 DEF WatcherReads
<1> QED
  BY <1>1, <1>2, <1>3, <1>4 DEF RecordsInv, CarefulInv

(* What is put last is the newest. *)
LEMMA PutsNewest ==
    ASSUME Typed, QueueInv, NEW p \in Path, NEW c, NEW m, Puts(p, c, m)
    PROVE  /\ next_id \in backlog'[p] /\ next_id \notin sending'[p]
           /\ \A j \in backlog'[p] : j <= next_id
           /\ \A i \in sending'[p], j \in backlog'[p] : i \in backlog[p] /\ (j \in sending[p] \/ i <= j)
           /\ \A q \in Path : q # p => backlog'[q] = backlog[q] /\ \A i \in backlog[q] : ops'[i] = ops[i]
           /\ \A i \in sending[p] : ops'[i] = ops[i]
           /\ sending' = sending /\ open' = open
<1>1. /\ backlog' = [backlog EXCEPT ![p] = sending[p] \cup {next_id}]
      /\ sending' = sending /\ open' = open /\ open
      /\ ops' = [i \in UNION {backlog'[q] : q \in Path} |->
                   IF i = next_id THEN [command |-> c, meta |-> m] ELSE ops[i]]
  BY DEF Puts, Mailbox!Put
<1>2. /\ backlog \in [Path -> SUBSET Nat] /\ next_id \in Nat
      /\ \A q \in Path : sending[q] \subseteq backlog[q] /\ \A i \in backlog[q] : i \in Nat /\ i < next_id
  BY DEF Typed, QueueInv
<1>3. backlog'[p] = sending[p] \cup {next_id} /\ \A q \in Path : q # p => backlog'[q] = backlog[q]
  BY <1>1, <1>2
<1>4. \A q \in Path : \A i \in backlog[q] : i <= next_id /\ i # next_id
  BY <1>2
<1>5. next_id \in backlog'[p] /\ next_id <= next_id
  BY <1>2, <1>3
<1>7. \A j \in backlog'[p] : j <= next_id
  BY <1>2, <1>3, <1>4, <1>5
<1>8. next_id \notin sending'[p]
  BY <1>1, <1>2, <1>4
<1>10. \A i \in sending'[p], j \in backlog'[p] : i \in backlog[p] /\ (j \in sending[p] \/ i <= j)
  BY <1>1, <1>2, <1>3, <1>4
<1>11. ASSUME NEW q \in Path, q # p, NEW i \in backlog[q] PROVE ops'[i] = ops[i]
  <2>1. i \in backlog'[q] /\ i # next_id
    BY <1>3, <1>4, <1>11
  <2> QED
    BY <1>1, <2>1
<1>12. ASSUME NEW i \in sending[p] PROVE ops'[i] = ops[i]
  <2>1. i \in backlog'[p] /\ i # next_id
    BY <1>2, <1>3, <1>4
  <2> QED
    BY <1>1, <2>1
<1> QED
  BY <1>1, <1>3, <1>5, <1>7, <1>8, <1>10, <1>11, <1>12

(* A report on p is nothing to the senders and to other paths. *)
LEMMA ReportsAside ==
    ASSUME CarefulInv, NEW p \in Path, NEW c, NEW m, UNCHANGED <<userVars, up>>,
           UNCHANGED queueVars \/ Reports(p, c, m)
    PROVE  /\ sending' = sending /\ open' = open
           /\ \A q \in Path : SenderInv(q)'
           /\ \A q \in Path : q # p => backlog'[q] = backlog[q] /\ \A i \in backlog[q] : ops'[i] = ops[i]
<1>1. Typed /\ QueueInv /\ \A q \in Path : SenderInv(q) /\ sending[q] \subseteq backlog[q]
  BY DEF CarefulInv, IInv, RecordsInv, QueueInv
<1>2. /\ sending' = sending /\ open' = open
      /\ \A q \in Path : \A i \in sending[q] : ops'[i] = ops[i]
      /\ \A q \in Path : q # p => backlog'[q] = backlog[q] /\ \A i \in backlog[q] : ops'[i] = ops[i]
      /\ \A i \in sending[p], j \in backlog'[p] : j \in sending[p] \/ i <= j \/ j \in backlog[p]
  <2>1. CASE UNCHANGED queueVars
    BY <2>1 DEF queueVars, mailbox
  <2>2. CASE Puts(p, c, m)
    BY <1>1, <2>2, PutsNewest
  <2> QED
    BY <2>1, <2>2 DEF Reports
<1>3. ASSUME NEW q \in Path PROVE SenderInv(q)'
  <2>1. /\ SameOp(q) /\ up'[q] = up[q] /\ disk'[q] = disk[q]
        /\ up[q].at = "idle" <=> sending[q] = {}
    BY <1>1, <1>2, OpStays DEF userVars, CarefulInv, IInv, UpInv
  <2>2. \A i \in sending'[q], j \in backlog'[q] : i <= j
    <3>1. \A i \in sending[q], j \in backlog[q] : i <= j
      BY <1>1 DEF SenderInv
    <3> QED
      BY <1>1, <1>2, <3>1
  <2>3. up[q].at # "idle" => Op(q)' = Op(q)
    BY <2>1 DEF SameOp
  <2> QED
    BY <1>1, <2>1, <2>2, <2>3 DEF SenderInv, Here
<1> QED
  BY <1>2, <1>3

(* A file is reported, or the client stops or has not got the file.        *)
LEMMA ReportsRecord ==
    ASSUME CarefulInv, NEW p \in Path, NEW c, NEW m, Reports(p, c, m), open
    PROVE  \/ /\ c # "remove" /\ ~Here(p) /\ UNCHANGED queueVars
           \/ \E i \in backlog'[p] : /\ Newest(p, i)' /\ ops'[i].command = c /\ ops'[i].meta = m
                                     /\ i \notin sending'[p]
<1>1. CASE c = "remove" \/ Here(p)
  <2>1. Puts(p, c, m) /\ Typed /\ QueueInv
    BY <1>1 DEF Reports, CarefulInv, IInv
  <2>2. next_id \in backlog'[p] /\ next_id \notin sending'[p]
    BY <2>1, PutsNewest
  <2>3. \A j \in backlog'[p] : j <= next_id
    BY <2>1, PutsNewest
  <2>4. ops'[next_id].command = c /\ ops'[next_id].meta = m
    BY <2>1, <2>2 DEF Puts
  <2> QED
    BY <2>2, <2>3, <2>4 DEF Newest
<1>2. CASE ~(c = "remove" \/ Here(p))
  BY <1>2 DEF Reports
<1> QED
  BY <1>1, <1>2

(* The watcher stores and reports what it has found of p. *)
LEMMA RecordsNote ==
    ASSUME CarefulInv, Flow, NoteFile
    PROVE  RecordsInv'
<1>0. PICK p \in Path : p = look.path
  BY NowTypes DEF CarefulInv, IInv, NoteFile
<1>1. /\ at \in {"scan", "visit"} /\ at' = at /\ look.meta \in Metas /\ look.meta # NoFile
      /\ UNCHANGED <<userVars, view, up, store, failures>>
  <2>1. at \in {"scan", "visit"} /\ at' = at
    BY DEF NoteFile, Turns
  <2>2. look.meta \in Metas
    BY DEF CarefulInv, IInv, Typed, Looks
  <2> QED
    BY <2>1, <2>2, Sentinel DEF NoteFile, bounds
<1>2. \/ files' = files /\ UNCHANGED queueVars
      \/ /\ files' = [files EXCEPT ![p] = look.meta]
         /\ IF at = "visit" THEN Reports(p, "upload", look.meta) ELSE UNCHANGED queueVars
  BY <1>0 DEF NoteFile, Note
<1>3. /\ sending' = sending /\ open' = open
      /\ \A q \in Path : SenderInv(q)'
      /\ \A q \in Path : q # p => backlog'[q] = backlog[q] /\ \A i \in backlog[q] : ops'[i] = ops[i]
  BY <1>1, <1>2, ReportsAside
<1>4. \A q \in Path : q # p => files'[q] = files[q]
  BY <1>2 DEF CarefulInv, IInv, Typed
<1>5. PastInv' /\ \A q \in Path : SameAsDisk(q)'
  BY <1>1 DEF CarefulInv, RecordsInv, PastInv, SameAsDisk, Here, userVars
<1>6. ASSUME NEW q \in Path, UNCHANGED <<files[q], backlog[q]>>, \A i \in backlog[q] : ops'[i] = ops[i]
      PROVE  RecordInv(q)'
  <2>1. RecordInv(q) /\ UNCHANGED <<clock, disk, up, store>>
    BY <1>1 DEF CarefulInv, RecordsInv, userVars
  <2>2. Compared(q)' <=> Compared(q)
    BY <1>1 DEF Compared
  <2> QED
    BY <1>1, <1>3, <1>6, <2>1, <2>2 DEF RecordInv, AbsentInv, PresentInv, Newest, Older, Reported
<1>7. RecordInv(p)'
  <2>1. CASE UNCHANGED queueVars /\ (files' = files \/ at = "scan")
    <3>1. UNCHANGED <<backlog, sending, ops, open>>
      BY <2>1 DEF queueVars, mailbox
    <3>2. CASE files' = files
      BY <1>6, <3>1, <3>2
    <3>3. CASE at = "scan"
      BY <1>1, <3>1, <3>3 DEF CarefulInv, RecordsInv, RecordInv, Compared, Reported
    <3> QED
      BY <2>1, <3>2, <3>3
  <2>2. CASE /\ at = "visit" /\ files' = [files EXCEPT ![p] = look.meta]
             /\ Reports(p, "upload", look.meta)
    <3>1. files'[p] = look.meta
      BY <2>2 DEF CarefulInv, IInv, Typed
    <3>2. AbsentInv(p)'
      BY <1>1, <3>1 DEF AbsentInv
    <3>3. ASSUME open PROVE PresentInv(p)'
      <4>1. CASE ~Here(p)
        <5>1. MetaOf(disk[p])' = NoFile
          BY <1>1, <4>1 DEF MetaOf, Here, userVars
        <5> QED
          BY <5>1 DEF PresentInv
      <4>2. CASE Here(p)
        <5>1. \E i \in backlog'[p] : /\ Newest(p, i)' /\ ops'[i].command = "upload"
                                     /\ ops'[i].meta = look.meta /\ i \notin sending'[p]
          BY <2>2, <3>3, <4>2, ReportsRecord
        <5> QED
          BY <3>1, <5>1 DEF PresentInv
      <4> QED
        BY <4>1, <4>2
    <3> QED
      BY <1>1, <1>3, <2>2, <3>2, <3>3 DEF RecordInv
  <2> QED
    BY <1>1, <1>2, <2>1, <2>2
<1> QED
  BY <1>1, <1>3, <1>4, <1>5, <1>6, <1>7 DEF CarefulInv, RecordsInv

LEMMA RecordsErase ==
    ASSUME CarefulInv, Flow, NEW p \in Path, EraseFile(p)
    PROVE  RecordsInv'
<1>1. /\ at = "erase" /\ at' = at /\ UNCHANGED <<userVars, view, up, store, failures>>
      /\ \/ UNCHANGED <<files, queueVars>>
         \/ files' = [files EXCEPT ![p] = NoFile] /\ Reports(p, "remove", Blank)
  BY DEF EraseFile, Turns, bounds
<1>2. /\ sending' = sending /\ open' = open
      /\ \A q \in Path : SenderInv(q)'
      /\ \A q \in Path : q # p => backlog'[q] = backlog[q] /\ \A i \in backlog[q] : ops'[i] = ops[i]
  BY <1>1, ReportsAside
<1>3. \A q \in Path : q # p => files'[q] = files[q]
  BY <1>1 DEF CarefulInv, IInv, Typed
<1>4. PastInv' /\ \A q \in Path : SameAsDisk(q)'
  BY <1>1 DEF CarefulInv, RecordsInv, PastInv, SameAsDisk, Here, userVars
<1>5. ASSUME NEW q \in Path, UNCHANGED <<files[q], backlog[q]>>, \A i \in backlog[q] : ops'[i] = ops[i]
      PROVE  RecordInv(q)'
  <2>1. RecordInv(q) /\ UNCHANGED <<clock, disk, up, store>>
    BY <1>1 DEF CarefulInv, RecordsInv, userVars
  <2>2. Compared(q)' <=> Compared(q)
    BY <1>1 DEF Compared
  <2> QED
    BY <1>1, <1>2, <1>5, <2>1, <2>2 DEF RecordInv, AbsentInv, PresentInv, Newest, Older, Reported
<1>6. RecordInv(p)'
  <2>1. CASE UNCHANGED <<files, queueVars>>
    BY <1>5, <2>1 DEF queueVars, mailbox
  <2>2. CASE files' = [files EXCEPT ![p] = NoFile] /\ Reports(p, "remove", Blank)
    <3>1. files'[p] = NoFile
      BY <2>2 DEF CarefulInv, IInv, Typed
    <3>2. PresentInv(p)'
      BY <3>1 DEF PresentInv
    <3>3. ASSUME open PROVE AbsentInv(p)'
      <4>1. \E i \in backlog'[p] : Newest(p, i)' /\ ops'[i].command = "remove"
        BY <2>2, <3>3, ReportsRecord
      <4> QED
        BY <4>1 DEF AbsentInv
    <3> QED
      BY <1>1, <1>2, <3>2, <3>3 DEF RecordInv
  <2> QED
    BY <1>1, <2>1, <2>2
<1> QED
  BY <1>1, <1>2, <1>3, <1>4, <1>5, <1>6 DEF CarefulInv, RecordsInv

(* What the server said at the start is compared with the file.            *)
LEMMA RecordsCompare ==
    ASSUME CarefulInv, Flow, NEW p \in Path, CompareFile(p)
    PROVE  RecordsInv'
<1>1. /\ at = "compare" /\ at' = at /\ p \in todo /\ todo' = todo \ {p}
      /\ UNCHANGED <<userVars, files, view, up, store, failures>>
  BY DEF CompareFile, Turns, bounds
<1>2. PICK c, m : UNCHANGED queueVars \/ Reports(p, c, m)
  BY DEF CompareFile
<1>3. /\ sending' = sending /\ open' = open
      /\ \A q \in Path : SenderInv(q)'
      /\ \A q \in Path : q # p => backlog'[q] = backlog[q] /\ \A i \in backlog[q] : ops'[i] = ops[i]
  BY <1>1, <1>2, ReportsAside
<1>4. PastInv' /\ \A q \in Path : SameAsDisk(q)'
  BY <1>1 DEF CarefulInv, RecordsInv, PastInv, SameAsDisk, Here, userVars
<1>5. ASSUME NEW q \in Path, q # p PROVE RecordInv(q)'
  <2>1. RecordInv(q) /\ UNCHANGED <<clock, disk, up, store>>
    BY <1>1 DEF CarefulInv, RecordsInv, userVars
  <2>2. Compared(q)' <=> Compared(q)
    BY <1>1, <1>5 DEF Compared
  <2> QED
    BY <1>1, <1>3, <1>5, <2>1, <2>2 DEF RecordInv, AbsentInv, PresentInv, Newest, Older, Reported
<1>6. ASSUME open PROVE AbsentInv(p)' /\ PresentInv(p)'
  <2>1. backlog[p] = {} /\ view[p] = Reported(p)
    BY <1>1 DEF CarefulInv, RecordsInv, RecordInv, Compared
  <2>2. CASE files[p] = NoFile
    <3>1. PresentInv(p)'
      BY <1>1, <2>2 DEF PresentInv
    <3>2. CASE view[p] = NoFile
      <4>1. store[p] = NoFile /\ UNCHANGED queueVars
        BY <2>1, <2>2, <3>2, RowOf, Sentinel DEF Reported, CompareFile, CarefulInv
      <4> QED
        BY <1>1, <2>1, <3>1, <4>1 DEF AbsentInv, queueVars, mailbox
    <3>3. CASE view[p] # NoFile
      <4>1. Reports(p, "remove", Blank)
        BY <2>2, <3>3 DEF CompareFile
      <4>2. \E i \in backlog'[p] : Newest(p, i)' /\ ops'[i].command = "remove"
        BY <1>6, <4>1, ReportsRecord
      <4> QED
        BY <3>1, <4>2 DEF AbsentInv
    <3> QED
      BY <3>2, <3>3
  <2>3. CASE files[p] # NoFile
    <3>1. AbsentInv(p)'
      BY <1>1, <2>3 DEF AbsentInv
    <3> SUFFICES ASSUME files[p] = MetaOf(disk[p]) PROVE PresentInv(p)'
      BY <1>1, <3>1 DEF PresentInv, userVars
    <3>2. /\ Here(p) /\ disk[p].data \in Data /\ disk[p].data # <<>> /\ 1 <= disk[p].time
          /\ disk[p].time \in Nat /\ files[p].sum = disk[p].data /\ files[p].time = disk[p].time
      <4>1. Here(p)
        BY <2>3 DEF MetaOf, Here
      <4> QED
        BY <4>1, Times, MetaTypes DEF Here
    <3>3. CASE view[p] = NoFile \/ Differs(p)
      <4>1. Reports(p, "upload", files[p])
        BY <2>3, <3>3 DEF CompareFile
      <4>2. \E i \in backlog'[p] : /\ Newest(p, i)' /\ ops'[i].command = "upload"
                                   /\ ops'[i].meta = files[p] /\ i \notin sending'[p]
        BY <1>6, <3>2, <4>1, ReportsRecord
      <4> QED
        BY <1>1, <4>2 DEF PresentInv
    <3>4. CASE view[p] # NoFile /\ ~Differs(p)
      <4>1. UNCHANGED queueVars /\ store[p] # NoFile /\ view[p] = store[p].meta
        BY <2>1, <2>3, <3>4 DEF CompareFile, Reported
      <4>2. store[p].meta.time = disk[p].time \/ store[p].meta.sum = disk[p].data
        BY <3>2, <3>4, <4>1 DEF Differs
      <4>3. store[p].meta # Blank
        <5>1. Blank.time = 0 /\ Blank.sum = <<>>
          BY DEF Blank
        <5> QED
          BY <3>2, <4>2, <5>1
      <4>4. store[p].meta.sum = disk[p].data
        BY <3>2, <4>1, <4>2, <4>3 DEF CarefulInv, RecordsInv, SameAsDisk
      <4>5. store[p].data = disk[p].data
        BY <4>1, <4>3, <4>4, RowOf DEF CarefulInv
      <4> QED
        BY <1>1, <2>1, <4>1, <4>5 DEF PresentInv, queueVars, mailbox, userVars
    <3> QED
      BY <3>3, <3>4
  <2> QED
    BY <2>2, <2>3
<1>7. RecordInv(p)'
  BY <1>1, <1>3, <1>6 DEF RecordInv, Compared
<1> QED
  BY <1>1, <1>3, <1>4, <1>5, <1>7 DEF CarefulInv, RecordsInv

----------------------------------------------------------------------------
(* What is recorded: the senders.                                          *)

(* Only what the watcher has compared is sent, and by a sender that has    *)
(* one operation.                                                          *)
LEMMA SenderBusy ==
    ASSUME CarefulInv, NEW p \in Path, at \notin Ended, SenderStep(p)
    PROVE  /\ backlog[p] # {} /\ Compared(p)
           /\ ~Takes(p) => \E k \in backlog[p] : sending[p] = {k} /\ Op(p) = ops[k]
           /\ UNCHANGED <<userVars, watcherVars, failures>> /\ open' = open
<1>1. ASSUME ~Takes(p) PROVE \E k \in backlog[p] : sending[p] = {k} /\ Op(p) = ops[k]
  <2>1. up[p].at # "idle"
    BY <1>1 DEF SenderStep, UploadOpens, UploadReads, UploadStops, UploadSends, RemoveSends
  <2>2. /\ sending[p] # {} /\ sending[p] \subseteq backlog[p] /\ backlog[p] \subseteq Nat
        /\ \A i \in sending[p], j \in backlog[p] : i <= j
    BY <2>1 DEF CarefulInv, IInv, Typed, UpInv, QueueInv, RecordsInv, SenderInv
  <2>3. PICK k \in sending[p] : Op(p) = ops[k]
    BY <2>2 DEF Op
  <2>4. \A i \in sending[p] : i = k
    BY <2>2
  <2>5. sending[p] = {k}
    BY <2>4
  <2> QED
    BY <2>2, <2>3, <2>5
<1>2. Takes(p) => backlog[p] # {}
  BY DEF Takes, Mailbox!Take
<1>3. backlog[p] # {}
  BY <1>1, <1>2
<1>4. Compared(p)
  BY <1>3 DEF CarefulInv, IInv, Typed, RestoreInv, Early, RecordsInv, RecordInv, Compared, Loops, Ended
<1>5. UNCHANGED <<userVars, watcherVars, failures>> /\ open' = open
  BY DEF SenderStep, Takes, Mailbox!Take, UploadOpens, UploadReads, UploadStops, UploadSends, RemoveSends,
     Completes, GivesBack, Mailbox!Done, Mailbox!Retry, queueVars, mailbox, bounds
<1> QED
  BY <1>1, <1>3, <1>4, <1>5

(* A step of the sender of p. *)
LEMMA SenderRecords ==
    ASSUME CarefulInv, Flow, at \notin Ended, NEW p \in Path, SenderStep(p), SenderInv(p)', SameAsDisk(p)',
           store'[p] # NoFile => store'[p].data # <<>>,
           open => AbsentInv(p)' /\ PresentInv(p)'
    PROVE  RecordsInv'
<1>1. Compared(p) /\ UNCHANGED <<userVars, watcherVars, failures>> /\ open' = open
  BY SenderBusy
<1>2. ASSUME NEW q \in Path, q # p PROVE Same(q)
  <2>1. /\ up'[q] = up[q] /\ store'[q] = store[q] /\ sending'[q] = sending[q] /\ backlog'[q] = backlog[q]
    BY <1>2 DEF SenderStep, Takes, Mailbox!Take, UploadOpens, UploadReads, UploadStops, UploadSends, RemoveSends,
       Completes, GivesBack, Mailbox!Done, Mailbox!Retry, queueVars, mailbox, Sender, Freed, Gone,
       CarefulInv, IInv, Typed
  <2>2. \A i \in backlog[q] : ops'[i] = ops[i]
    <3>1. ops' = ops \/ Completes(p)
      BY DEF SenderStep, Takes, UploadOpens, UploadReads, UploadStops, UploadSends, RemoveSends,
         GivesBack, queueVars
    <3>2. CASE Completes(p)
      BY <2>1, <3>2, Leaves DEF CarefulInv, IInv
    <3> QED
      BY <3>1, <3>2
  <2> QED
    BY <1>1, <2>1, <2>2 DEF Same, userVars, watcherVars
<1>3. ASSUME NEW q \in Path, q # p PROVE SameAsDisk(q)' /\ SenderInv(q)' /\ RecordInv(q)'
  BY <1>1, <1>2, <1>3, Frame DEF watcherVars
<1>4. RecordInv(p)'
  <2>1. Compared(p)' /\ at' \notin {"probe", "restore"}
    BY <1>1 DEF Compared, watcherVars
  <2> QED
    BY <1>1, <2>1 DEF RecordInv
<1>5. PastInv'
  <2>1. \A q \in Path : q # p => store'[q] = store[q]
    BY <1>2 DEF Same
  <2> QED
    BY <1>1, <2>1 DEF PastInv, CarefulInv, RecordsInv, userVars
<1> QED
  BY <1>1, <1>3, <1>4, <1>5 DEF RecordsInv, CarefulInv

(* An operation is given back, or it is done and the server has what it    *)
(* asked for.                                                              *)
LEMMA LeavesRecord ==
    ASSUME CarefulInv, Flow, at \notin Ended, NEW p \in Path, SenderStep(p), ~Takes(p),
           Completes(p) \/ GivesBack(p),
           Completes(p) =>
             /\ Op(p).command = "remove" => store'[p] = NoFile
             /\ Op(p).command = "upload" /\ up[p].at # "abort" /\ Here(p) /\ Op(p).meta = MetaOf(disk[p])
                  => store'[p] # NoFile /\ store'[p].data = disk[p].data
    PROVE  SenderInv(p)' /\ (open => AbsentInv(p)' /\ PresentInv(p)')
<1>1. PICK k \in backlog[p] : sending[p] = {k} /\ Op(p) = ops[k]
  BY SenderBusy
<1>2. /\ sending'[p] = {} /\ up'[p] = Idle
      /\ \A i \in backlog'[p] : ops'[i] = ops[i]
      /\ backlog'[p] = IF Completes(p) THEN backlog[p] \ {k} ELSE backlog[p]
  <2>1. sending' = [sending EXCEPT ![p] = {}] /\ up' = Freed(p) /\ \A i \in backlog'[p] : ops'[i] = ops[i]
    BY Leaves DEF CarefulInv, IInv
  <2>2. backlog'[p] = IF Completes(p) THEN backlog[p] \ {k} ELSE backlog[p]
    <3>1. backlog \in [Path -> SUBSET Nat]
      BY DEF CarefulInv, IInv, Typed
    <3>2. CASE Completes(p)
      BY <1>1, <3>1, <3>2 DEF Completes, Mailbox!Done
    <3>3. CASE ~Completes(p)
      BY <3>3 DEF GivesBack, Mailbox!Retry
    <3> QED
      BY <3>2, <3>3
  <2> QED
    BY <2>1, <2>2 DEF Freed, CarefulInv, IInv, Typed
<1>3. SenderInv(p)'
  BY <1>2 DEF SenderInv, Idle
<1>4. UNCHANGED <<disk, files>> /\ Compared(p)
  BY SenderBusy DEF userVars, watcherVars
<1>5. \A j \in backlog[p] : k <= j /\ k \in Nat /\ j \in Nat
  BY <1>1 DEF CarefulInv, IInv, Typed, RecordsInv, SenderInv
<1>6. ASSUME NEW i \in backlog[p], Newest(p, i), i = k, Completes(p)
      PROVE  backlog'[p] = {}
  BY <1>2, <1>5, <1>6 DEF Newest
<1>7. ASSUME NEW i \in backlog[p], Newest(p, i), ~(i = k /\ Completes(p))
      PROVE  i \in backlog'[p] /\ Newest(p, i)' /\ ops'[i] = ops[i]
  BY <1>2, <1>7 DEF Newest
<1>8. open => AbsentInv(p) /\ PresentInv(p)
  BY <1>4 DEF CarefulInv, RecordsInv, RecordInv
<1>9. ASSUME open PROVE AbsentInv(p)'
  <2> SUFFICES ASSUME files[p] = NoFile
               PROVE  \/ backlog'[p] = {} /\ store'[p] = NoFile
                      \/ \E i \in backlog'[p] : Newest(p, i)' /\ ops'[i].command = "remove"
    BY <1>4 DEF AbsentInv
  <2>1. PICK i \in backlog[p] : Newest(p, i) /\ ops[i].command = "remove"
    BY <1>1, <1>8, <1>9 DEF AbsentInv
  <2>2. CASE i = k /\ Completes(p)
    BY <1>1, <1>6, <2>1, <2>2
  <2>3. CASE ~(i = k /\ Completes(p))
    BY <1>7, <2>1, <2>3
  <2> QED
    BY <2>2, <2>3
<1>10. ASSUME open PROVE PresentInv(p)'
  <2> SUFFICES ASSUME files[p] # NoFile, files[p] = MetaOf(disk[p])
               PROVE  \/ backlog'[p] = {} /\ store'[p] # NoFile /\ store'[p].data = disk[p].data
                      \/ \E i \in backlog'[p] : /\ Newest(p, i)' /\ ops'[i].command = "upload"
                                                /\ ops'[i].meta = files[p] /\ i \notin sending'[p]
    BY <1>4 DEF PresentInv
  <2>1. PICK i \in backlog[p] : /\ Newest(p, i) /\ ops[i].command = "upload" /\ ops[i].meta = files[p]
                                /\ i \in sending[p] => up[p].at # "abort"
    BY <1>1, <1>8, <1>10 DEF PresentInv
  <2>2. Here(p)
    BY DEF MetaOf, Here
  <2>3. CASE i = k /\ Completes(p)
    BY <1>1, <1>6, <2>1, <2>2, <2>3
  <2>4. CASE ~(i = k /\ Completes(p))
    BY <1>2, <1>7, <2>1, <2>4
  <2> QED
    BY <2>3, <2>4
<1> QED
  BY <1>3, <1>9, <1>10

LEMMA RecordsTakes ==
    ASSUME CarefulInv, Flow, at \notin Ended, NEW p \in Path, Takes(p)
    PROVE  RecordsInv'
<1>1. PICK k \in backlog[p] : (\A j \in backlog[p] : k <= j) /\ sending' = [sending EXCEPT ![p] = {k}]
  BY DEF Takes, Mailbox!Take
<1>2. /\ sending[p] = {} /\ backlog' = backlog /\ ops' = ops /\ open' = open
      /\ sending \in [Path -> SUBSET Nat] /\ up \in [Path -> Transfers]
      /\ UNCHANGED <<userVars, watcherVars, store>>
  BY DEF Takes, Mailbox!Take, CarefulInv, IInv, Typed
<1>3. sending'[p] = {k} /\ Op(p)' = ops[k]
  BY <1>1, <1>2 DEF Op
<1>4. up[p].at = "idle" /\ up[p].source = NoFile
  BY <1>2 DEF CarefulInv, IInv, UpInv, RecordsInv, SenderInv
<1>5. /\ up'[p].at = (IF ops[k].command = "upload" THEN "open" ELSE "remove")
      /\ up'[p].source = NoFile
  <2>1. up' = [up EXCEPT ![p].at = IF ops[k].command = "upload" THEN "open" ELSE "remove"]
    BY <1>3 DEF Takes, Sender
  <2> QED
    BY <1>2, <1>4, <2>1 DEF Transfers
<1>6. SenderInv(p)'
  BY <1>1, <1>2, <1>3, <1>5 DEF SenderInv
<1>7. SameAsDisk(p)' /\ (store'[p] # NoFile => store'[p].data # <<>>)
  BY <1>2 DEF CarefulInv, RecordsInv, PastInv, SameAsDisk, Here, userVars
<1>8. ASSUME open PROVE AbsentInv(p)' /\ PresentInv(p)'
  <2>1. AbsentInv(p) /\ PresentInv(p) /\ UNCHANGED <<disk, files>>
    BY <1>8, SenderBusy DEF SenderStep, CarefulInv, RecordsInv, RecordInv, userVars, watcherVars
  <2> QED
    BY <1>2, <1>5, <2>1 DEF AbsentInv, PresentInv, Newest
<1> QED
  BY <1>6, <1>7, <1>8, SenderRecords DEF SenderStep

(* The file that an upload opens has the time and the size of the operation. *)
LEMMA RecordsOpens ==
    ASSUME CarefulInv, Flow, at \notin Ended, NEW p \in Path, UploadOpens(p)
    PROVE  RecordsInv'
<1>1. up[p].at = "open" /\ UNCHANGED <<userVars, watcherVars, store>> /\ SenderStep(p) /\ ~Takes(p)
  <2>1. up[p].at = "open" /\ UNCHANGED <<userVars, watcherVars, store>> /\ SenderStep(p)
    BY DEF UploadOpens, SenderStep
  <2>2. sending[p] # {}
    BY <2>1 DEF CarefulInv, IInv, UpInv
  <2> QED
    BY <2>1, <2>2 DEF Takes, Mailbox!Take
<1>2. SameAsDisk(p)' /\ (store'[p] # NoFile => store'[p].data # <<>>)
  BY <1>1 DEF CarefulInv, RecordsInv, PastInv, SameAsDisk, Here, userVars
<1>3. CASE AsRecorded(p)
  <2>1. /\ up' = [up EXCEPT ![p].at = "read", ![p].meta = MetaOf(disk[p])]
        /\ UNCHANGED queueVars /\ up \in [Path -> Transfers]
    BY <1>3 DEF UploadOpens, CarefulInv, IInv, Typed
  <2>2. /\ up[p].read = <<>> /\ up[p].source = NoFile /\ Op(p)' = Op(p)
        /\ SenderInv(p) /\ Op(p).command = "upload"
    BY <1>1, <2>1 DEF CarefulInv, RecordsInv, SenderInv, IInv, UpInv, Op, queueVars, mailbox
  <2>3. /\ up'[p].at = "read" /\ up'[p].meta = MetaOf(disk[p])
        /\ up'[p].read = <<>> /\ up'[p].source = NoFile
    BY <2>1, <2>2 DEF Transfers
  <2>4. /\ Here(p) /\ disk[p].data \in Data /\ Len(disk[p].data) # 0
        /\ MetaOf(disk[p]).size = Len(disk[p].data) /\ MetaOf(disk[p]).time = Op(p).meta.time
    BY <1>3, Times, DataOps, MetaTypes DEF AsRecorded, Here
  <2>5. Starts(<<>>, disk[p].data)
    BY <2>4, StartsFrom
  <2>6. SenderInv(p)'
    <3>1. disk' = disk /\ backlog' = backlog /\ sending' = sending
      BY <1>1, <2>1 DEF userVars, queueVars, mailbox
    <3> QED
      BY <2>2, <2>3, <2>4, <2>5, <3>1 DEF SenderInv
  <2>7. ASSUME open PROVE AbsentInv(p)' /\ PresentInv(p)'
    <3>1. AbsentInv(p) /\ PresentInv(p) /\ UNCHANGED <<disk, files, backlog, sending, ops>>
      BY <1>1, <2>1, <2>7, SenderBusy DEF CarefulInv, RecordsInv, RecordInv, userVars, watcherVars,
         queueVars, mailbox
    <3> QED
      BY <1>1, <2>3, <3>1 DEF AbsentInv, PresentInv, Newest
  <2> QED
    BY <1>1, <1>2, <2>6, <2>7, SenderRecords
<1>4. CASE ~AsRecorded(p)
  <2>1. Completes(p) /\ Op(p).command = "upload"
    BY <1>1, <1>4 DEF UploadOpens, CarefulInv, IInv, UpInv
  <2>2. ~(Here(p) /\ Op(p).meta = MetaOf(disk[p]))
    <3>1. Here(p) => MetaOf(disk[p]).size = Len(disk[p].data) /\ MetaOf(disk[p]).time = disk[p].time
      BY Times, MetaTypes DEF Here
    <3> QED
      BY <1>4, <3>1 DEF AsRecorded
  <2>3. SenderInv(p)' /\ (open => AbsentInv(p)' /\ PresentInv(p)')
    BY <1>1, <2>1, <2>2, LeavesRecord
  <2> QED
    BY <1>1, <1>2, <2>3, SenderRecords
<1> QED
  BY <1>3, <1>4

(* The file is read as it is, as long as it has the time of the operation. *)
LEMMA ReadsAsIs ==
    ASSUME CarefulInv, NEW p \in Path, UploadReads(p), Here(p), up[p].meta.time = disk[p].time
    PROVE  /\ up[p].source = NoFile /\ up[p].meta = MetaOf(disk[p])
           /\ Starts(up'[p].read, disk[p].data)
           /\ LastSegment(p, up'[p].read) => up'[p].read = disk[p].data
           /\ up'[p].at = "abort" =>
                IF LastSegment(p, up'[p].read) THEN ~Checked(p, up'[p].read) ELSE ~open
<1> DEFINE n == Len(up[p].read)
           read == Append(up[p].read, Source(p)[n + 1])
<1>0. PICK d \in Data : d = disk[p].data
  BY Times
<1>1. /\ up[p].at = "read" /\ up \in [Path -> Transfers] /\ up[p].read \in Data /\ n \in Nat
      /\ SenderInv(p)
  BY SenderTypes, DataOps DEF UploadReads, CarefulInv, RecordsInv, IInv, Typed
<1>2. /\ up[p].source = NoFile /\ up[p].meta = MetaOf(disk[p]) /\ up[p].meta.size # 0
      /\ Starts(up[p].read, d) /\ Source(p) = d
  BY <1>0, <1>1 DEF SenderInv, Source
<1>3. /\ n < Len(d)
      /\ \E data : up' = [up EXCEPT ![p].read = read, ![p].data = data,
                                    ![p].at = IF ~LastSegment(p, read) /\ Len(data) < SegmentSize THEN "read"
                                              ELSE IF IF LastSegment(p, read) THEN Checked(p, read) ELSE open
                                              THEN "send" ELSE "abort"]
  BY <1>2 DEF UploadReads
<1>4. /\ Starts(read, d) /\ read \in Data
      /\ LastSegment(p, read) => read = d
  <2>1. read = Append(up[p].read, d[n + 1])
    BY <1>2
  <2>2. Starts(read, d) /\ read \in Data
    BY <1>1, <1>2, <1>3, <2>1, StartsFrom
  <2>3. up[p].meta.size = Len(d)
    BY <1>0, <1>2, Times, MetaTypes DEF Here
  <2> HIDE DEF read
  <2> QED
    BY <2>2, <2>3, StartsFrom DEF LastSegment
<1> HIDE DEF read
<1>5. /\ up'[p].read = read
      /\ up'[p].at = "abort" => IF LastSegment(p, read) THEN ~Checked(p, read) ELSE ~open
  <2>1. PICK data :
          up' = [up EXCEPT ![p].read = read, ![p].data = data,
                           ![p].at = IF ~LastSegment(p, read) /\ Len(data) < SegmentSize THEN "read"
                                     ELSE IF IF LastSegment(p, read) THEN Checked(p, read) ELSE open
                                     THEN "send" ELSE "abort"]
    BY <1>3
  <2>2. /\ up'[p].read = read
        /\ up'[p].at = IF ~LastSegment(p, read) /\ Len(data) < SegmentSize THEN "read"
                       ELSE IF IF LastSegment(p, read) THEN Checked(p, read) ELSE open
                       THEN "send" ELSE "abort"
    BY <1>1, <2>1 DEF Transfers
  <2> QED
    BY <2>2
<1> QED
  BY <1>0, <1>2, <1>4, <1>5

LEMMA RecordsUploadReads ==
    ASSUME CarefulInv, Flow, at \notin Ended, NEW p \in Path, UploadReads(p)
    PROVE  RecordsInv'
<1>1. /\ up[p].at = "read" /\ UNCHANGED <<userVars, watcherVars, queueVars, store>> /\ SenderStep(p)
      /\ SenderInv(p) /\ Op(p).command = "upload"
  BY DEF UploadReads, SenderStep, CarefulInv, RecordsInv, IInv, UpInv
<1>2. SameAsDisk(p)' /\ (store'[p] # NoFile => store'[p].data # <<>>)
  BY <1>1 DEF CarefulInv, RecordsInv, PastInv, SameAsDisk, Here, userVars
<1>3. /\ up'[p].at \in {"read", "send", "abort"} /\ (up'[p].at = "send" => up'[p].read # <<>>)
      /\ up'[p].meta = up[p].meta /\ up'[p].source = up[p].source
  <2>1. up'[p].at \in {"read", "send", "abort"} /\ up'[p].meta = up[p].meta /\ up'[p].source = up[p].source
    BY UploadReadsInto DEF CarefulInv, IInv, SendInv
  <2>2. up'[p].read # <<>>
    <3>1. up[p].meta.size # 0 /\ up[p].read \in Data /\ up \in [Path -> Transfers]
      BY <1>1, SenderTypes DEF SenderInv, CarefulInv, IInv, Typed
    <3>2. up'[p].read = Append(up[p].read, Source(p)[Len(up[p].read) + 1])
      BY <3>1 DEF UploadReads, Transfers
    <3>3. Source(p) \in Data /\ Len(up[p].read) < Len(Source(p))
      <4>1. Source(p) \in Data
        BY <1>1, SourceWas DEF CarefulInv, IInv, UpInv
      <4>2. Len(up[p].read) < Len(Source(p))
        BY <3>1 DEF UploadReads
      <4> QED
        BY <4>1, <4>2
    <3> QED
      <4> DEFINE x == Source(p)[Len(up[p].read) + 1]
      <4>1. x \in Piece /\ Len(up[p].read) \in Nat
        BY <3>1, <3>3, DataOps
      <4> HIDE DEF x
      <4>2. Len(Append(up[p].read, x)) = Len(up[p].read) + 1
        BY <3>1, <4>1, DataOps
      <4>3. Append(up[p].read, x) # <<>>
        <5>1. Len(Append(up[p].read, x)) # 0
          BY <4>1, <4>2
        <5> QED
          BY <5>1, DataNone
      <4> QED
        BY <3>2, <4>3 DEF x
  <2> QED
    BY <2>1, <2>2
<1>4. UNCHANGED <<disk, files, backlog, sending, ops>> /\ Op(p)' = Op(p)
  BY <1>1 DEF userVars, watcherVars, queueVars, mailbox, Op
<1>5. SenderInv(p)'
  <2>1. /\ up[p].meta.size # 0 /\ up[p].meta.time = Op(p).meta.time
        /\ \A i \in sending[p], j \in backlog[p] : i <= j
    BY <1>1 DEF SenderInv
  <2> QED
    BY <1>1, <1>3, <1>4, <2>1, ReadsAsIs DEF SenderInv, Here
<1>6. ASSUME open PROVE AbsentInv(p)' /\ PresentInv(p)'
  <2>1. AbsentInv(p) /\ PresentInv(p)
    BY <1>1, <1>6, SenderBusy DEF CarefulInv, RecordsInv, RecordInv
  <2>2. ~Takes(p)
    <3>1. sending[p] # {}
      BY <1>1 DEF CarefulInv, IInv, UpInv
    <3> QED
      BY <3>1 DEF Takes, Mailbox!Take
  <2>3. PICK k \in backlog[p] : sending[p] = {k} /\ Op(p) = ops[k]
    BY <1>1, <2>2, SenderBusy
  <2>4. ASSUME files[p] # NoFile, files[p] = MetaOf(disk[p]), ops[k].meta = files[p]
        PROVE  up'[p].at # "abort"
    <3>1. Here(p)
      BY <2>4 DEF MetaOf, Here
    <3>2. /\ Op(p).meta = MetaOf(disk[p]) /\ Op(p).meta.time = disk[p].time
          /\ Op(p).meta.sum = disk[p].data
      BY <2>3, <2>4, <3>1, Times, MetaTypes DEF Here
    <3>3. up[p].meta.time = disk[p].time
      BY <1>1, <3>2 DEF SenderInv
    <3>4. LastSegment(p, up'[p].read) => Checked(p, up'[p].read)
      BY <3>1, <3>2, <3>3, ReadsAsIs DEF Checked
    <3> QED
      BY <1>6, <3>1, <3>3, <3>4, ReadsAsIs
  <2>5. AbsentInv(p)'
    BY <1>1, <1>4, <2>1 DEF AbsentInv, Newest
  <2>6. PresentInv(p)'
    BY <1>1, <1>4, <2>1, <2>3, <2>4 DEF PresentInv, Newest
  <2> QED
    BY <2>5, <2>6
<1> QED
  BY <1>1, <1>2, <1>5, <1>6, SenderRecords

(* An upload is only given up for a newer operation. *)
LEMMA RecordsUploadStops ==
    ASSUME CarefulInv, Flow, at \notin Ended, NEW p \in Path, UploadStops(p)
    PROVE  RecordsInv'
<1>1. /\ up[p].at = "read" /\ UNCHANGED <<userVars, watcherVars, store>> /\ SenderStep(p)
      /\ SenderInv(p) /\ Op(p).command = "upload" /\ ~Takes(p)
  <2>1. /\ up[p].at = "read" /\ UNCHANGED <<userVars, watcherVars, store>> /\ SenderStep(p)
        /\ SenderInv(p) /\ Op(p).command = "upload" /\ sending[p] # {}
    BY DEF UploadStops, SenderStep, CarefulInv, RecordsInv, IInv, UpInv
  <2> QED
    BY <2>1 DEF Takes, Mailbox!Take
<1>2. SameAsDisk(p)' /\ (store'[p] # NoFile => store'[p].data # <<>>)
  BY <1>1 DEF CarefulInv, RecordsInv, PastInv, SameAsDisk, Here, userVars
<1>3. CASE Superseded(p) /\ Sender(p, "abort") /\ UNCHANGED queueVars
  <2>1. up'[p].at = "abort" /\ UNCHANGED <<disk, files, backlog, sending, ops>> /\ Op(p)' = Op(p)
    BY <1>1, <1>3 DEF Sender, CarefulInv, IInv, Typed, Transfers, userVars, watcherVars, queueVars,
       mailbox, Op
  <2>2. SenderInv(p)'
    BY <1>1, <2>1 DEF SenderInv
  <2>3. PICK k \in backlog[p] : sending[p] = {k} /\ Op(p) = ops[k]
    BY <1>1, SenderBusy
  <2>4. ~Newest(p, k)
    <3>1. PICK j \in backlog[p] : k < j
      BY <1>3, <2>3 DEF Superseded
    <3>2. k \in Nat /\ j \in Nat
      BY <2>3 DEF CarefulInv, IInv, Typed
    <3> QED
      BY <3>1, <3>2 DEF Newest
  <2>5. ASSUME open PROVE AbsentInv(p)' /\ PresentInv(p)'
    <3>1. AbsentInv(p) /\ PresentInv(p)
      BY <1>1, <2>5, SenderBusy DEF CarefulInv, RecordsInv, RecordInv
    <3>2. AbsentInv(p)'
      BY <1>1, <2>1, <3>1 DEF AbsentInv, Newest
    <3>3. PresentInv(p)'
      BY <1>1, <2>1, <2>3, <2>4, <3>1 DEF PresentInv, Newest
    <3> QED
      BY <3>2, <3>3
  <2> QED
    BY <1>1, <1>2, <2>2, <2>5, SenderRecords
<1>4. CASE GivesBack(p)
  <2>1. SenderInv(p)' /\ (open => AbsentInv(p)' /\ PresentInv(p)')
    <3>1. ~Completes(p)
      <4>1. sending[p] # {} /\ sending[p] \subseteq backlog[p] /\ backlog \in [Path -> SUBSET Nat]
        BY <1>1 DEF CarefulInv, IInv, UpInv, QueueInv, Typed
      <4> QED
        BY <1>4, <4>1 DEF Completes, GivesBack, Mailbox!Done, Mailbox!Retry
    <3> QED
      BY <1>1, <1>4, <3>1, LeavesRecord
  <2> QED
    BY <1>1, <1>2, <2>1, SenderRecords
<1> QED
  BY <1>3, <1>4 DEF UploadStops

(* What a sender sends is the file as it is, as long as that has the time  *)
(* of the operation; the row gets that time with the whole of it.          *)
LEMMA SendsAsIs ==
    ASSUME CarefulInv, NEW p \in Path, up[p].at = "send"
    PROVE  /\ Stored(p).data = up[p].read /\ up[p].read # <<>>
           /\ Stored(p).meta # Blank =>
                /\ LastSegment(p, up[p].read)
                /\ Stored(p).meta.sum = up[p].read /\ Stored(p).meta.time = up[p].meta.time
           /\ Here(p) /\ up[p].meta.time = disk[p].time /\ LastSegment(p, up[p].read)
                => up[p].read = disk[p].data
<1> DEFINE read == up[p].read
           size == up[p].meta.size
<1>1. /\ Typed /\ UpInv(p) /\ SenderInv(p) /\ read \in Data /\ size \in Nat /\ up[p].meta \in Metas
      /\ size # 0
  BY SenderTypes DEF CarefulInv, IInv, RecordsInv, SenderInv
<1>2. /\ Stored(p).data = read /\ read # <<>>
      /\ ~LastSegment(p, read) => Stored(p).meta = Blank
  BY <1>1, StoredIs DEF SenderInv
<1>3. ASSUME LastSegment(p, read)
      PROVE  Stored(p).meta.sum = read /\ Stored(p).meta.time = up[p].meta.time
  <2>1. Stored(p).meta = [up[p].meta EXCEPT !.sum = read]
    BY <1>1, <1>3 DEF Stored
  <2> QED
    BY <1>1, <2>1 DEF Metas
<1>4. ASSUME Here(p), up[p].meta.time = disk[p].time, LastSegment(p, read)
      PROVE  read = disk[p].data
  <2>1. up[p].meta = MetaOf(disk[p]) /\ Starts(read, disk[p].data)
    BY <1>1, <1>4 DEF SenderInv
  <2>2. disk[p].data \in Data /\ Len(read) = Len(disk[p].data)
    BY <1>4, <2>1, Times, MetaTypes DEF LastSegment, Here
  <2> QED
    BY <1>1, <2>1, <2>2, StartsFrom
<1> QED
  BY <1>2, <1>3, <1>4

LEMMA RecordsUploadSends ==
    ASSUME CarefulInv, Flow, at \notin Ended, NEW p \in Path, UploadSends(p)
    PROVE  RecordsInv'
<1>1. /\ up[p].at = "send" /\ UNCHANGED <<userVars, watcherVars>> /\ SenderStep(p)
      /\ SenderInv(p) /\ Op(p).command = "upload" /\ ~Takes(p)
  <2>1. /\ up[p].at = "send" /\ UNCHANGED <<userVars, watcherVars>> /\ SenderStep(p)
        /\ SenderInv(p) /\ Op(p).command = "upload" /\ sending[p] # {}
    BY DEF UploadSends, SenderStep, CarefulInv, RecordsInv, IInv, UpInv
  <2> QED
    BY <2>1 DEF Takes, Mailbox!Take
<1>2. store'[p] = Stored(p) /\ Stored(p) \in Copies /\ Stored(p) # NoFile
  <2>1. store' = [store EXCEPT ![p] = Stored(p)] /\ store \in [Path -> Copies \cup {NoFile}]
    BY DEF UploadSends, CarefulInv, IInv, Typed
  <2>2. Stored(p) \in Copies
    BY <1>1, StoredIs DEF CarefulInv, IInv
  <2> QED
    BY <2>1, <2>2, Sentinel
<1>3. store'[p].data # <<>>
  BY <1>1, <1>2, SendsAsIs
<1>4. SameAsDisk(p)'
  BY <1>1, <1>2, SendsAsIs DEF SameAsDisk, Here, userVars
<1>5. CASE LastSegment(p, up[p].read)
  <2>1. Completes(p)
    BY <1>5 DEF UploadSends
  <2>2. ASSUME Here(p), Op(p).meta = MetaOf(disk[p])
        PROVE  store'[p] # NoFile /\ store'[p].data = disk[p].data
    <3>1. Op(p).meta.time = disk[p].time
      BY <2>2, Times, MetaTypes DEF Here
    <3>2. up[p].meta.time = disk[p].time
      BY <1>1, <3>1 DEF SenderInv
    <3> QED
      BY <1>1, <1>2, <1>5, <2>2, <3>2, SendsAsIs
  <2>3. SenderInv(p)' /\ (open => AbsentInv(p)' /\ PresentInv(p)')
    BY <1>1, <2>1, <2>2, LeavesRecord
  <2> QED
    BY <1>1, <1>3, <1>4, <2>3, SenderRecords
<1>6. CASE ~LastSegment(p, up[p].read)
  <2>1. /\ up' = [up EXCEPT ![p].at = "read", ![p].seg = @ + 1, ![p].data = <<>>]
        /\ UNCHANGED queueVars /\ up \in [Path -> Transfers]
    BY <1>6 DEF UploadSends, CarefulInv, IInv, Typed
  <2>2. /\ up'[p].at = "read" /\ up'[p].meta = up[p].meta /\ up'[p].read = up[p].read
        /\ up'[p].source = up[p].source
        /\ UNCHANGED <<disk, files, backlog, sending, ops>> /\ Op(p)' = Op(p)
    BY <1>1, <2>1 DEF Transfers, userVars, watcherVars, queueVars, mailbox, Op
  <2>3. SenderInv(p)'
    BY <1>1, <2>2 DEF SenderInv, Here
  <2>4. ASSUME open PROVE AbsentInv(p)' /\ PresentInv(p)'
    <3>1. AbsentInv(p) /\ PresentInv(p) /\ backlog[p] # {}
      BY <1>1, <2>4, SenderBusy DEF CarefulInv, RecordsInv, RecordInv
    <3> QED
      BY <2>2, <3>1 DEF AbsentInv, PresentInv, Newest
  <2> QED
    BY <1>1, <1>3, <1>4, <2>3, <2>4, SenderRecords
<1> QED
  BY <1>5, <1>6

LEMMA RecordsRemoveSends ==
    ASSUME CarefulInv, Flow, at \notin Ended, NEW p \in Path, RemoveSends(p)
    PROVE  RecordsInv'
<1>1. /\ up[p].at \in {"remove", "abort"} /\ SenderStep(p) /\ ~Takes(p) /\ Completes(p)
      /\ SenderInv(p)
  <2>1. /\ up[p].at \in {"remove", "abort"} /\ SenderStep(p) /\ Completes(p) /\ SenderInv(p)
        /\ sending[p] # {}
    BY DEF RemoveSends, SenderStep, CarefulInv, RecordsInv, IInv, UpInv
  <2> QED
    BY <2>1 DEF Takes, Mailbox!Take
<1>2. store'[p] = NoFile
  BY DEF RemoveSends, Gone, CarefulInv, IInv, Typed
<1>3. up[p].at # "abort" => Op(p).command # "upload"
  BY <1>1 DEF SenderInv
<1>4. SenderInv(p)' /\ (open => AbsentInv(p)' /\ PresentInv(p)')
  BY <1>1, <1>2, <1>3, LeavesRecord
<1>5. SameAsDisk(p)'
  BY <1>2 DEF SameAsDisk
<1> QED
  BY <1>1, <1>2, <1>4, <1>5, SenderRecords

----------------------------------------------------------------------------
(* What is recorded: the client as a whole.                                *)

(* A client that starts again has compared nothing; what the server was    *)
(* told is past.                                                           *)
LEMMA RecordsStartsAgain ==
    ASSUME CarefulUser, CarefulInv, StartsAgain
    PROVE  RecordsInv'
<1>1. /\ UNCHANGED <<disk, past, store, failures>> /\ clock' = clock + 1 /\ at' = "probe"
      /\ up' = [q \in Path |-> Idle]
      /\ backlog' = [q \in Path |-> {}] /\ sending' = [q \in Path |-> {}]
  BY DEF StartsAgain, Enters
<1>2. PastInv /\ clock \in Nat /\ failures = 0
  BY DEF CarefulInv, RecordsInv, IInv, Typed
<1>3. PastInv'
  <2>1. \A x \in past : x[3] \in 1 .. clock + 1
    <3>1. \A x \in past : x[3] \in 1 .. clock
      BY <1>2 DEF PastInv
    <3> QED
      BY <1>2, <3>1
  <2> QED
    BY <1>1, <1>2, <2>1 DEF PastInv
<1>4. ASSUME NEW p \in Path PROVE SameAsDisk(p)' /\ SenderInv(p)' /\ RecordInv(p)'
  <2>1. SameAsDisk(p)'
    BY <1>1 DEF CarefulInv, RecordsInv, SameAsDisk, Here
  <2>2. SenderInv(p)'
    BY <1>1 DEF SenderInv, Idle
  <2>3. Older(p)'
    <3>1. store[p] # NoFile => store[p].meta.time \in Nat /\ store[p].meta.time <= clock
      BY Times
    <3> QED
      BY <1>1, <1>2, <3>1 DEF Older
  <2>4. RecordInv(p)'
    BY <1>1, <2>3 DEF RecordInv, Compared
  <2> QED
    BY <2>1, <2>2, <2>4
<1> QED
  BY <1>1, <1>2, <1>3, <1>4 DEF RecordsInv

(* A client that is told to stop records nothing more. *)
LEMMA RecordsStops ==
    ASSUME CarefulInv, Flow, Stop \/ UNCHANGED vars
    PROVE  RecordsInv'
<1>1. UNCHANGED <<userVars, watcherVars, ops, up, store, backlog, sending, failures>>
      /\ (open' => open)
  BY DEF Stop, Mailbox!Close, vars, queueVars, mailbox, bounds
<1>2. PastInv'
  BY <1>1 DEF CarefulInv, RecordsInv, PastInv, userVars
<1>3. ASSUME NEW p \in Path PROVE SameAsDisk(p)' /\ SenderInv(p)' /\ RecordInv(p)'
  <2>1. Op(p)' = Op(p)
    BY <1>1 DEF Op
  <2>2. SameAsDisk(p)' /\ SenderInv(p)'
    BY <1>1, <2>1 DEF CarefulInv, RecordsInv, SameAsDisk, SenderInv, Here, userVars
  <2>3. RecordInv(p)'
    BY <1>1 DEF CarefulInv, RecordsInv, RecordInv, Compared, AbsentInv, PresentInv, Newest, Older,
       Reported, userVars, watcherVars
  <2> QED
    BY <2>2, <2>3
<1> QED
  BY <1>1, <1>2, <1>3 DEF CarefulInv, RecordsInv

LEMMA LoopsStep == at \in Loops /\ [Next]_vars => at' \in Loops
<1> SUFFICES ASSUME at \in Loops, [Next]_vars PROVE at' \in Loops
  OBVIOUS
<1>1. ASSUME NEW t, RestoreSegment(t) PROVE at' \in Loops
  BY <1>1 DEF RestoreSegment
<1>2. CASE WatcherStep \/ WatcherRequestFails
  BY <1>1, <1>2 DEF WatcherStep, Probe, NextLoop, RestoreChecks, RestoreThrows, WatcherRequestFails,
     Ends, ReadTime, ReadTimeAgain, ReadSize, OpenSum, ReadLength, ReadSum, ReadFails, NoteFile,
     RestoreStarts, LooksAt, EraseFile, CompareFile, Reads, GoesOn, Throws, Turns, Enters, Loops, Ended
<1>3. ASSUME NEW p \in Path, SenderStep(p) \/ RequestFails(p) PROVE at' \in Loops
  BY <1>3 DEF SenderStep, RequestFails, Takes, UploadOpens, UploadReads, UploadStops, UploadSends,
     RemoveSends, watcherVars
<1>4. CASE Stop \/ UserEdits \/ StartsAgain \/ UNCHANGED vars
  BY <1>4 DEF Stop, UserEdits, Write, Remove, Edits, StartsAgain, Enters, vars, watcherVars, Loops
<1> QED
  BY <1>2, <1>3, <1>4 DEF Next

LEMMA RecordsStep ==
    ASSUME CarefulUser, NonEmpty, MaxFailures = 0, CarefulInv, [Next]_vars
    PROVE  CarefulInv'
<1> SUFFICES RecordsInv'
  BY BackupSteps, RestoreStep, LoopsStep DEF CarefulInv
<1>1. Flow
  BY Flows DEF CarefulInv, IInv
<1>2. CASE at \notin Ended /\ WatcherStep
  BY <1>1, <1>2, RecordsRestore, RecordsReads, RecordsNote, RecordsErase, RecordsCompare
     DEF WatcherStep, WatcherReads, MetaReads
<1>3. ASSUME at \notin Ended, NEW p \in Path, SenderStep(p)
      PROVE  RecordsInv'
  BY <1>1, <1>3, RecordsTakes, RecordsOpens, RecordsUploadReads, RecordsUploadStops, RecordsUploadSends,
     RecordsRemoveSends DEF SenderStep
<1>4. ASSUME NEW p \in Path PROVE ~RequestFails(p)
  BY DEF RequestFails, CarefulInv, RecordsInv
<1>5. CASE UserEdits
  BY <1>1, <1>5, RecordsWrite, RecordsRemove DEF UserEdits
<1>6. CASE StartsAgain
  BY <1>6, RecordsStartsAgain
<1>7. CASE Stop \/ UNCHANGED vars
  BY <1>1, <1>7, RecordsStops
<1>8. ~WatcherRequestFails
  BY DEF WatcherRequestFails, CarefulInv, RecordsInv
<1> QED
  BY <1>2, <1>3, <1>4, <1>5, <1>6, <1>7, <1>8 DEF Next

LEMMA RecordsStart == Init => CarefulInv
<1> SUFFICES ASSUME Init PROVE CarefulInv
  OBVIOUS
<1>1. IInv
  BY BackupStarts
<1>2. RestoreInv /\ at \in Loops
  BY MetaTypes DEF Init, Mailbox!Init, RestoreInv, ReadInv, Summing, Loops, Ended
<1>3. RecordsInv
  BY DEF Init, Mailbox!Init, RecordsInv, PastInv, SameAsDisk, SenderInv, Idle, RecordInv, Older, Compared
<1> QED
  BY <1>1, <1>2, <1>3 DEF CarefulInv

(* For a careful user, when requests are answered and no file is empty,    *)
(* what the watcher remembers and the queue has no operation on is what    *)
(* the server has: no change is lost between them, through edits while     *)
(* files are read and sent, restarts and restores.                         *)
THEOREM BackupRecords ==
    ASSUME CarefulUser, NonEmpty, MaxFailures = 0
    PROVE  Spec => []RecordedIsStored
<1>1. CarefulInv /\ [Next]_vars => CarefulInv'
  BY RecordsStep
<1>2. CarefulInv => RecordedIsStored
  <2> SUFFICES ASSUME CarefulInv, NEW p \in Path, Watched(p), backlog[p] = {}, files[p] = MetaOf(disk[p])
               PROVE  DataOf(store[p]) = DataOf(disk[p])
    BY DEF RecordedIsStored
  <2>1. AbsentInv(p) /\ PresentInv(p)
    BY DEF Watched, CarefulInv, RecordsInv, RecordInv, Compared
  <2>2. CASE disk[p] = NoFile
    BY <2>1, <2>2 DEF MetaOf, AbsentInv, DataOf
  <2>3. CASE disk[p] # NoFile
    <3>1. files[p] # NoFile
      BY <2>3, Times, MetaTypes, Sentinel DEF Here
    <3> QED
      BY <2>1, <2>3, <3>1 DEF PresentInv, DataOf
  <2> QED
    BY <2>2, <2>3
<1> QED
  BY <1>1, <1>2, RecordsStart, PTL DEF Spec
=============================================================================
