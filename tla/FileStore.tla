----------------------------- MODULE FileStore -----------------------------
(***************************************************************************)
(* What the server keeps of one user's files: the files under its root and *)
(* the rows of table fs, written by the worker threads that serve UPLOAD,  *)
(* REMOVE and ABORT (ServerFlow::flow, FileSystemManager, atomic_map), one *)
(* statement at a time.  A row and its file are two stores that no         *)
(* transaction ties together, the guard on the path is taken by a test     *)
(* followed by an insertion, and the process may die between any two       *)
(* statements.  A statement of the database may be refused, which the code *)
(* notices only when sqlite3_prepare or sqlite3_bind says so.              *)
(*                                                                         *)
(* The data of segment i of version v is the pair <<v, i>>; a checksum is  *)
(* the contents it was computed from.                                      *)
(***************************************************************************)
EXTENDS Naturals, Sequences, FiniteSets

CONSTANTS
    Path,           \* file paths of one user
    Version,        \* the versions of the files' contents
    Segs,           \* number of segments of each version, 0 if it is empty
    Worker,         \* worker threads, each serving one connection
    NoFile, NoRow, NoMeta, Torn,
    SingleWriter,   \* whether the clients keep to one transfer per path
    MaxJobs,        \* bound: transfers and removals started
    MaxCrashes,     \* bound: crashes of the server
    MaxErrors       \* bound: statements the database refuses

ASSUME StoreAssumption ==
    /\ Segs \in [Version -> Nat]
    /\ NoFile \notin Seq(Version \X Nat) /\ NoMeta \notin Version
    /\ NoRow \notin [last : Nat, meta : Version \cup {NoMeta}]
    /\ Torn # NoFile
    /\ {NoFile, Torn} \cap [data : Seq(Version \X Nat),
                          whole : Version \cup {NoMeta}] = {}
    /\ SingleWriter \in BOOLEAN
    /\ MaxJobs \in Nat /\ MaxCrashes \in Nat /\ MaxErrors \in Nat

VARIABLES
    disk,       \* contents of each file: a sequence of segments, or NoFile
    row,        \* [last, meta] of each path in table fs, or NoRow
    dirs,       \* paths whose directory exists
    cleaner,    \* the thread that removes empty directories runs
    guarded,    \* keys of ServerFlow::svc_map
    at,         \* where each worker is
    job,        \* what it works for: [op, path, version, seg]
    fd,         \* workers whose open file is still the one at its path
    clearing,   \* ServerFlow::clear() is under way
    jobs, crashes, errors,
    erred,      \* history: workers one of whose statements was refused
    damaged     \* history: paths where file and row were left apart by a
                \* crash, a refused statement or half of clear()

vars == <<disk, row, dirs, cleaner, guarded, at, job, fd, clearing, jobs,
          crashes, errors, erred, damaged>>

(* What no step of a worker on its request changes. *)
Around == <<cleaner, clearing, jobs, crashes>>
History == <<errors, erred, damaged>>

Job == [op : {"upload", "remove"}, path : Path, version : Version, seg : Nat]

(* Where the thread that holds FileSystemManager::mutex (shared) is. *)
Inside == {"check", "dirs", "open", "write", "record", "verify", "discard",
           "discard_row", "meta", "unlink", "delete_row"}

(* Where a crash leaves file and row apart: the file is touched, the row   *)
(* not yet.                                                                *)
TornAt == {"write", "record", "delete_row", "discard_row"}

(* From the test of the guard to its release. *)
Busy(w) == at[w] \notin {"none", "next"}
AtRest(p) == \A w \in Worker : Busy(w) => job[w].path # p

PathOf(w) == job[w].path
Row(w) == row[PathOf(w)]
HasRow(w) == Row(w) # NoRow

Goes(w, where) == at' = [at EXCEPT ![w] = where]

----------------------------------------------------------------------------
(* Segments.                                                               *)

Content(v) == [i \in 1 .. Segs[v] |-> <<v, i - 1>>]

(* The data a request carries: nothing for an empty file. *)
Piece(j) == IF Segs[j.version] = 0 THEN <<>> ELSE << <<j.version, j.seg>> >>

(* The client sends at least one segment, for empty files. *)
LastSentLate(j) == j.seg >= Segs[j.version]  \* mutant: one too many
LastSent(j) == j.seg + 1 >= Segs[j.version]

(* The server's test: count_segments(size) = segmentid + 1. *)
FinalEarly(j) == Segs[j.version] = j.seg    \* mutant: counted from one
Final(j) == Segs[j.version] = j.seg + 1

(* The segment the row allows; without a row last_segment is 0. *)
Allowed(w) ==
    \/ job[w].seg = 0
    \/ job[w].seg = (IF HasRow(w) THEN Row(w).last ELSE 0) + 1

----------------------------------------------------------------------------
Init ==
    /\ disk = [p \in Path |-> NoFile]
    /\ row = [p \in Path |-> NoRow]
    /\ dirs = {}
    /\ cleaner \in BOOLEAN      \* keep_going is read uninitialised
    /\ guarded = {}
    /\ at = [w \in Worker |-> "none"]
    /\ job \in [Worker -> {[op |-> "remove", path |-> p, version |-> v, seg |-> 0]
                             : p \in Path, v \in Version}]
    /\ \A w, x \in Worker : job[w] = job[x]
    /\ fd = {}
    /\ clearing = FALSE
    /\ jobs = 0 /\ crashes = 0 /\ errors = 0
    /\ erred = {} /\ damaged = {}

----------------------------------------------------------------------------
(* The clients: a request reaches a worker.                                *)

(* No other connection has a transfer under way on p. *)
Alone(w, p) == \A x \in Worker \ {w} : at[x] # "none" => PathOf(x) # p

Begins(w, j) ==
    /\ at[w] = "none" /\ jobs < MaxJobs /\ ~clearing
    /\ SingleWriter => Alone(w, j.path)
    /\ job' = [job EXCEPT ![w] = j]
    /\ jobs' = jobs + 1
    /\ erred' = erred \ {w}
    /\ Goes(w, "has")
    /\ UNCHANGED <<disk, row, dirs, cleaner, guarded, fd, clearing, crashes,
                   errors, damaged>>

BeginUpload(w) ==
    \E p \in Path, v \in Version :
        Begins(w, [op |-> "upload", path |-> p, version |-> v, seg |-> 0])

(* REMOVE and ABORT. *)
BeginRemove(w) ==
    \E p \in Path :
        Begins(w, [job[w] EXCEPT !.op = "remove", !.path = p, !.seg = 0])

(* The next segment of the upload. *)
SendNext(w) ==
    /\ at[w] = "next"
    /\ job' = [job EXCEPT ![w].seg = @ + 1]
    /\ Goes(w, "has")
    /\ UNCHANGED <<disk, row, dirs, guarded, fd, Around, History>>

(* The client stops or its connection breaks: the rest never comes. *)
GivesUp(w) ==
    /\ at[w] = "next"
    /\ Goes(w, "none")
    /\ UNCHANGED <<disk, row, dirs, guarded, job, fd, Around, History>>

----------------------------------------------------------------------------
(* The guard: has, then add.                                               *)

GuardTests(w) ==
    /\ at[w] = "has"
    /\ \/ PathOf(w) \notin guarded /\ Goes(w, "add")
       \/ PathOf(w) \in guarded /\ Goes(w, "none")      \* "concurrent_write"
    /\ UNCHANGED <<disk, row, dirs, guarded, job, fd, Around, History>>

(* add waits for room for a new key; the limit is the number of workers. *)
NoRoom(w) == PathOf(w) \in guarded  \* mutant: the limit is 0
Room(w) == PathOf(w) \in guarded \/ Cardinality(guarded) < Cardinality(Worker)

GuardAdds(w) ==
    /\ at[w] = "add"
    /\ Room(w)
    /\ guarded' = guarded \cup {PathOf(w)}
    /\ Goes(w, IF job[w].op = "upload" THEN "check" ELSE "unlink")
    /\ UNCHANGED <<disk, row, dirs, job, fd, Around, History>>

(* The keys left when the guard of w is destroyed. *)
KeyLeft(w) == guarded               \* mutant: not on every path out
KeyRemoved(w) == guarded \ {PathOf(w)}

(* Segment 0 and a removal, all of whose statements were carried out, put  *)
(* right what was left apart.                                              *)
Restarts(w) == job[w].seg = 0 /\ w \notin erred

(* A success: the client goes on, or is done. *)
Succeeds(w) ==
    /\ at[w] = "succeed"
    /\ guarded' = KeyRemoved(w)
    /\ damaged' = IF Restarts(w) THEN damaged \ {PathOf(w)} ELSE damaged
    /\ Goes(w, IF job[w].op = "upload" /\ ~LastSent(job[w]) THEN "next" ELSE "none")
    /\ UNCHANGED <<disk, row, dirs, job, fd, Around, errors, erred>>

Fails(w) ==
    /\ at[w] = "fail"
    /\ guarded' = guarded \ {PathOf(w)}
    /\ Goes(w, "none")
    /\ UNCHANGED <<disk, row, dirs, job, fd, Around, History>>

----------------------------------------------------------------------------
(* FileSystemManager::write_file.                                          *)

CheckSegment(w) ==
    /\ at[w] = "check"
    /\ \/ Allowed(w) /\ Goes(w, "dirs")
       \/ ~Allowed(w) /\ Goes(w, "fail")                \* "wrong_segment"
    /\ UNCHANGED <<disk, row, dirs, guarded, job, fd, Around, History>>

CreateDirectories(w) ==
    /\ at[w] = "dirs"
    /\ dirs' = dirs \cup {PathOf(w)}
    /\ Goes(w, "open")
    /\ UNCHANGED <<disk, row, guarded, job, fd, Around, History>>

(* The file once open: segment 0 truncates, a later one is appended, to a  *)
(* new file if there is none.                                              *)
OpenedToAppend(w) ==                \* mutant: never truncated
    IF disk[PathOf(w)] = NoFile THEN <<>> ELSE disk[PathOf(w)]
Opened(w) ==
    IF job[w].seg = 0 \/ disk[PathOf(w)] = NoFile THEN <<>> ELSE disk[PathOf(w)]

OpenFile(w) ==
    /\ at[w] = "open"
    /\ disk' = [disk EXCEPT ![PathOf(w)] = Opened(w)]
    /\ fd' = fd \cup {w}
    /\ Goes(w, "write")
    /\ UNCHANGED <<row, dirs, guarded, job, Around, History>>

(* The file cannot be opened (a directory has its name, no permission). *)
OpenFails(w) ==
    /\ at[w] = "open"
    /\ Goes(w, "fail")
    /\ UNCHANGED <<disk, row, dirs, guarded, job, fd, Around, History>>

(* A truncating stream writes at the start of the file, an appending one   *)
(* at its end; a file removed meanwhile takes the data with it.            *)
Written(j, old) ==
    IF j.seg # 0 \/ old = <<>> \/ Piece(j) = <<>> THEN old \o Piece(j)
    ELSE Piece(j) \o Tail(old)

WriteData(w) ==
    /\ at[w] = "write"
    /\ disk' = IF w \in fd
               THEN [disk EXCEPT ![PathOf(w)] = Written(job[w], @)] ELSE disk
    /\ fd' = fd \ {w}
    /\ Goes(w, "record")
    /\ UNCHANGED <<row, dirs, guarded, job, Around, History>>

(* The row after a segment: INSERT (replacing) for segment 0, else UPDATE. *)
RecordedKeepsMeta(w) ==             \* mutant: INSERT keeps the old columns
    IF HasRow(w) THEN [Row(w) EXCEPT !.last = job[w].seg]
    ELSE IF job[w].seg = 0 THEN [last |-> 0, meta |-> NoMeta] ELSE NoRow
Recorded(w) ==
    IF job[w].seg = 0 THEN [last |-> 0, meta |-> NoMeta]
    ELSE IF HasRow(w) THEN [Row(w) EXCEPT !.last = job[w].seg] ELSE NoRow

AfterRecord(w) == IF Final(job[w]) THEN "verify" ELSE "succeed"

RecordSegment(w) ==
    /\ at[w] = "record"
    /\ row' = [row EXCEPT ![PathOf(w)] = Recorded(w)]
    /\ Goes(w, AfterRecord(w))
    /\ UNCHANGED <<disk, dirs, guarded, job, fd, Around, History>>

(* The checksum of the file against the one the client sent; if the file   *)
(* is gone calculate_checksum throws.                                      *)
Verify(w) ==
    /\ at[w] = "verify"
    /\ \/ disk[PathOf(w)] = NoFile /\ Goes(w, "fail")
       \/ disk[PathOf(w)] = Content(job[w].version) /\ Goes(w, "meta")
       \/ disk[PathOf(w)] \notin {NoFile, Content(job[w].version)}
          /\ Goes(w, "discard")
    /\ UNCHANGED <<disk, row, dirs, guarded, job, fd, Around, History>>

(* The row gets hash, last_write_time and size, if it is still there. *)
SaveMetadata(w) ==
    /\ at[w] = "meta"
    /\ row' = IF HasRow(w)
              THEN [row EXCEPT ![PathOf(w)].meta = job[w].version] ELSE row
    /\ Goes(w, "succeed")
    /\ UNCHANGED <<disk, dirs, guarded, job, fd, Around, History>>

----------------------------------------------------------------------------
(* FileSystemManager::remove_file, and the end of a failed upload: the     *)
(* file, then the row.                                                     *)

RemoveFile(w, from, to) ==
    /\ at[w] = from
    /\ disk' = [disk EXCEPT ![PathOf(w)] = NoFile]
    /\ fd' = {x \in fd : PathOf(x) # PathOf(w)}
    /\ Goes(w, to)
    /\ UNCHANGED <<row, dirs, guarded, job, Around, History>>

RowKept(w) == row                   \* mutant: the DELETE is missing
RowDeleted(w) == [row EXCEPT ![PathOf(w)] = NoRow]

DeleteRow(w, from, to) ==
    /\ at[w] = from
    /\ row' = RowDeleted(w)
    /\ Goes(w, to)
    /\ UNCHANGED <<disk, dirs, guarded, job, fd, Around, History>>

Unlink(w) == RemoveFile(w, "unlink", "delete_row")
Discard(w) == RemoveFile(w, "discard", "discard_row")

----------------------------------------------------------------------------
(* A statement the database refuses.                                       *)

Refused(w, where) ==
    /\ errors < MaxErrors
    /\ errors' = errors + 1
    /\ erred' = erred \cup {w}
    /\ damaged' = IF at[w] \in {"record", "delete_row", "discard_row"}
                  THEN damaged \cup {PathOf(w)} ELSE damaged
    /\ Goes(w, where)
    /\ UNCHANGED <<disk, row, dirs, guarded, job, fd, Around>>

(* An error of sqlite3_step is logged: a SELECT found nothing, the others  *)
(* change nothing, and the request goes on (after a bad checksum it fails  *)
(* whatever the DELETE does: PrepareFails).                                *)
StepFails(w) ==
    \/ at[w] = "check" /\ Refused(w, IF job[w].seg <= 1 THEN "dirs" ELSE "fail")
    \/ at[w] = "record" /\ Refused(w, AfterRecord(w))
    \/ at[w] \in {"meta", "delete_row"} /\ Refused(w, "succeed")

(* An error of sqlite3_prepare or sqlite3_bind throws. *)
PrepareFails(w) ==
    /\ at[w] \in {"check", "record", "meta", "delete_row", "discard_row"}
    /\ Refused(w, "fail")

----------------------------------------------------------------------------
(* cleanup_empty_folders, with the mutex held exclusively: no worker is    *)
(* inside write_file or remove_file.                                       *)
AnyTime == TRUE                     \* mutant: the lock is shared
Exclusive == \A w \in Worker : at[w] \notin Inside

Cleanup ==
    /\ cleaner
    /\ Exclusive /\ ~clearing
    /\ dirs' = {p \in dirs : disk[p] # NoFile}
    /\ UNCHANGED <<disk, row, guarded, at, job, fd, Around, History>>

(* The process dies and is started again.  Files and rows stay; the new    *)
(* FileSystemManager cleans up once.                                       *)
Crash ==
    /\ crashes < MaxCrashes
    /\ crashes' = crashes + 1
    /\ damaged' = damaged \cup {PathOf(w) : w \in {x \in Worker : at[x] \in TornAt}}
    /\ guarded' = {} /\ fd' = {} /\ clearing' = FALSE
    /\ at' = [w \in Worker |-> "none"]
    /\ dirs' = {p \in dirs : disk[p] # NoFile}
    /\ cleaner' \in BOOLEAN
    /\ UNCHANGED <<disk, row, job, jobs, errors, erred>>

----------------------------------------------------------------------------
(* ServerFlow::clear(): the server is stopped, which joins the workers;    *)
(* the files go one after the other, then the database.  The process ends  *)
(* and is started again on an empty one.                                   *)

ClearStops ==
    /\ ~clearing
    /\ \A w \in Worker : ~Busy(w)
    /\ clearing' = TRUE
    /\ at' = [w \in Worker |-> "none"]
    /\ UNCHANGED <<disk, row, dirs, cleaner, guarded, job, fd, jobs, crashes,
                   History>>

ClearFile(p) ==
    /\ clearing /\ disk[p] # NoFile
    /\ disk' = [disk EXCEPT ![p] = NoFile]
    /\ dirs' = dirs \ {p}
    /\ damaged' = damaged \cup {p}
    /\ UNCHANGED <<row, guarded, at, job, fd, Around, errors, erred>>

ClearRows ==
    /\ clearing
    /\ \A p \in Path : disk[p] = NoFile
    /\ row' = [p \in Path |-> NoRow]
    /\ dirs' = {} /\ damaged' = {}
    /\ clearing' = FALSE
    /\ cleaner' \in BOOLEAN
    /\ UNCHANGED <<disk, guarded, at, job, fd, jobs, crashes, errors, erred>>

----------------------------------------------------------------------------
(* The worker goes on with the request it serves. *)
Serves(w) ==
    \/ GuardTests(w) \/ GuardAdds(w) \/ CheckSegment(w) \/ CreateDirectories(w)
    \/ OpenFile(w) \/ OpenFails(w) \/ WriteData(w) \/ RecordSegment(w)
    \/ Verify(w) \/ SaveMetadata(w) \/ Unlink(w) \/ Discard(w)
    \/ DeleteRow(w, "delete_row", "succeed")
    \/ DeleteRow(w, "discard_row", "fail")
    \/ StepFails(w) \/ PrepareFails(w)
    \/ Succeeds(w) \/ Fails(w)

Next ==
    \/ \E w \in Worker :
         BeginUpload(w) \/ BeginRemove(w) \/ SendNext(w) \/ GivesUp(w) \/ Serves(w)
    \/ Cleanup
    \/ Crash
    \/ ClearStops \/ ClearRows
    \/ \E p \in Path : ClearFile(p)

Spec == Init /\ [][Next]_vars

(* The worker threads are scheduled; nothing is assumed about clients. *)
FairSpec == Spec /\ \A w \in Worker : WF_vars(Serves(w))

----------------------------------------------------------------------------
(* Properties.                                                             *)

(* Types. *)
TypeOK ==
    /\ disk \in [Path -> Seq(Version \X Nat) \cup {NoFile}]
    /\ row \in [Path -> [last : Nat, meta : Version \cup {NoMeta}] \cup {NoRow}]
    /\ dirs \subseteq Path /\ guarded \subseteq Path
    /\ cleaner \in BOOLEAN
    /\ at \in [Worker -> Inside \cup {"none", "next", "has", "add", "succeed",
                                      "fail"}]
    /\ job \in [Worker -> Job]
    /\ \A w \in Worker :
         job[w].seg = 0 \/ job[w].seg < Segs[job[w].version]
    /\ fd \subseteq Worker /\ erred \subseteq Worker /\ damaged \subseteq Path
    /\ clearing \in BOOLEAN
    /\ jobs \in 0 .. MaxJobs /\ crashes \in 0 .. MaxCrashes
    /\ errors \in 0 .. MaxErrors

Quiet(p) == AtRest(p) /\ p \notin damaged

(* A file the server reports as complete is there, whole, and of the       *)
(* version reported: no earlier version under a new row, no mixture, after *)
(* any number of uploads given up, repeated, failed or removed, and after  *)
(* the next segment 0 or removal wherever the two were left apart.         *)
RowDescribesFile ==
    \A p \in Path :
        Quiet(p) /\ row[p] # NoRow /\ row[p].meta # NoMeta
            => disk[p] = Content(row[p].meta)

(* No file without a row (it would never be deleted), no row without a     *)
(* file (every restore would stop at it), and the row of an upload under   *)
(* way counts the segments in the file, so that the next one goes on.      *)
RowCountsSegments ==
    \A p \in Path : Quiet(p) =>
        /\ (disk[p] = NoFile) = (row[p] = NoRow)
        /\ row[p] # NoRow => Len(disk[p]) = row[p].last + 1

(* An upload whose last segment was answered with success is stored and    *)
(* reported: that is when the client forgets the operation.  Only a        *)
(* refused statement of the same upload can make the answer untrue.        *)
UploadedIsStored ==
    \A w \in Worker \ erred :
        at[w] = "succeed" /\ job[w].op = "upload" /\ LastSent(job[w]) =>
            /\ disk[PathOf(w)] = Content(job[w].version)
            /\ HasRow(w) /\ Row(w).meta = job[w].version

(* The directory made for a file is not cleaned up before it is opened. *)
WriterKeepsDirectory == \A w \in Worker : at[w] = "open" => PathOf(w) \in dirs

(* A key left in the map would refuse its file for ever: at rest no path   *)
(* is guarded.                                                             *)
GuardsReleased == \A p \in Path : AtRest(p) => p \notin guarded

(* What the client may count on, of a path it alone writes.  The metadata  *)
(* of an earlier version are void once a segment 0 has truncated the file. *)
Superseded(p) ==
    \E w \in Worker : at[w] \in {"write", "record"} /\ job[w].path = p /\ job[w].seg = 0

Stored(p) ==
    IF p \in damaged THEN Torn
    ELSE IF disk[p] = NoFile THEN NoFile
    ELSE [data |-> disk[p],
          whole |-> IF row[p] = NoRow \/ Superseded(p) THEN NoMeta ELSE row[p].meta]

Remote == INSTANCE RemoteStore WITH
    store <- [p \in Path |-> Stored(p)], Nothing <- NoFile

(* The store implements RemoteStore: a file goes through the segments of   *)
(* one version in their order to the whole of it, is never reported as     *)
(* whole otherwise, and nothing but a crash, a refused statement or half   *)
(* of clear() tears it.                                                    *)
ImplementsStore == Remote!Spec

(* Every request is answered, unless the server dies. *)
RequestsAnswered == \A w \in Worker : Busy(w) ~> ~Busy(w)
=============================================================================
