------------------------------- MODULE Backup -------------------------------
(***************************************************************************)
(* One client's files from its disk to the server and back: the user edits *)
(* them, the watcher (FileManager) compares what it sees with what it      *)
(* remembers and reports changes to the queue, upload_file and remove_file *)
(* send them, and a client started again probes the server, restores if    *)
(* asked to, and compares (ClientFlow::watcher_loop).  The disk is read    *)
(* piece by piece, while the user goes on editing.                         *)
(*                                                                         *)
(* The queue is taken by its specification, PathMailbox, which OutputQueue *)
(* implements; an answered request is one step of the store, as FileStore  *)
(* shows for one transfer per path at a time.                              *)
(*                                                                         *)
(* The contents of a file are a sequence of pieces, its size their number, *)
(* its checksum the contents themselves.  A piece is what is read at once: *)
(* between two of them, of a segment or of a checksum, the user may write. *)
(***************************************************************************)
EXTENDS Naturals, Sequences, FiniteSets

CONSTANTS
    Path,           \* relative paths of the watched files
    Version,        \* what the user may write into a file
    Piece,          \* what a file consists of
    Content,        \* version -> its pieces
    SegmentSize,    \* pieces of a segment
    NoFile,         \* no file, nothing remembered, no row
    CarefulUser,    \* whether edits come at moments the watcher can tell
    MaxEdits,       \* bound: edits of the user
    MaxRuns,        \* bound: times the client is started
    MaxFailures     \* bound: requests that get no answer

ASSUME BackupAssumption ==
    /\ Content \in [Version -> Seq(Piece)]
    /\ SegmentSize \in Nat \ {0}
    /\ LET Data == Seq(Piece)
           Metas == [time : Nat, size : Nat, sum : Data]
       IN  /\ NoFile \notin Data /\ NoFile \notin Metas
           /\ NoFile \notin [data : Data, time : Nat]
           /\ NoFile \notin [data : Data, last : Nat, meta : Metas]
    /\ CarefulUser \in BOOLEAN
    /\ MaxEdits \in Nat /\ MaxRuns \in Nat \ {0} /\ MaxFailures \in Nat

VARIABLES
    clock,      \* the time in seconds
    disk,       \* path -> [data, time] of the client's file, or NoFile
    files,      \* path -> what FileManager remembers of it, or NoFile
    view,       \* path -> what the server answered to PROBE, or NoFile
    restore,    \* the option --restore
    at,         \* where the watcher thread is
    todo,       \* the paths its loop has yet to visit
    look,       \* what it reads at the moment: [path, step, meta, length, source]
    backlog, sending, next_id, open,        \* the queue: PathMailbox
    ops,        \* id -> [command, meta] of the operations in the queue
    up,         \* path -> its sender: [at, meta, read, seg, data, source]
    store,      \* path -> [data, last, meta] on the server, or NoFile
    edits, runs, failures,
    past        \* history: <<path, data, time>> of every file there was

userVars == <<clock, disk, past>>
watcherVars == <<files, view, restore, at, todo, look>>
mailbox == <<backlog, sending, next_id, open>>
queueVars == <<mailbox, ops>>
bounds == <<edits, runs, failures>>
vars == <<userVars, watcherVars, queueVars, up, store, bounds>>

Mailbox == INSTANCE PathMailbox

----------------------------------------------------------------------------
(* Metadata.                                                               *)

(* A row without metadata is reported with zeros; 0 is the CRC of nothing. *)
Blank == [time |-> 0, size |-> 0, sum |-> <<>>]

MetaOf(f) ==
    IF f = NoFile THEN NoFile
    ELSE [time |-> f.time, size |-> Len(f.data), sum |-> f.data]

DataOf(f) == IF f = NoFile THEN NoFile ELSE f.data

Here(p) == disk[p] # NoFile

NoLook == [path |-> CHOOSE p \in Path : TRUE, step |-> "none", meta |-> Blank,
           length |-> 0, source |-> NoFile]
Idle == [at |-> "idle", meta |-> Blank, read |-> <<>>, seg |-> 0, data |-> <<>>,
         source |-> NoFile]

----------------------------------------------------------------------------
Init ==
    /\ clock = 1
    /\ disk = [p \in Path |-> NoFile]
    /\ files = [p \in Path |-> NoFile]
    /\ view = [p \in Path |-> NoFile]
    /\ restore \in BOOLEAN
    /\ at = "probe" /\ todo = {} /\ look = NoLook
    /\ Mailbox!Init
    /\ ops = [i \in {} |-> 0]
    /\ up = [p \in Path |-> Idle]
    /\ store = [p \in Path |-> NoFile]
    /\ edits = 0 /\ runs = 1 /\ failures = 0
    /\ past = {}

----------------------------------------------------------------------------
(* The user.                                                               *)

(* The file at p becomes f. *)
Becomes(p, f) ==
    /\ disk' = [disk EXCEPT ![p] = f]
    /\ past' = IF f = NoFile THEN past ELSE past \cup {<<p, f.data, f.time>>}

(* Who has p open when it is removed reads on from the file it opened. *)
Unlinks(p) ==
    /\ up' = IF up[p].at \in {"read", "send"} /\ up[p].source = NoFile
             THEN [up EXCEPT ![p].source = disk[p].data] ELSE up
    /\ look' = IF /\ look.path = p /\ look.step \in {"length", "sum"}
                  /\ look.source = NoFile
               THEN [look EXCEPT !.source = disk[p].data] ELSE look

(* The watcher can tell every edit of a careful user: none falls into the  *)
(* second of another or between two looks at the same file, and none       *)
(* brings back the contents it remembers.  Nor does the client start again *)
(* in the second of an edit (StartsAgain).                                 *)
Noticeable(p) ==
    /\ ~(look.step # "none" /\ look.path = p)
    /\ at # "restore"

Edits(p) ==
    /\ edits < MaxEdits
    /\ edits' = edits + 1
    /\ CarefulUser => Noticeable(p)
    /\ UNCHANGED <<files, view, restore, at, todo, queueVars, store, runs, failures>>

Write(p, v, t) ==
    /\ CarefulUser =>
         /\ t > clock
         /\ files[p] # NoFile => files[p].sum # Content[v]
    /\ clock' = t
    /\ Becomes(p, [data |-> Content[v], time |-> t])
    /\ UNCHANGED <<up, look>>
    /\ Edits(p)

Remove(p) ==
    /\ Here(p)
    /\ Becomes(p, NoFile)
    /\ Unlinks(p)
    /\ clock' = clock
    /\ Edits(p)

UserEdits ==
    \E p \in Path :
        \/ \E v \in Version, t \in {clock, clock + 1} : Write(p, v, t)
        \/ Remove(p)

----------------------------------------------------------------------------
(* watcher_loop: PROBE, restore, initial_scan, file_system_compare and     *)
(* start_monitoring follow each other, each a loop over paths.             *)

Enters(where, paths) == at' = where /\ todo' = paths /\ look' = NoLook
Turns(p) == at' = at /\ todo' = todo \ {p} /\ look' = NoLook

(* A loop has visited every path. *)
LoopEnds(loop) == at = loop /\ todo = {} /\ look = NoLook

(* get_files: the server answers from its rows alone, those of uploads     *)
(* that never ended included.                                              *)
Reported(p) == IF store[p] = NoFile THEN NoFile ELSE store[p].meta

(* get_server_state. *)
Probe ==
    /\ at = "probe"
    /\ view' = [p \in Path |-> Reported(p)]
    /\ IF restore THEN Enters("restore", {p \in Path : store[p] # NoFile})
                  ELSE Enters("scan", Path)
    /\ UNCHANGED <<userVars, files, restore, queueVars, up, store, bounds>>

NextLoop ==
    /\ \/ LoopEnds("restore") /\ Enters("scan", Path)
       \/ LoopEnds("scan") /\ Enters("compare", Path)
       \/ LoopEnds("compare") /\ Enters("sleep", {})
       \/ LoopEnds("sleep") /\ Enters("erase", {p \in Path : files[p] # NoFile})
       \/ LoopEnds("erase") /\ Enters("visit", Path)
       \/ LoopEnds("visit") /\ Enters("sleep", {})
    /\ UNCHANGED <<userVars, files, view, restore, queueVars, up, store, bounds>>

(* An exception: monitoring starts its pass again, anything before ends    *)
(* the process.                                                            *)
Throws ==
    /\ Enters(IF at = "visit" THEN "sleep" ELSE "dead", {})
    /\ UNCHANGED <<userVars, files, view, restore, queueVars, up, store, bounds>>

Ended == {"stopped", "lost", "refused", "mismatch", "dead"}

Ends(why) ==
    /\ why \in Ended /\ Enters(why, {})
    /\ UNCHANGED <<userVars, files, view, restore, queueVars, up, store>>

----------------------------------------------------------------------------
(* get_server_files.  look.length counts the pieces already here.          *)

Lesser(m, n) == IF m < n THEN m ELSE n

(* read_file_segment: what comes after the end is an error. *)
Served(p, n) == SubSeq(store[p].data, n + 1, Lesser(n + SegmentSize, Len(store[p].data)))
Readable(p, n) == store[p] # NoFile /\ n <= Len(store[p].data)

(* The segment that begins at n is the last: one at least, for empty files. *)
LastShort(p, n) == n + SegmentSize + 1 >= view[p].size  \* mutant: a piece too few
LastFetched(p, n) == n + SegmentSize >= view[p].size

RestoreStarts(p) ==
    /\ at = "restore" /\ look = NoLook /\ p \in todo
    /\ look' = [look EXCEPT !.path = p, !.step = "fetch"]
    /\ UNCHANGED <<userVars, files, view, restore, at, todo, queueVars, up,
                   store, bounds>>

(* Segment 0 truncates, the others append; after the last the checksum of  *)
(* the file is computed.                                                   *)
RestoreSegment(t) ==
    LET p == look.path
        n == look.length
        old == IF n = 0 \/ ~Here(p) THEN <<>> ELSE disk[p].data
    IN  /\ look.step = "fetch" /\ open /\ Readable(p, n)
        /\ Becomes(p, [data |-> old \o Served(p, n), time |-> t])
        /\ clock' = t
        /\ look' = IF LastFetched(p, n) THEN [look EXCEPT !.step = "open"]
                                        ELSE [look EXCEPT !.length = n + SegmentSize]
        /\ UNCHANGED <<files, view, restore, at, todo, queueVars, up, store, bounds>>

(* It must be the one the server reported: another one is an exception.    *)
RestoreChecks ==
    /\ at = "restore" /\ look.step = "note"
    /\ IF look.meta.sum = view[look.path].sum
       THEN /\ Turns(look.path)
            /\ UNCHANGED <<userVars, files, view, restore, queueVars, up, store>>
       ELSE Ends("mismatch")
    /\ UNCHANGED bounds

(* So is, before a segment, that the client is to stop, and an answer that *)
(* is an error.                                                            *)
RestoreThrows ==
    /\ look.step = "fetch"
    /\ \/ ~open /\ Ends("stopped")
       \/ open /\ ~Readable(look.path, look.length) /\ Ends("refused")
    /\ UNCHANGED bounds

(* PROBE or RESTORE gets no answer, or an error for another reason. *)
WatcherRequestFails ==
    /\ failures < MaxFailures /\ failures' = failures + 1
    /\ at = "probe" \/ (look.step = "fetch" /\ open)
    /\ Ends("lost")
    /\ UNCHANGED <<edits, runs>>

----------------------------------------------------------------------------
(* The metadata of a file: its time, its size and its checksum are read    *)
(* one after the other.                                                    *)

(* The file at p is a regular file: go on to read it. *)
LooksAt(p) ==
    /\ at \in {"scan", "visit"} /\ look = NoLook /\ p \in todo
    /\ IF Here(p)
       THEN look' = [look EXCEPT !.path = p, !.step = "time"] /\ UNCHANGED <<at, todo>>
       ELSE Turns(p)
    /\ UNCHANGED <<userVars, files, view, restore, queueVars, up, store, bounds>>

(* A step that reads something and changes nothing but what is known. *)
Reads(step) ==
    /\ look.step = step
    /\ UNCHANGED <<userVars, files, view, restore, queueVars, up, store, bounds>>

GoesOn(step, meta) ==
    look' = [look EXCEPT !.step = step, !.meta = meta] /\ UNCHANGED <<at, todo>>

Now == disk[look.path]
Known == at = "visit" /\ files[look.path] # NoFile

ReadTime ==
    /\ Reads("time") /\ Here(look.path)
    /\ GoesOn(IF Known THEN "again" ELSE "size", [look.meta EXCEPT !.time = Now.time])

(* A file that is known is read on only if its time, read a second time,   *)
(* is another than the one remembered.                                     *)
SameTimeAlways == TRUE              \* mutant: only new files are reported
SameTime == Now.time = files[look.path].time

ReadTimeAgain ==
    /\ Reads("again") /\ Here(look.path)
    /\ IF SameTime THEN Turns(look.path) ELSE GoesOn("size", look.meta)

ReadSize ==
    /\ Reads("size") /\ Here(look.path)
    /\ GoesOn("open", [look.meta EXCEPT !.size = Len(Now.data)])

(* calculate_checksum opens the file, reads its length, and then piece     *)
(* after piece of what it opened up to that length.                        *)
OpenSum ==
    /\ Reads("open") /\ Here(look.path)
    /\ GoesOn("length", [look.meta EXCEPT !.sum = <<>>])

SumStep(sum, length) == IF Len(sum) = length THEN "note" ELSE "sum"

ReadLength ==
    /\ Reads("length") /\ Here(look.path)
    /\ look' = [look EXCEPT !.step = SumStep(<<>>, Len(Now.data)), !.length = Len(Now.data)]
    /\ UNCHANGED <<at, todo>>

LookSource == IF look.source # NoFile THEN look.source ELSE Now.data

ReadSum ==
    LET i == Len(look.meta.sum)
        sum == Append(look.meta.sum, LookSource[i + 1])
    IN  /\ Reads("sum") /\ i < Len(LookSource)
        /\ GoesOn(SumStep(sum, look.length), [look.meta EXCEPT !.sum = sum])

(* The file is gone, or has become shorter. *)
ReadFails ==
    /\ \/ look.step \in {"time", "again", "size", "open", "length"} /\ ~Here(look.path)
       \/ look.step = "sum" /\ Len(look.meta.sum) >= Len(LookSource)
    /\ Throws

----------------------------------------------------------------------------
(* update_handler: a change goes to the queue, unless the client stops or  *)
(* the file to upload is gone.                                             *)
Puts(p, command, meta) ==
    /\ Mailbox!Put(p)
    /\ ops' = [i \in UNION {backlog'[q] : q \in Path} |->
                 IF i = next_id THEN [command |-> command, meta |-> meta]
                                ELSE ops[i]]

Reports(p, command, meta) ==
    IF open /\ (command = "remove" \/ Here(p))
    THEN Puts(p, command, meta) ELSE UNCHANGED queueVars

(* The metadata of a file is complete: initial_scan stores it,             *)
(* start_monitoring also reports it, if it is new or its checksum has      *)
(* changed.                                                                *)
NoteQuietly ==                      \* mutant: remembered, never reported
    files' = [files EXCEPT ![look.path] = look.meta] /\ UNCHANGED queueVars
Note ==
    LET p == look.path
        news == ~Known \/ files[p].sum # look.meta.sum
    IN  /\ files' = IF news THEN [files EXCEPT ![p] = look.meta] ELSE files
        /\ IF news /\ at = "visit" THEN Reports(p, "upload", look.meta)
                                   ELSE UNCHANGED queueVars

NoteFile ==
    /\ at \in {"scan", "visit"} /\ look.step = "note"
    /\ Note
    /\ Turns(look.path)
    /\ UNCHANGED <<userVars, view, restore, up, store, bounds>>

(* start_monitoring: a file that is remembered has gone. *)
EraseFile(p) ==
    /\ at = "erase" /\ p \in todo
    /\ IF Here(p) THEN UNCHANGED <<files, queueVars>>
       ELSE /\ files' = [files EXCEPT ![p] = NoFile]
            /\ Reports(p, "remove", Blank)
    /\ Turns(p)
    /\ UNCHANGED <<userVars, view, restore, up, store, bounds>>

(* file_system_compare, both loops: the server has a file the client has   *)
(* not, has another one, or has none.                                      *)
Differs(p) == files[p].time # view[p].time /\ files[p].sum # view[p].sum

CompareFile(p) ==
    /\ at = "compare" /\ p \in todo
    /\ IF files[p] = NoFile
       THEN IF view[p] # NoFile THEN Reports(p, "remove", Blank)
                                ELSE UNCHANGED queueVars
       ELSE IF view[p] = NoFile \/ Differs(p) THEN Reports(p, "upload", files[p])
                                              ELSE UNCHANGED queueVars
    /\ Turns(p)
    /\ UNCHANGED <<userVars, files, view, restore, up, store, bounds>>

WatcherStep ==
    \/ Probe \/ NextLoop
    \/ \E t \in {clock, clock + 1} : RestoreSegment(t)
    \/ RestoreChecks \/ RestoreThrows
    \/ ReadTime \/ ReadTimeAgain \/ ReadSize \/ OpenSum \/ ReadLength \/ ReadSum
    \/ ReadFails \/ NoteFile
    \/ \E p \in Path : RestoreStarts(p) \/ LooksAt(p) \/ EraseFile(p) \/ CompareFile(p)

----------------------------------------------------------------------------
(* sender_loop.  The queue gives a path to one sender at a time, so that   *)
(* senders are named by their paths.                                       *)

Op(p) == ops[CHOOSE i \in sending[p] : TRUE]

(* A newer operation on the path has set the abort flag. *)
Superseded(p) == \E i \in sending[p], j \in backlog[p] : i < j

Sender(p, where) == up' = [up EXCEPT ![p].at = where]

Takes(p) ==
    /\ Mailbox!Take(p)
    /\ \E i \in sending'[p] :
         Sender(p, IF ops[i].command = "upload" THEN "open" ELSE "remove")
    /\ UNCHANGED <<userVars, watcherVars, ops, store, bounds>>

(* The sender is free for another operation. *)
Freed(p) == [up EXCEPT ![p] = Idle]

(* remove_file_operation and free_file_operation. *)
Completes(p) ==
    /\ Mailbox!Done(p)
    /\ ops' = [i \in DOMAIN ops \ sending[p] |-> ops[i]]
    /\ up' = Freed(p)

GivesBack(p) ==
    /\ Mailbox!Retry(p)
    /\ up' = Freed(p)
    /\ ops' = ops

(* upload_file opens the file and reads its size and time; unless they are *)
(* those of the operation the file is skipped.                             *)
AsRecorded(p) ==
    /\ Here(p)
    /\ Len(disk[p].data) = Op(p).meta.size /\ disk[p].time = Op(p).meta.time

UploadOpens(p) ==
    /\ up[p].at = "open"
    /\ IF AsRecorded(p)
       THEN /\ up' = [up EXCEPT ![p].at = "read", ![p].meta = MetaOf(disk[p])]
            /\ UNCHANGED queueVars
       ELSE Completes(p)
    /\ UNCHANGED <<userVars, watcherVars, store, bounds>>

(* The file as the sender reads it. *)
Source(p) ==
    IF up[p].source # NoFile THEN up[p].source ELSE disk[p].data
LastSegment(p, read) == Len(read) = up[p].meta.size

(* The checksum of what was read is the one the watcher computed. *)
CheckedNever(p, read) == TRUE       \* mutant: it is not compared
Checked(p, read) == read = Op(p).meta.sum

(* The next piece of segment up.seg; of an empty file nothing is read.     *)
(* When the segment is complete it is sent: the last one if the checksum   *)
(* is right, any other unless the client is to stop.                       *)
UploadReads(p) ==
    LET i == Len(up[p].read)
        nothing == up[p].meta.size = 0
        read == IF nothing THEN <<>> ELSE Append(up[p].read, Source(p)[i + 1])
        data == IF nothing THEN <<>> ELSE Append(up[p].data, Source(p)[i + 1])
        last == LastSegment(p, read)
    IN  /\ up[p].at = "read"
        /\ nothing \/ (~Superseded(p) /\ i < Len(Source(p)))
        /\ up' = [up EXCEPT ![p].read = read, ![p].data = data,
                            ![p].at = IF ~last /\ Len(data) < SegmentSize THEN "read"
                                      ELSE IF IF last THEN Checked(p, read) ELSE open
                                      THEN "send" ELSE "abort"]
        /\ UNCHANGED <<userVars, watcherVars, queueVars, store, bounds>>

(* A newer operation waits (the abort flag), or the file has become        *)
(* shorter, which is another exception.                                    *)
UploadStops(p) ==
    /\ up[p].at = "read" /\ up[p].meta.size # 0
    /\ \/ Superseded(p) /\ Sender(p, "abort") /\ UNCHANGED queueVars
       \/ ~Superseded(p) /\ Len(up[p].read) >= Len(Source(p)) /\ GivesBack(p)
    /\ UNCHANGED <<userVars, watcherVars, store, bounds>>

----------------------------------------------------------------------------
(* The server, as FileStore has it.                                        *)

(* write_file: the segment that may follow, or the first. *)
Accepted(p) == up[p].seg = 0 \/ (store[p] # NoFile /\ up[p].seg = store[p].last + 1)

(* The first segment replaces the file, another is appended; the last one  *)
(* brings the metadata.                                                    *)
Stored(p) ==
    LET first == up[p].seg = 0
    IN  [data |-> IF first THEN up[p].data ELSE store[p].data \o up[p].data,
         last |-> up[p].seg,
         meta |-> IF LastSegment(p, up[p].read) /\ up[p].meta.size # 0
                  THEN [up[p].meta EXCEPT !.sum = up[p].read]
                  ELSE IF first THEN Blank ELSE store[p].meta]

(* The segment is stored: the next one is read, or the operation is done.  *)
(* The server refuses what does not follow, and the last segment if the    *)
(* whole has another checksum; a sender gives it no reason to.             *)
UploadSends(p) ==
    /\ up[p].at = "send" /\ Accepted(p)
    /\ LastSegment(p, up[p].read) => Stored(p).data = up[p].read
    /\ store' = [store EXCEPT ![p] = Stored(p)]
    /\ IF LastSegment(p, up[p].read) THEN Completes(p)
       ELSE /\ up' = [up EXCEPT ![p].at = "read", ![p].seg = @ + 1, ![p].data = <<>>]
            /\ UNCHANGED queueVars
    /\ UNCHANGED <<userVars, watcherVars, bounds>>

(* remove_file for REMOVE, and for the ABORT of an upload that threw an    *)
(* RBException: either way the operation is done.                          *)
Gone(p) == [store EXCEPT ![p] = NoFile]

RemoveSends(p) ==
    /\ up[p].at \in {"remove", "abort"}
    /\ store' = Gone(p)
    /\ Completes(p)
    /\ UNCHANGED <<userVars, watcherVars, bounds>>

(* A request gets an error or no answer, whether the server executed it or *)
(* not.  For an upload that is an RBException, and leads to the ABORT; if  *)
(* there is no connection to begin with, and for a REMOVE or an ABORT, the *)
(* operation is given back.                                                *)
RequestFails(p) ==
    /\ failures < MaxFailures /\ failures' = failures + 1
    /\ \/ /\ up[p].at = "send"
          /\ store' \in {store, [store EXCEPT ![p] = Stored(p)]}
          /\ Sender(p, "abort") /\ UNCHANGED queueVars
       \/ up[p].at = "send" /\ store' = store /\ GivesBack(p)
       \/ /\ up[p].at \in {"remove", "abort"}
          /\ store' \in {store, Gone(p)}
          /\ GivesBack(p)
    /\ UNCHANGED <<userVars, watcherVars, edits, runs>>

SenderStep(p) ==
    \/ Takes(p) \/ UploadOpens(p) \/ UploadReads(p) \/ UploadStops(p)
    \/ UploadSends(p) \/ RemoveSends(p)

----------------------------------------------------------------------------
(* The client is told to stop: nothing is put or taken any more, a long    *)
(* upload is aborted.                                                      *)
Stop ==
    /\ Mailbox!Close
    /\ UNCHANGED <<userVars, watcherVars, ops, up, store, bounds>>

(* It ends, orderly or not, and is started again: what it knew and what it *)
(* had yet to send is lost.  A restore writes files from then on, and      *)
(* file_system_compare takes files of one time for the same.               *)
StartsAgain ==
    /\ runs < MaxRuns /\ runs' = runs + 1
    /\ files' = [p \in Path |-> NoFile] /\ view' = [p \in Path |-> NoFile]
    /\ restore' \in BOOLEAN
    /\ Enters("probe", {})
    /\ backlog' = [p \in Path |-> {}] /\ sending' = [p \in Path |-> {}]
    /\ next_id' = 0 /\ open' = TRUE
    /\ ops' = [i \in {} |-> 0]
    /\ up' = [p \in Path |-> Idle]
    /\ clock' = IF CarefulUser THEN clock + 1 ELSE clock
    /\ UNCHANGED <<disk, past, store, edits, failures>>

Next ==
    \/ /\ at \notin Ended
       /\ \/ WatcherStep \/ WatcherRequestFails \/ Stop
          \/ \E p \in Path : SenderStep(p) \/ RequestFails(p)
    \/ UserEdits
    \/ StartsAgain

Spec == Init /\ [][Next]_vars

(* The watcher and the senders are scheduled, and requests that do not     *)
(* fail are answered.  Nothing is assumed about the user.                  *)
FairSpec ==
    /\ Spec
    /\ WF_vars(at \notin Ended /\ WatcherStep)
    /\ \A p \in Path : WF_vars(at \notin Ended /\ SenderStep(p))

----------------------------------------------------------------------------
(* Properties.                                                             *)

Meta == [time : 0 .. clock, size : Nat, sum : Seq(Piece)]
Steps == {"none", "fetch", "time", "again", "size", "open", "length", "sum", "note"}
Loops == {"probe", "restore", "scan", "compare", "sleep", "erase", "visit"} \cup Ended

(* Types, and: every operation in the queue has its data, an operation     *)
(* being sent has its sender.                                              *)
TypeOK ==
    /\ \A p \in Path :
         /\ disk[p] = NoFile \/ disk[p] \in [data : Seq(Piece), time : 1 .. clock]
         /\ files[p] = NoFile \/ files[p] \in Meta
         /\ view[p] = NoFile \/ view[p] \in Meta
         /\ store[p] = NoFile \/ store[p] \in
              [data : Seq(Piece), last : Nat, meta : Meta]
         /\ up[p].at \in {"idle", "open", "read", "send", "abort", "remove"}
         /\ (up[p].at = "idle") = (sending[p] = {})
         /\ up[p].at \in {"read", "send"} => Len(up[p].read) <= up[p].meta.size
         /\ Len(up[p].data) <= SegmentSize
    /\ restore \in BOOLEAN /\ open \in BOOLEAN
    /\ at \in Loops /\ todo \subseteq Path
    /\ look.path \in Path /\ look.step \in Steps /\ look.meta \in Meta /\ look.length \in Nat
    /\ DOMAIN ops = UNION {backlog[p] : p \in Path}
    /\ \A i \in DOMAIN ops :
         ops[i].command \in {"upload", "remove"} /\ ops[i].meta \in Meta

(* All files there were at p in second t had the same contents. *)
OneFileAt(p, t) ==
    \A x, y \in past : x[1] = p /\ y[1] = p /\ x[3] = t /\ y[3] = t => x[2] = y[2]

(* Each piece of data was in its place in a file at p no older than t. *)
Placed(p, t, data) ==
    \A i \in DOMAIN data : \E x \in past :
        x[1] = p /\ t <= x[3] /\ i \in DOMAIN x[2] /\ x[2][i] = data[i]

(* What the server reports of a complete file, its checksum and its time,  *)
(* was once true of the client's file, if that was not written twice in    *)
(* this second: pieces that watcher and sender read at different moments   *)
(* never add up to a file that never was.  If it was, both may read the    *)
(* same mixture, but of nothing older than the time reported.              *)
StoredWasOnDisk ==
    \A p \in Path :
        store[p] # NoFile /\ store[p].meta # Blank =>
            /\ store[p].data = store[p].meta.sum
            /\ OneFileAt(p, store[p].meta.time)
                 => <<p, store[p].meta.sum, store[p].meta.time>> \in past
            /\ Placed(p, store[p].meta.time, store[p].data)

(* The watcher monitors and has nothing to say on p. *)
Watched(p) ==
    /\ at \in {"sleep", "erase", "visit"} /\ open
    /\ ~(look.step # "none" /\ look.path = p)

(* When the watcher remembers a file as it is, or no file where there is   *)
(* none, and the queue has no operation on it, the server has it as it is: *)
(* nobody will send it again.  That is what "completed correctly" means    *)
(* for an operation that leaves the queue.                                 *)
RecordedIsStored ==
    \A p \in Path :
        Watched(p) /\ backlog[p] = {} /\ files[p] = MetaOf(disk[p])
            => DataOf(store[p]) = DataOf(disk[p])

(* A restore brings back every file that the server has whole, as the      *)
(* server has it.  Nothing ends the client before it monitors but the      *)
(* order to stop, a request without an answer, and, in a restore, a file   *)
(* whose upload never ended.                                               *)
RestoresComplete ==
    /\ at = "restore" => \A p \in Path \ todo :
         view[p] # NoFile => Here(p) /\ disk[p].data = store[p].data
    /\ at \in Ended \ {"stopped", "lost"} =>
         /\ at = "mismatch"
         /\ \E p \in Path : store[p] # NoFile /\ store[p].meta.sum # store[p].data

(* The server catches up with the client's files once the user rests, if   *)
(* the client is left running.                                             *)
InStep == \A p \in Path : DataOf(store[p]) = DataOf(disk[p])
CatchesUp == <>[](at \in Ended \/ ~open \/ InStep)
=============================================================================
