------------------------------ MODULE Segments ------------------------------
(***************************************************************************)
(* How a file is cut into segments, put together and cut again: the loops  *)
(* of upload_file, write_file, read_file_segment, get_server_files and     *)
(* calculate_checksum, with the arithmetic they do on sizes, positions and *)
(* segment numbers, some of it in an int.                                  *)
(*                                                                         *)
(* One file of one user.  One client uploads it; another one of the same   *)
(* account may log in and restore it, which shuts the first one out but    *)
(* for the request the server is executing already (Sessions).             *)
(*                                                                         *)
(* A file's contents are named by their size: the bytes of the version of  *)
(* size n are <<n, 0>> .. <<n, n - 1>>.  A checksum is the sequence of     *)
(* bytes it was computed over.                                             *)
(***************************************************************************)
EXTENDS Integers, Sequences

CONSTANTS
    SegmentSize,    \* RB_MAX_SEGMENT_SIZE
    ChunkSize,      \* of upload_file's reads
    SumSize,        \* of calculate_checksum's reads
    IntWidth,       \* bits of an int
    Sizes,          \* sizes of the file's versions
    NoFile, NoRow,
    NoSize,         \* column size is still empty
    MaxUploads      \* bound: uploads begun

(* The first number that does not fit an int. *)
Half == 2 ^ (IntWidth - 1)

(* Every number of segments fits an int. *)
ASSUME SegmentsAssumption ==
    /\ {SegmentSize, ChunkSize, SumSize, IntWidth} \subseteq Nat \ {0}
    /\ Sizes \subseteq Nat
    /\ \A n \in Sizes : n \div SegmentSize < Half - 1
    /\ NoFile \notin Seq(Sizes \X Nat) /\ NoSize \notin Nat
    /\ NoRow \notin [last : Nat, size : Nat \cup {NoSize}]
    /\ MaxUploads \in Nat

VARIABLES
    up,         \* the upload: [at, size, seg, data, read]
    stored,     \* the server's file
    row,        \* and its row in table fs: [last, size]
    down,       \* the restore: [at, size, seg, held, whole]
    restored,   \* the file it writes
    uploads,
    disturbed   \* history: the server's copy changed during the restore

vars == <<up, stored, row, down, restored, uploads, disturbed>>

Bytes(n) == [k \in 1 .. n |-> <<n, k - 1>>]

Lesser(a, b) == IF a <= b THEN a ELSE b

(* Conversion to int. *)
ToInt(n) ==
    LET m == n % (2 * Half)
    IN  IF m < Half THEN m ELSE m - 2 * Half
Fits(n) == n < Half

----------------------------------------------------------------------------
(* What both programs compute.                                             *)

count_segments(n) ==
    ToInt(n \div SegmentSize) + (IF n % SegmentSize = 0 THEN 0 ELSE 1)

(* Both loops of the client run at least once. *)
NumSegments(n) == IF count_segments(n) = 0 THEN 1 ELSE count_segments(n)
IsLast(n, seg) == seg = NumSegments(n) - 1

(* upload_file: the length of a segment. *)
SegmentLen(n, seg) ==
    IF ~IsLast(n, seg) THEN SegmentSize
    ELSE IF n = 0 THEN 0
    ELSE IF n % SegmentSize # 0 THEN n % SegmentSize ELSE SegmentSize

(* calculate_checksum reads the file chunk by chunk. *)
calculate_checksum(f) ==
    LET Read[tot \in 0 .. Len(f)] ==
            IF tot = Len(f) THEN <<>>
            ELSE LET n == Lesser(SumSize, Len(f) - tot)
                 IN  SubSeq(f, tot + 1, tot + n) \o Read[tot + n]
    IN  Read[0]

----------------------------------------------------------------------------
Init ==
    /\ up = [at |-> "idle", size |-> 0, seg |-> 0, data |-> <<>>, read |-> <<>>]
    /\ stored = NoFile /\ row = NoRow
    /\ down = [at |-> "off", size |-> 0, seg |-> 0, held |-> NoFile,
               whole |-> FALSE]
    /\ restored = NoFile
    /\ uploads = 0
    /\ disturbed = FALSE

Restoring == down.at \in {"ask", "read"}

(* Another client has logged in since the upload's client did. *)
ShutOut == down.at # "off"

----------------------------------------------------------------------------
(* The upload.                                                             *)

(* The client has logged in and starts on the version of size n; a client  *)
(* that was restoring is shut out.                                         *)
UploadBegins(n) ==
    /\ up.at \in {"idle", "done"} /\ uploads < MaxUploads
    /\ up' = [at |-> "read", size |-> n, seg |-> 0, data |-> <<>>, read |-> <<>>]
    /\ uploads' = uploads + 1
    /\ down' = [down EXCEPT !.at = "off"]
    /\ UNCHANGED <<stored, row, restored, disturbed>>

SegmentRead == Len(up.data) = SegmentLen(up.size, up.seg)

ReadsChunk ==
    LET tot == Len(up.read)
        n == Lesser(ChunkSize, SegmentLen(up.size, up.seg) - Len(up.data))
        chunk == SubSeq(Bytes(up.size), tot + 1, tot + n)
    IN  /\ up.at = "read" /\ ~SegmentRead
        /\ up' = [up EXCEPT !.data = @ \o chunk, !.read = @ \o chunk]
        /\ UNCHANGED <<stored, row, down, restored, uploads, disturbed>>

(* The checksum of the last segment's request must be the watcher's. *)
SumRight == IsLast(up.size, up.seg) => up.read = Bytes(up.size)

(* The server takes the request of a client that is not shut out; the      *)
(* other gets "unauthenticated", and so does the ABORT that follows it.    *)
SendsSegment ==
    /\ up.at = "read" /\ SegmentRead /\ SumRight
    /\ up' = [up EXCEPT !.at = IF ShutOut THEN "idle" ELSE "sent"]
    /\ UNCHANGED <<stored, row, down, restored, uploads, disturbed>>

(* The file has shrunk and fl.read fails: the operation is given back and  *)
(* the server keeps what it has.                                           *)
ReadFails ==
    /\ up.at = "read" /\ ~SegmentRead
    /\ up' = [up EXCEPT !.at = "idle"]
    /\ UNCHANGED <<stored, row, down, restored, uploads, disturbed>>

(* A newer operation while it reads, a stop before a segment that is not   *)
(* the last, another checksum: ABORT.                                      *)
Aborts ==
    /\ up.at = "read"
    /\ ~SegmentRead \/ ~IsLast(up.size, up.seg) \/ ~SumRight
    /\ up' = [up EXCEPT !.at = IF ShutOut THEN "idle" ELSE "abort"]
    /\ UNCHANGED <<stored, row, down, restored, uploads, disturbed>>

Discarded ==
    /\ stored' = NoFile /\ row' = NoRow
    /\ up' = [up EXCEPT !.at = "idle"]

RemovesFile ==
    /\ up.at = "abort"
    /\ Discarded
    /\ disturbed' = (disturbed \/ Restoring)
    /\ UNCHANGED <<down, restored, uploads>>

(* write_file: the row may be gone or never have been there. *)
LastSegment == IF row = NoRow THEN 0 ELSE row.last

FinalFromZero(seg, n) == count_segments(n) = seg     \* mutant: counted from zero
Final(seg, n) == count_segments(n) = seg + 1

Appended == IF up.seg = 0 THEN up.data
            ELSE (IF stored = NoFile THEN <<>> ELSE stored) \o up.data
Counted == IF up.seg = 0 THEN [last |-> 0, size |-> NoSize]
           ELSE IF row = NoRow THEN NoRow ELSE [row EXCEPT !.last = up.seg]

Continues ==
    IF IsLast(up.size, up.seg) THEN [up EXCEPT !.at = "done"]
    ELSE [up EXCEPT !.at = "read", !.seg = @ + 1, !.data = <<>>]

(* "wrong_segment", and "invalid_checksum" of the last one, end in ABORT. *)
StoresSegment ==
    LET accepted == up.seg = 0 \/ up.seg = LastSegment + 1
        final == Final(up.seg, up.size)
        intact == calculate_checksum(Appended) = up.read
    IN  /\ up.at = "sent"
        /\ IF accepted /\ (final => intact)
           THEN /\ stored' = Appended
                /\ row' = IF final /\ Counted # NoRow
                          THEN [Counted EXCEPT !.size = up.size] ELSE Counted
                /\ up' = Continues
           ELSE Discarded
        /\ disturbed' = (disturbed \/ Restoring)
        /\ UNCHANGED <<down, restored, uploads>>

----------------------------------------------------------------------------
(* The restore.                                                            *)

(* AUTH and PROBE: get_files reports an empty column as size 0, and as     *)
(* checksum 0, which is that of an empty file.                             *)
Reported == IF row.size = NoSize THEN 0 ELSE row.size

RestoreBegins ==
    /\ ~Restoring /\ row # NoRow
    /\ down' = [at |-> "ask", size |-> Reported, seg |-> 0, held |-> NoFile,
                whole |-> stored = Bytes(Reported)]
    /\ disturbed' = FALSE
    /\ UNCHANGED <<up, stored, row, restored, uploads>>

Position == down.seg * SegmentSize

(* read_file_segment opens the file and tests its length, kept in an int. *)
TooFarAtEnd ==                      \* mutant: an empty file has no segment
    Position >= ToInt(Len(stored))
TooFar == Position > ToInt(Len(stored))

FindsSegment ==
    /\ down.at = "ask"
    /\ down' = IF stored = NoFile \/ TooFar THEN [down EXCEPT !.at = "refused"]
               ELSE [down EXCEPT !.at = "read", !.held = stored]
    /\ UNCHANGED <<up, stored, row, restored, uploads, disturbed>>

(* A file that is removed meanwhile is read on, a file that is written to  *)
(* is read as it is by then.                                               *)
SegmentAt(f) ==
    SubSeq(f, Position + 1, Lesser(Position + SegmentSize, Len(f)))
Answer == SegmentAt(IF stored = NoFile THEN down.held ELSE stored)

(* The checksum after the last segment against the reported one. *)
ComparedNever == TRUE               \* mutant: no comparison
Compared == calculate_checksum(restored') = Bytes(down.size)

ReadsSegment ==
    /\ down.at = "read"
    /\ restored' = IF down.seg = 0 THEN Answer ELSE restored \o Answer
    /\ down' = IF ~IsLast(down.size, down.seg)
               THEN [down EXCEPT !.at = "ask", !.seg = @ + 1]
               ELSE [down EXCEPT !.at = IF Compared THEN "done" ELSE "mismatch"]
    /\ UNCHANGED <<up, stored, row, uploads, disturbed>>

----------------------------------------------------------------------------
Next ==
    \/ \E n \in Sizes : UploadBegins(n)
    \/ ReadsChunk \/ ReadFails \/ SendsSegment \/ Aborts
    \/ StoresSegment \/ RemovesFile
    \/ RestoreBegins \/ FindsSegment \/ ReadsSegment

Spec == Init /\ [][Next]_vars

----------------------------------------------------------------------------
(* Properties.                                                             *)

Prefix(f, g) == Len(f) <= Len(g) /\ f = SubSeq(g, 1, Len(f))

(* The segments of an upload add up: after each the server has that much   *)
(* of the file and nothing else, and takes it for complete after the       *)
(* client's last segment and no earlier (of an empty file, never).         *)
SegmentsAddUp ==
    /\ up.at = "read" /\ up.seg > 0 =>
         /\ Len(stored) = up.seg * SegmentSize /\ Prefix(stored, Bytes(up.size))
         /\ row = [last |-> up.seg - 1, size |-> NoSize]
    /\ up.at = "done" =>
         /\ stored = Bytes(up.size)
         /\ row = [last |-> up.seg,
                   size |-> IF up.size = 0 THEN NoSize ELSE up.size]

(* A restore that says it has succeeded has brought back the version the   *)
(* server had reported, byte for byte, whatever was written meanwhile.     *)
RestoredIsGenuine == down.at = "done" => restored = Bytes(down.size)

(* A restore of a file the server has whole, and that nobody writes to     *)
(* meanwhile, fails only if the length does not fit an int: every other    *)
(* file comes back, an empty one included.                                 *)
RestoresWhatFits ==
    down.at \in {"refused", "mismatch"} /\ down.whole
        => disturbed \/ ~Fits(down.size)
=============================================================================
