--------------------------- MODULE SegmentsProofs ---------------------------
(***************************************************************************)
(* Proofs about Segments for every size of segments, chunks and files that *)
(* SegmentsAssumption allows: the arithmetic of the segments, what the     *)
(* loop of calculate_checksum reads, and the three properties of upload    *)
(* and restore.                                                            *)
(***************************************************************************)
EXTENDS Segments, FiniteSetTheorems, SequenceTheorems, TLAPS

----------------------------------------------------------------------------
(* The checksum.                                                           *)

(* Of some positions there is a furthest one: the sets of the positions    *)
(* that follow them are finite, so one of these sets is the smallest.      *)
LEMMA FurthestPosition ==
    ASSUME NEW L \in Nat, NEW P \in SUBSET (0 .. L), P # {}
    PROVE  \E k \in P : \A j \in P : j <= k
<1> DEFINE F == {k .. L : k \in P}
<1>1. IsFiniteSet(0 .. L)
  BY FS_Interval
<1>2. F \subseteq FiniteSubsetsOf(0 .. L)
  <2> SUFFICES ASSUME NEW k \in P PROVE k .. L \in FiniteSubsetsOf(0 .. L)
    OBVIOUS
  <2>1. k .. L \in SUBSET (0 .. L)
    OBVIOUS
  <2> QED
    BY <1>1, <2>1, FS_Subset DEF FiniteSubsetsOf
<1>3. F # {}
  OBVIOUS
<1>4. PICK T \in F : \A U \in F : <<U, T>> \notin StrictSubsetOrdering(0 .. L)
  <2> HIDE DEF F
  <2>1. IsWellFoundedOn(StrictSubsetOrdering(0 .. L), FiniteSubsetsOf(0 .. L))
    BY FS_StrictSubsetOrderingWellFounded
  <2> QED
    BY <1>2, <1>3, <2>1, WFMin
<1>5. PICK k \in P : T = k .. L
  OBVIOUS
<1>6. ASSUME NEW j \in P PROVE j <= k
  <2> SUFFICES ASSUME k < j PROVE FALSE
    OBVIOUS
  <2>1. j .. L \subseteq k .. L /\ k \notin j .. L /\ k \in k .. L
    OBVIOUS
  <2>2. j .. L \subseteq 0 .. L /\ k .. L \subseteq 0 .. L
    OBVIOUS
  <2>3. <<j .. L, k .. L>> \in StrictSubsetOrdering(0 .. L)
    BY <2>1, <2>2 DEF StrictSubsetOrdering
  <2> QED
    BY <1>4, <1>5, <2>3
<1> QED
  BY <1>6

(* calculate_checksum reads the whole file, each byte once and in order,   *)
(* whatever its buffer: two files have its checksum only if they are equal.*)
LEMMA ChecksumReadsAll ==
    ASSUME NEW S, NEW f \in Seq(S)
    PROVE  calculate_checksum(f) = f
<1> DEFINE L == Len(f)
           Step(tot) == Lesser(SumSize, L - tot)
           Loop(g) == g = [tot \in 0 .. L |->
                             IF tot = L THEN <<>>
                             ELSE SubSeq(f, tot + 1, tot + Step(tot))
                                    \o g[tot + Step(tot)]]
           Rest == [tot \in 0 .. L |-> SubSeq(f, tot + 1, L)]
<1>1. L \in Nat
  BY LenProperties
<1>2. ASSUME NEW tot \in 0 .. L, tot # L
      PROVE  /\ tot + Step(tot) \in tot + 1 .. L
             /\ SubSeq(f, tot + 1, tot + Step(tot))
                  \o SubSeq(f, tot + Step(tot) + 1, L) = SubSeq(f, tot + 1, L)
  <2>1. tot + Step(tot) \in tot + 1 .. L
    BY <1>1, <1>2, SegmentsAssumption DEF Lesser
  <2> DEFINE k == tot + Step(tot)
  <2>2. tot + 1 \in 1 .. L + 1 /\ k \in (tot + 1) - 1 .. L /\ L \in k .. L
    BY <1>1, <2>1
  <2> HIDE DEF Step, k
  <2> QED
    BY <2>1, <2>2, ConcatAdjacentSubSeq DEF k
<1>3. SubSeq(f, L + 1, L) = <<>>
  BY <1>1, SubSeqEmpty
<1>4. Loop(Rest)
  <2>1. ASSUME NEW tot \in 0 .. L
        PROVE  Rest[tot] = IF tot = L THEN <<>>
                           ELSE SubSeq(f, tot + 1, tot + Step(tot))
                                  \o Rest[tot + Step(tot)]
    <3>1. CASE tot = L
      BY <1>1, <1>3, <3>1
    <3>2. CASE tot # L
      <4>1. tot + Step(tot) \in 0 .. L
        BY <1>1, <1>2, <3>2
      <4> HIDE DEF Step, L
      <4> QED
        BY <1>2, <3>2, <4>1
    <3> QED
      BY <3>1, <3>2
  <2> QED
    BY <2>1
<1>5. PICK R : Loop(R) /\ calculate_checksum(f) = R[0]
  <2> DEFINE R0 == CHOOSE g : Loop(g)
  <2>1. calculate_checksum(f) = R0[0]
    BY DEF calculate_checksum
  <2>2. Loop(R0)
    <3> HIDE DEF Rest, Loop
    <3> QED
      BY <1>4
  <2> HIDE DEF R0, Loop
  <2> QED
    BY <2>1, <2>2
<1>6. \A tot \in 0 .. L : R[tot] = SubSeq(f, tot + 1, L)
  <2> DEFINE Bad == {tot \in 0 .. L : R[tot] # SubSeq(f, tot + 1, L)}
  <2> SUFFICES ASSUME Bad # {} PROVE FALSE
    OBVIOUS
  <2>1. PICK k \in Bad : \A j \in Bad : j <= k
    <3>1. Bad \in SUBSET (0 .. L)
      OBVIOUS
    <3> HIDE DEF Bad, L
    <3> QED
      BY <1>1, <3>1, FurthestPosition
  <2>2. k # L
    <3> SUFFICES ASSUME k = L PROVE FALSE
      OBVIOUS
    <3>1. R[L] = <<>>
      BY <1>1, <1>5
    <3> QED
      BY <1>3, <3>1
  <2>3. k + Step(k) \in k + 1 .. L
    BY <1>2, <2>2
  <2>4. R[k + Step(k)] = SubSeq(f, k + Step(k) + 1, L)
    <3>1. PICK j \in k + 1 .. L : j = k + Step(k)
      BY <2>3
    <3>2. j \in 0 .. L /\ ~(j <= k)
      BY <1>1, <3>1
    <3>3. R[j] = SubSeq(f, j + 1, L)
      BY <2>1, <3>2
    <3> HIDE DEF Step
    <3> QED
      BY <3>1, <3>3
  <2>5. R[k] = SubSeq(f, k + 1, k + Step(k)) \o R[k + Step(k)]
    BY <1>5, <2>2
  <2> QED
    BY <1>2, <2>2, <2>4, <2>5
<1>7. R[0] = SubSeq(f, 1, L)
  <2>1. 0 \in 0 .. L /\ 0 + 1 = 1
    BY <1>1
  <2> HIDE DEF L, Loop
  <2> QED
    BY <1>6, <2>1
<1>8. SubSeq(f, 1, L) = f
  BY SubSeqFull
<1> QED
  BY <1>5, <1>7, <1>8


----------------------------------------------------------------------------
(* The arithmetic.                                                         *)

(* What is uploaded or reported: a version's size, or 0 for a file whose   *)
(* row has no size yet.                                                    *)
Size == {n \in Sizes \cup {0} : Sizes # {}}

(* The number of segments of a file neither overflows nor leaves a byte    *)
(* out: the ones before the last are full and the last one holds the rest. *)
LEMMA SegmentsCover ==
    ASSUME NEW n \in Size
    PROVE  /\ n \in Nat /\ NumSegments(n) \in Nat \ {0}
           /\ (NumSegments(n) - 1) * SegmentSize <= n
           /\ n <= (NumSegments(n) - 1) * SegmentSize + SegmentSize
           /\ SegmentLen(n, NumSegments(n) - 1)
                = n - (NumSegments(n) - 1) * SegmentSize
           /\ count_segments(n) = IF n = 0 THEN 0 ELSE NumSegments(n)
<1> DEFINE q == n \div SegmentSize
           r == n % SegmentSize
<1>1. n \in Nat /\ SegmentSize \in Nat \ {0} /\ Half \in Int
  BY SegmentsAssumption DEF Size, Half
<1>2. /\ q \in Nat /\ r \in 0 .. SegmentSize - 1
      /\ n = SegmentSize * q + r
  BY <1>1
<1>3. q < Half - 1
  <2>1. CASE n \in Sizes
    BY <2>1, SegmentsAssumption
  <2>2. CASE n = 0
    <3>1. PICK k \in Sizes : k \in Nat /\ k \div SegmentSize < Half - 1
      BY SegmentsAssumption DEF Size
    <3>2. k \div SegmentSize \in Nat /\ q = 0
      BY <1>1, <2>2, <3>1
    <3> QED
      BY <1>1, <3>1, <3>2
  <2> QED
    BY <2>1, <2>2 DEF Size
<1> HIDE DEF q, r
<1>4. ToInt(q) = q
  <2>1. q % (2 * Half) = q
    BY <1>1, <1>2, <1>3
  <2> QED
    BY <1>1, <1>2, <1>3, <2>1 DEF ToInt
<1>5. count_segments(n) = q + (IF r = 0 THEN 0 ELSE 1)
  BY <1>4 DEF count_segments, q, r
<1>6. q = 0 /\ r = 0 <=> n = 0
  <2>1. q # 0 => SegmentSize * q >= q
    BY <1>1, <1>2
  <2> QED
    BY <1>1, <1>2, <2>1
<1>7. NumSegments(n) = IF r # 0 \/ n = 0 THEN q + 1 ELSE q
  BY <1>1, <1>2, <1>5, <1>6 DEF NumSegments
<1>8. SegmentLen(n, NumSegments(n) - 1)
        = IF n = 0 THEN 0 ELSE IF r # 0 THEN r ELSE SegmentSize
  BY DEF SegmentLen, IsLast, r
<1>9. CASE r # 0 \/ n = 0
  <2>1. NumSegments(n) - 1 = q /\ q * SegmentSize = SegmentSize * q
    BY <1>1, <1>2, <1>7, <1>9
  <2>2. SegmentLen(n, NumSegments(n) - 1) = r
    BY <1>6, <1>8, <1>9
  <2>3. /\ (NumSegments(n) - 1) * SegmentSize = n - r
        /\ NumSegments(n) = q + 1
    BY <1>1, <1>2, <1>7, <1>9, <2>1
  <2>4. count_segments(n) = IF n = 0 THEN 0 ELSE NumSegments(n)
    BY <1>1, <1>2, <1>5, <1>6, <1>9, <2>3
  <2>5. r \in Nat /\ r <= SegmentSize /\ q + 1 \in Nat \ {0}
    BY <1>1, <1>2
  <2> DEFINE x == (NumSegments(n) - 1) * SegmentSize
  <2>6. x = n - r
    BY <2>3
  <2> HIDE DEF x
  <2>7. x <= n /\ n <= x + SegmentSize /\ r = n - x
    BY <1>1, <2>5, <2>6
  <2> QED
    BY <1>1, <2>2, <2>3, <2>4, <2>5, <2>7 DEF x
<1>10. CASE r = 0 /\ n # 0
  <2>1. NumSegments(n) = q /\ q # 0
    BY <1>6, <1>7, <1>10
  <2>2. (q - 1) * SegmentSize = n - SegmentSize
    BY <1>1, <1>2, <1>10
  <2> QED
    BY <1>1, <1>2, <1>5, <1>8, <1>10, <2>1, <2>2
<1> QED
  BY <1>9, <1>10

(* Where a segment lies in its file. *)
LEMMA SegmentLies ==
    ASSUME NEW n \in Size, NEW seg \in 0 .. NumSegments(n) - 1
    PROVE  /\ seg \in Nat /\ seg * SegmentSize \in 0 .. n
           /\ SegmentLen(n, seg) \in Nat
           /\ seg * SegmentSize + SegmentLen(n, seg)
                = Lesser(seg * SegmentSize + SegmentSize, n)
           /\ IsLast(n, seg) => seg * SegmentSize + SegmentLen(n, seg) = n
           /\ ~IsLast(n, seg) =>
                /\ SegmentLen(n, seg) = SegmentSize
                /\ seg + 1 \in 0 .. NumSegments(n) - 1
                /\ (seg + 1) * SegmentSize = seg * SegmentSize + SegmentSize
<1>1. /\ n \in Nat /\ NumSegments(n) \in Nat \ {0}
      /\ SegmentSize \in Nat \ {0} /\ seg \in Nat
      /\ (NumSegments(n) - 1) * SegmentSize <= n
      /\ n <= (NumSegments(n) - 1) * SegmentSize + SegmentSize
      /\ SegmentLen(n, NumSegments(n) - 1)
           = n - (NumSegments(n) - 1) * SegmentSize
  BY SegmentsCover, SegmentsAssumption
<1>2. seg * SegmentSize \in Nat
  BY <1>1
<1>3. CASE IsLast(n, seg)
  <2>1. seg = NumSegments(n) - 1
    BY <1>3 DEF IsLast
  <2> QED
    BY <1>1, <1>2, <1>3, <2>1 DEF Lesser
<1>4. CASE ~IsLast(n, seg)
  <2>1. SegmentLen(n, seg) = SegmentSize /\ seg + 1 <= NumSegments(n) - 1
    <3>1. SegmentLen(n, seg) = SegmentSize
      BY <1>4 DEF SegmentLen
    <3>2. seg # NumSegments(n) - 1
      BY <1>4 DEF IsLast
    <3>3. seg \in 0 .. NumSegments(n) - 1 /\ NumSegments(n) \in Nat
      BY <1>1
    <3>4. seg + 1 <= NumSegments(n) - 1
      BY <3>2, <3>3
    <3> QED
      BY <3>1, <3>4
  <2>2. (seg + 1) * SegmentSize = seg * SegmentSize + SegmentSize
    BY <1>1
  <2>3. (seg + 1) * SegmentSize <= (NumSegments(n) - 1) * SegmentSize
    <3>1. \A a, b, c \in Nat : a <= b => a * c <= b * c
      OBVIOUS
    <3> QED
      BY <1>1, <2>1, <3>1
  <2>4. seg * SegmentSize + SegmentSize <= n
    <3> DEFINE x == seg * SegmentSize
               y == (NumSegments(n) - 1) * SegmentSize
    <3>1. x \in Nat /\ y \in Nat
      BY <1>1
    <3>2. x + SegmentSize <= y /\ y <= n
      BY <1>1, <2>2, <2>3
    <3> HIDE DEF x, y
    <3> QED
      BY <1>1, <3>1, <3>2 DEF x
  <2> QED
    BY <1>1, <1>2, <1>4, <2>1, <2>2, <2>4 DEF Lesser
<1> QED
  BY <1>3, <1>4

----------------------------------------------------------------------------
(* Pieces of a version.                                                    *)

Data == Seq(Sizes \X Nat)

(* The bytes of the version of size n between two positions. *)
Cut(n, a, b) == SubSeq(Bytes(n), a + 1, b)

(* What Bytes is. *)
LEMMA BytesIsData ==
    ASSUME NEW n \in Size
    PROVE  Bytes(n) \in Data /\ Len(Bytes(n)) = n /\ Cut(n, 0, n) = Bytes(n)
<1>1. n \in Nat /\ \A k \in 1 .. n : <<n, k - 1>> \in Sizes \X Nat
  BY SegmentsAssumption DEF Size
<1>2. Bytes(n) \in Data /\ Len(Bytes(n)) = n
  BY <1>1 DEF Bytes, Data
<1> QED
  BY <1>2, SubSeqFull DEF Cut, Data

(* What a cut is, and that two neighbours make one. *)
LEMMA CutIsData ==
    ASSUME NEW n \in Size, NEW a \in 0 .. n, NEW b \in a .. n
    PROVE  /\ Cut(n, a, b) \in Data /\ Len(Cut(n, a, b)) = b - a
           /\ (a = b => Cut(n, a, b) = <<>>)
<1>1. Bytes(n) \in Data /\ Len(Bytes(n)) = n /\ n \in Nat
  BY BytesIsData, SegmentsAssumption DEF Size
<1>2. \A i \in a + 1 .. b : Bytes(n)[i] \in Sizes \X Nat
  BY <1>1, ElementOfSeq DEF Data
<1>3. Cut(n, a, b) \in Data
      /\ Len(Cut(n, a, b)) = IF a + 1 <= b THEN b - (a + 1) + 1 ELSE 0
  BY <1>1, <1>2, SubSeqProperties DEF Cut, Data
<1>4. a = b => Cut(n, a, b) = <<>>
  BY <1>1, SubSeqEmpty DEF Cut
<1> QED
  BY <1>1, <1>3, <1>4

LEMMA CutsJoin ==
    ASSUME NEW n \in Size, NEW a \in 0 .. n, NEW b \in a .. n, NEW c \in b .. n
    PROVE  Cut(n, a, b) \o Cut(n, b, c) = Cut(n, a, c)
<1>1. Bytes(n) \in Data /\ Len(Bytes(n)) = n /\ n \in Nat
  BY BytesIsData, SegmentsAssumption DEF Size
<1>2. /\ a + 1 \in 1 .. Len(Bytes(n)) + 1
      /\ b \in (a + 1) - 1 .. Len(Bytes(n)) /\ c \in b .. Len(Bytes(n))
  BY <1>1
<1> QED
  BY <1>1, <1>2, ConcatAdjacentSubSeq DEF Cut, Data


----------------------------------------------------------------------------
(* The inductive invariant.                                                *)

File == Data \cup {NoFile}

TypeInv ==
    /\ up \in [at : {"idle", "read", "sent", "abort", "done"}, size : Nat,
               seg : Nat, data : Data, read : Data]
    /\ stored \in File
    /\ row \in [last : Nat, size : Sizes \cup {NoSize}] \cup {NoRow}
    /\ row # NoRow => Sizes # {}
    /\ down \in [at : {"off", "ask", "read", "refused", "mismatch", "done"},
                 size : Nat, seg : Nat, held : File, whole : BOOLEAN]
    /\ restored \in File
    /\ disturbed \in BOOLEAN

(* The first byte of the segment the client works on. *)
Start == up.seg * SegmentSize

(* What the client has read is the version up to where it is, and what the *)
(* server has are the segments before the current one.                     *)
UpInv ==
    up.at \in {"read", "sent"} =>
        /\ up.size \in Sizes
        /\ up.seg \in 0 .. NumSegments(up.size) - 1
        /\ Len(up.data) <= SegmentLen(up.size, up.seg)
        /\ up.at = "sent" => SegmentRead
        /\ up.data = Cut(up.size, Start, Start + Len(up.data))
        /\ up.read = Cut(up.size, 0, Start + Len(up.data))
        /\ up.seg > 0 => /\ stored = Cut(up.size, 0, Start)
                         /\ row = [last |-> up.seg - 1, size |-> NoSize]

DoneInv ==
    up.at = "done" =>
        /\ stored = Bytes(up.size)
        /\ row = [last |-> up.seg,
                  size |-> IF up.size = 0 THEN NoSize ELSE up.size]

(* While nobody has written to a file that was whole, the restore has      *)
(* brought back the segments before the one it asks for.                   *)
DownInv ==
    Restoring =>
        /\ down.size \in Size
        /\ down.seg \in 0 .. NumSegments(down.size) - 1
        /\ down.seg > 0 => restored \in Data
        /\ down.at = "read" => down.held \in Data
        /\ down.whole /\ ~disturbed =>
             /\ stored = Bytes(down.size)
             /\ down.seg > 0 => restored = Cut(down.size, 0, Position)

IInv ==
    /\ TypeInv
    /\ UpInv
    /\ DoneInv
    /\ DownInv
    /\ RestoredIsGenuine
    /\ RestoresWhatFits

(* Nothing is stored and nobody restores at first. *)
LEMMA InvInit == Init => IInv
<1>1. <<>> \in Data
  BY DEF Data
<1> SUFFICES ASSUME Init PROVE IInv
  OBVIOUS
<1>2. TypeInv
  BY <1>1 DEF Init, TypeInv, File
<1>3. up.at = "idle" /\ down.at = "off"
  BY DEF Init
<1> QED
  BY <1>2, <1>3
     DEF IInv, UpInv, DoneInv, DownInv, RestoredIsGenuine, RestoresWhatFits,
         Restoring

(* A step of the upload that writes nothing leaves the restore alone. *)
LEMMA DownUntouched ==
    ASSUME IInv, UNCHANGED <<stored, down, restored, disturbed>>
    PROVE  DownInv' /\ RestoredIsGenuine' /\ RestoresWhatFits'
  BY DEF IInv, DownInv, RestoredIsGenuine, RestoresWhatFits, Restoring,
         Position

(* A write is remembered against a restore under way; one that is over is  *)
(* not judged again.                                                       *)
LEMMA DownDisturbed ==
    ASSUME IInv, UNCHANGED <<down, restored>>,
           disturbed' = (disturbed \/ Restoring)
    PROVE  DownInv' /\ RestoredIsGenuine' /\ RestoresWhatFits'
  BY DEF IInv, TypeInv, DownInv, RestoredIsGenuine, RestoresWhatFits,
         Restoring, Position

(* A step of the restore leaves the upload alone. *)
LEMMA UpUntouched ==
    ASSUME IInv, UNCHANGED <<up, stored, row>>
    PROVE  UpInv' /\ DoneInv'
  BY DEF IInv, UpInv, DoneInv, SegmentRead, Start

(* The position of the upload, as the source sees it. *)
LEMMA UpLies ==
    ASSUME IInv, up.at \in {"read", "sent"}
    PROVE  /\ up.size \in Size /\ up.size \in Nat /\ up.seg \in Nat
           /\ up.seg \in 0 .. NumSegments(up.size) - 1
           /\ up.data \in Data /\ Len(up.data) \in Nat
           /\ SegmentLen(up.size, up.seg) \in Nat
           /\ Start \in 0 .. up.size
           /\ Start + SegmentLen(up.size, up.seg) \in 0 .. up.size
           /\ Start + Len(up.data) \in Start .. up.size
           /\ Len(up.read) = Start + Len(up.data)
<1>1. /\ up.size \in Size /\ up.size \in Nat
      /\ up.seg \in 0 .. NumSegments(up.size) - 1
      /\ up.data \in Data
      /\ Len(up.data) <= SegmentLen(up.size, up.seg)
      /\ up.read = Cut(up.size, 0, Start + Len(up.data))
  BY SegmentsAssumption DEF IInv, TypeInv, UpInv, Size
<1>2. Len(up.data) \in Nat
  BY <1>1, LenProperties DEF Data
<1>3. /\ up.seg \in Nat /\ Start \in 0 .. up.size
      /\ SegmentLen(up.size, up.seg) \in Nat
      /\ Start + SegmentLen(up.size, up.seg)
           = Lesser(Start + SegmentSize, up.size)
  BY <1>1, SegmentLies DEF Start
<1>4. SegmentSize \in Nat
  BY SegmentsAssumption
<1>5. Start + SegmentLen(up.size, up.seg) <= up.size
  BY <1>1, <1>3, <1>4 DEF Lesser
<1>6. Start + Len(up.data) \in Start .. up.size
  BY <1>1, <1>2, <1>3, <1>5
<1>7. Len(up.read) = Start + Len(up.data)
  <2>1. 0 \in 0 .. up.size /\ Start + Len(up.data) \in 0 .. up.size
    BY <1>1, <1>3, <1>6
  <2> DEFINE b == Start + Len(up.data)
  <2>2. Len(Cut(up.size, 0, b)) = b - 0
    <3>1. b \in 0 .. up.size
      BY <2>1
    <3> HIDE DEF b
    <3> QED
      BY <1>1, <2>1, <3>1, CutIsData
  <2> QED
    BY <1>1, <2>1, <2>2
<1> QED
  BY <1>1, <1>2, <1>3, <1>5, <1>6, <1>7

(* A new upload has read nothing and found out nothing. *)
LEMMA InvUploadBegins ==
    ASSUME IInv, NEW n \in Sizes, UploadBegins(n)
    PROVE  IInv'
<1>1. n \in Nat /\ n \in Size /\ <<>> \in Data /\ Len(<<>>) = 0
  BY SegmentsAssumption DEF Size, Data
<1>2. NumSegments(n) \in Nat \ {0} /\ SegmentLen(n, 0) \in Nat
  <2>1. NumSegments(n) \in Nat \ {0}
    BY <1>1, SegmentsCover
  <2>2. 0 \in 0 .. NumSegments(n) - 1
    BY <2>1
  <2> QED
    BY <1>1, <2>1, <2>2, SegmentLies
<1>3. Cut(n, 0, 0) = <<>>
  BY <1>1, CutIsData
<1>4. /\ up' = [at |-> "read", size |-> n, seg |-> 0, data |-> <<>>,
                read |-> <<>>]
      /\ down' = [down EXCEPT !.at = "off"]
      /\ UNCHANGED <<stored, row, restored, disturbed>>
  BY DEF UploadBegins
<1>5. TypeInv'
  BY <1>1, <1>4 DEF IInv, TypeInv
<1>6. Start' = 0 /\ 0 + 0 = 0
  BY <1>4, SegmentsAssumption DEF Start
<1>7. UpInv' /\ DoneInv'
  BY <1>1, <1>2, <1>3, <1>4, <1>6 DEF UpInv, DoneInv
<1>8. DownInv' /\ RestoredIsGenuine' /\ RestoresWhatFits'
  BY <1>4 DEF IInv, TypeInv, DownInv, RestoredIsGenuine, RestoresWhatFits,
              Restoring
<1> QED
  BY <1>5, <1>7, <1>8 DEF IInv

(* A chunk continues what was read. *)
LEMMA InvReadsChunk ==
    ASSUME IInv, ReadsChunk
    PROVE  IInv'
<1>1. up.at = "read" /\ ~SegmentRead
  BY DEF ReadsChunk
<1> DEFINE d == Len(up.data)
           l == SegmentLen(up.size, up.seg)
           k == Lesser(ChunkSize, l - d)
           chunk == Cut(up.size, Start + d, Start + d + k)
<1>2. /\ up.size \in Size /\ up.size \in Nat /\ up.data \in Data
      /\ d \in Nat /\ l \in Nat /\ d <= l /\ d # l
      /\ Start \in 0 .. up.size /\ Start + l \in 0 .. up.size
      /\ Start + d \in Start .. up.size /\ Len(up.read) = Start + d
  BY <1>1, UpLies DEF IInv, UpInv, SegmentRead
<1>3. k \in Nat /\ d + k <= l /\ Start + d + k = Start + (d + k)
  <2>1. ChunkSize \in Nat /\ k = IF ChunkSize <= l - d THEN ChunkSize ELSE l - d
    BY SegmentsAssumption DEF Lesser
  <2>2. Start \in Int
    BY <1>2
  <2>3. d \in Nat /\ l \in Nat /\ d <= l
    BY <1>2
  <2> HIDE DEF d, l, k
  <2> QED
    BY <2>1, <2>2, <2>3
<1>4. Start + d + k \in Start + d .. up.size
  <2> HIDE DEF d, l, k
  <2> QED
    BY <1>2, <1>3
<1>5. chunk \in Data /\ Len(chunk) = k
  <2>1. Start + d \in 0 .. up.size
    BY <1>2
  <2>2. chunk \in Data /\ Len(chunk) = (Start + d + k) - (Start + d)
    <3> HIDE DEF d, k
    <3> QED
      BY <1>2, <1>4, <2>1, CutIsData
  <2> QED
    BY <1>2, <1>3, <2>2
<1>6. /\ up' = [up EXCEPT !.data = @ \o chunk, !.read = @ \o chunk]
      /\ UNCHANGED <<stored, row, down, restored, disturbed>>
  <2>1. up' = [up EXCEPT !.data = @ \o SubSeq(Bytes(up.size), Len(up.read) + 1,
                                               Len(up.read) + k),
                         !.read = @ \o SubSeq(Bytes(up.size), Len(up.read) + 1,
                                               Len(up.read) + k)]
    BY DEF ReadsChunk
  <2>2. chunk = SubSeq(Bytes(up.size), Len(up.read) + 1, Len(up.read) + k)
    BY <1>2 DEF Cut
  <2> HIDE DEF chunk, k
  <2>3. UNCHANGED <<stored, row, down, restored, disturbed>>
    BY DEF ReadsChunk
  <2> QED
    BY <2>1, <2>2, <2>3
<1>7. /\ up.data \o chunk \in Data /\ Len(up.data \o chunk) = d + k
      /\ up.read \o chunk \in Data
  <2>1. up.read \in Data
    BY DEF IInv, TypeInv
  <2> HIDE DEF chunk, k
  <2> QED
    BY <1>2, <1>5, <2>1, ConcatProperties DEF Data
<1>8. up.data \o chunk = Cut(up.size, Start, Start + (d + k))
  <2>1. up.data = Cut(up.size, Start, Start + d)
    BY <1>1 DEF IInv, UpInv
  <2> HIDE DEF d, k
  <2> QED
    BY <1>2, <1>3, <1>4, <2>1, CutsJoin
<1>9. up.read \o chunk = Cut(up.size, 0, Start + (d + k))
  <2>1. up.read = Cut(up.size, 0, Start + d)
    BY <1>1 DEF IInv, UpInv
  <2>2. 0 \in 0 .. up.size /\ Start + d \in 0 .. up.size
    BY <1>2
  <2> HIDE DEF d, k
  <2> QED
    BY <1>2, <1>3, <1>4, <2>1, <2>2, CutsJoin
<1> HIDE DEF chunk, k
<1>10. TypeInv'
  BY <1>6, <1>7 DEF IInv, TypeInv
<1>11. /\ up'.at = "read" /\ up'.size = up.size /\ up'.seg = up.seg
       /\ up'.data = up.data \o chunk /\ up'.read = up.read \o chunk
       /\ Len(up'.data) = d + k
       /\ Start' = Start
  BY <1>1, <1>6, <1>7 DEF IInv, TypeInv, Start
<1>12. UpInv' /\ DoneInv'
  BY <1>1, <1>3, <1>6, <1>8, <1>9, <1>11 DEF IInv, UpInv, DoneInv
<1> QED
  BY <1>6, <1>10, <1>12, DownUntouched DEF IInv

(* Sending, giving back and aborting change nothing but the place. *)
LEMMA InvGoesOn ==
    ASSUME IInv, ReadFails \/ SendsSegment \/ Aborts
    PROVE  IInv'
<1>1. /\ UNCHANGED <<stored, row, down, restored, disturbed>>
      /\ up.at = "read"
      /\ \/ up' = [up EXCEPT !.at = "idle"]
         \/ up' = [up EXCEPT !.at = "abort"]
         \/ up' = [up EXCEPT !.at = "sent"] /\ SegmentRead
  BY DEF ReadFails, SendsSegment, Aborts
<1>2. TypeInv'
  BY <1>1 DEF IInv, TypeInv
<1>3. UpInv' /\ DoneInv'
  BY <1>1 DEF IInv, TypeInv, UpInv, DoneInv, SegmentRead, Start
<1> QED
  BY <1>1, <1>2, <1>3, DownUntouched DEF IInv

(* An ABORT removes file and row. *)
LEMMA InvRemovesFile ==
    ASSUME IInv, RemovesFile
    PROVE  IInv'
<1>1. TypeInv' /\ UpInv' /\ DoneInv'
  BY DEF RemovesFile, Discarded, IInv, TypeInv, UpInv, DoneInv, File
<1> QED
  BY <1>1, DownDisturbed DEF RemovesFile, IInv


(* write_file: the segment the server expects, and the file adds up.       *)
LEMMA InvStoresSegment ==
    ASSUME IInv, StoresSegment
    PROVE  IInv'
<1> DEFINE n == up.size
           l == SegmentLen(n, up.seg)
<1>1. up.at = "sent" /\ Len(up.data) = l
  BY DEF StoresSegment, IInv, UpInv, SegmentRead
<1>2. /\ n \in Size /\ n \in Nat /\ n \in Sizes /\ up.seg \in Nat
      /\ up.seg \in 0 .. NumSegments(n) - 1
      /\ up.data \in Data /\ up.read \in Data /\ l \in Nat
      /\ Start \in 0 .. n /\ Start + l \in Start .. n
      /\ up.data = Cut(n, Start, Start + l)
      /\ up.read = Cut(n, 0, Start + l)
      /\ up.seg > 0 => /\ stored = Cut(n, 0, Start)
                       /\ row = [last |-> up.seg - 1, size |-> NoSize]
  BY <1>1, UpLies DEF IInv, TypeInv, UpInv
<1> HIDE DEF n, l
<1>3. up.seg = 0 \/ up.seg = LastSegment + 1
  <2>1. CASE up.seg > 0
    <3>1. row # NoRow
      BY <1>2, <2>1, SegmentsAssumption
    <3> QED
      BY <1>2, <2>1, <3>1 DEF LastSegment
  <2> QED
    BY <1>2, <2>1
<1>4. Appended = Cut(n, 0, Start + l)
  <2>1. CASE up.seg = 0
    <3>1. Start = 0
      BY <2>1, SegmentsAssumption DEF Start
    <3> QED
      BY <1>2, <2>1, <3>1 DEF Appended
  <2>2. CASE up.seg # 0
    <3>1. stored = Cut(n, 0, Start)
      BY <1>2, <2>2
    <3>2. stored \in Data /\ stored # NoFile
      <4>1. 0 \in 0 .. n
        BY <1>2
      <4>2. stored \in Data
        BY <1>2, <3>1, <4>1, CutIsData
      <4> QED
        BY <4>2, SegmentsAssumption DEF Data
    <3>3. Cut(n, 0, Start) \o Cut(n, Start, Start + l) = Cut(n, 0, Start + l)
      <4>1. 0 \in 0 .. n
        BY <1>2
      <4> QED
        BY <1>2, <4>1, CutsJoin
    <3> QED
      BY <1>2, <2>2, <3>1, <3>2, <3>3 DEF Appended
  <2> QED
    BY <2>1, <2>2
<1>5. calculate_checksum(Appended) = up.read
  BY <1>2, <1>4, ChecksumReadsAll DEF Data
<1>6. Counted = [last |-> up.seg, size |-> NoSize] /\ Counted # NoRow
  <2>1. Counted = [last |-> up.seg, size |-> NoSize]
    <3>1. CASE up.seg = 0
      BY <3>1 DEF Counted
    <3>2. CASE up.seg # 0
      <4>1. row = [last |-> up.seg - 1, size |-> NoSize] /\ row # NoRow
        BY <1>2, <3>2, SegmentsAssumption
      <4> QED
        BY <3>2, <4>1 DEF Counted
    <3> QED
      BY <3>1, <3>2
  <2> QED
    BY <1>2, <2>1, SegmentsAssumption
<1>7. Final(up.seg, n) <=> IsLast(n, up.seg) /\ n # 0
  <2>1. /\ count_segments(n) = IF n = 0 THEN 0 ELSE NumSegments(n)
        /\ NumSegments(n) \in Nat
    BY <1>2, SegmentsCover
  <2> QED
    BY <1>2, <2>1 DEF Final, IsLast
<1>8. /\ stored' = Appended
      /\ row' = [last |-> up.seg,
                 size |-> IF Final(up.seg, n) THEN n ELSE NoSize]
      /\ up' = Continues
      /\ disturbed' = (disturbed \/ Restoring)
      /\ UNCHANGED <<down, restored>>
  <2>1. /\ stored' = Appended
        /\ row' = IF Final(up.seg, n) THEN [Counted EXCEPT !.size = n]
                                      ELSE Counted
        /\ up' = Continues
        /\ disturbed' = (disturbed \/ Restoring)
        /\ UNCHANGED <<down, restored>>
    BY <1>3, <1>5, <1>6 DEF StoresSegment, n
  <2> QED
    BY <1>6, <2>1
<1>9. Appended \in Data
  <2>1. 0 \in 0 .. n /\ Start + l \in 0 .. n
    BY <1>2
  <2> QED
    BY <1>2, <1>4, <2>1, CutIsData
<1>10. CASE IsLast(n, up.seg)
  <2>1. up' = [up EXCEPT !.at = "done"]
    BY <1>8, <1>10 DEF Continues, n
  <2>2. Start + l = n
    BY <1>2, <1>10, SegmentLies DEF Start, l
  <2>3. stored' = Bytes(n)
    BY <1>2, <1>4, <1>8, <2>2, BytesIsData
  <2>4. /\ up'.at = "done" /\ up'.size = n /\ up'.seg = up.seg
        /\ row' = [last |-> up.seg, size |-> IF n = 0 THEN NoSize ELSE n]
    BY <1>7, <1>8, <1>10, <2>1 DEF IInv, TypeInv, n
  <2>5. TypeInv'
    <3>1. row' \in [last : Nat, size : Sizes \cup {NoSize}] /\ Sizes # {}
      BY <1>2, <2>4
    <3>2. stored' \in File
      BY <1>8, <1>9 DEF File
    <3> QED
      BY <1>8, <2>1, <3>1, <3>2 DEF IInv, TypeInv
  <2>6. UpInv' /\ DoneInv'
    BY <2>3, <2>4 DEF UpInv, DoneInv
  <2> QED
    BY <1>8, <2>5, <2>6, DownDisturbed DEF IInv
<1>11. CASE ~IsLast(n, up.seg)
  <2>1. up' = [up EXCEPT !.at = "read", !.seg = @ + 1, !.data = <<>>]
    BY <1>8, <1>11 DEF Continues, n
  <2>2. /\ up.seg + 1 \in 0 .. NumSegments(n) - 1
        /\ l = SegmentSize
        /\ (up.seg + 1) * SegmentSize = Start + l
    BY <1>2, <1>11, SegmentLies DEF Start, l
  <2>3. /\ up'.at = "read" /\ up'.size = n /\ up'.seg = up.seg + 1
        /\ up'.data = <<>> /\ up'.read = up.read
        /\ Start' = Start + l
    BY <2>1, <2>2 DEF IInv, TypeInv, Start, n
  <2>4. <<>> \in Data /\ Len(<<>>) = 0
    BY DEF Data
  <2>5. TypeInv'
    <3>1. row' = [last |-> up.seg, size |-> NoSize] /\ Sizes # {}
      BY <1>2, <1>7, <1>8, <1>11
    <3>2. stored' \in File
      BY <1>8, <1>9 DEF File
    <3>3. up' \in [at : {"idle", "read", "sent", "abort", "done"}, size : Nat,
                   seg : Nat, data : Data, read : Data]
      <4>1. up.seg + 1 \in Nat
        BY <1>2
      <4>2. up \in [at : {"idle", "read", "sent", "abort", "done"}, size : Nat,
                    seg : Nat, data : Data, read : Data]
        BY DEF IInv, TypeInv
      <4> QED
        BY <2>1, <2>4, <4>1, <4>2
    <3>4. row' \in [last : Nat, size : Sizes \cup {NoSize}] \cup {NoRow}
      BY <1>2, <3>1
    <3> QED
      BY <1>8, <3>1, <3>2, <3>3, <3>4 DEF IInv, TypeInv
  <2>6. /\ Len(up'.data) <= SegmentLen(n, up.seg + 1)
        /\ Start' + Len(up'.data) = Start + l
        /\ Cut(n, Start + l, Start + l) = <<>>
    <3>1. SegmentLen(n, up.seg + 1) \in Nat
      BY <1>2, <2>2, SegmentLies
    <3>2. Start + l \in 0 .. n
      BY <1>2
    <3>3. Cut(n, Start + l, Start + l) = <<>>
      <4> DEFINE a == Start + l
      <4> HIDE DEF a
      <4>1. a \in a .. n
        BY <1>2, <3>2 DEF a
      <4> QED
        BY <1>2, <3>2, <4>1, CutIsData DEF a
    <3> QED
      BY <2>3, <2>4, <3>1, <3>2, <3>3
  <2>7. /\ up'.read = Cut(n, 0, Start + l) /\ stored' = Cut(n, 0, Start + l)
        /\ row' = [last |-> (up.seg + 1) - 1, size |-> NoSize]
    BY <1>2, <1>4, <1>7, <1>8, <1>11, <2>3
  <2>8. UpInv' /\ DoneInv'
    BY <1>2, <2>2, <2>3, <2>6, <2>7 DEF UpInv, DoneInv
  <2> QED
    BY <1>8, <2>5, <2>8, DownDisturbed DEF IInv
<1> QED
  BY <1>10, <1>11

(* A restore begins with nothing brought back.                             *)
LEMMA InvRestoreBegins ==
    ASSUME IInv, RestoreBegins
    PROVE  IInv'
<1> DEFINE n == Reported
<1>1. n \in Size /\ n \in Nat
  BY SegmentsAssumption DEF RestoreBegins, IInv, TypeInv, Reported, Size
<1>2. NumSegments(n) \in Nat \ {0}
  BY <1>1, SegmentsCover
<1>3. /\ down' = [at |-> "ask", size |-> n, seg |-> 0, held |-> NoFile,
                  whole |-> stored = Bytes(n)]
      /\ disturbed' = FALSE
      /\ UNCHANGED <<up, stored, row, restored>>
  BY DEF RestoreBegins
<1> HIDE DEF n
<1>4. TypeInv'
  BY <1>1, <1>3 DEF IInv, TypeInv, File
<1>5. DownInv' /\ RestoredIsGenuine' /\ RestoresWhatFits'
  <2>1. /\ down'.at = "ask" /\ down'.size = n /\ down'.seg = 0
        /\ down'.whole => stored' = Bytes(n)
        /\ 0 \in 0 .. NumSegments(n) - 1
    <3>1. down'.whole => stored = Bytes(n)
      BY <1>3, Zenon
    <3> QED
      BY <1>2, <1>3, <3>1
  <2> QED
    BY <1>1, <2>1 DEF DownInv, RestoredIsGenuine, RestoresWhatFits
<1> QED
  BY <1>3, <1>4, <1>5, UpUntouched DEF IInv

(* A segment of a whole file that nobody writes to is refused only when    *)
(* the length does not fit an int.                                         *)
LEMMA InvFindsSegment ==
    ASSUME IInv, FindsSegment
    PROVE  IInv'
<1>1. /\ down.at = "ask" /\ UNCHANGED <<up, stored, row, restored, disturbed>>
      /\ down.size \in Size /\ down.seg \in 0 .. NumSegments(down.size) - 1
  BY DEF FindsSegment, IInv, DownInv, Restoring
<1>2. CASE stored = NoFile \/ TooFar
  <2>1. down' = [down EXCEPT !.at = "refused"]
    BY <1>2 DEF FindsSegment
  <2>2. TypeInv' /\ DownInv' /\ RestoredIsGenuine'
    BY <1>1, <2>1 DEF IInv, TypeInv, DownInv, RestoredIsGenuine, Restoring
  <2>3. ASSUME down.whole, ~disturbed, Fits(down.size) PROVE FALSE
    <3>1. stored = Bytes(down.size)
      BY <1>1, <2>3 DEF IInv, DownInv, Restoring
    <3>2. stored \in Data /\ Len(stored) = down.size /\ stored # NoFile
      BY <1>1, <3>1, BytesIsData, SegmentsAssumption DEF Data
    <3>3. down.size \in Nat /\ Half \in Int
      BY SegmentsAssumption DEF IInv, TypeInv, Half
    <3>4. ToInt(down.size) = down.size
      <4>1. down.size % (2 * Half) = down.size
        BY <2>3, <3>3 DEF Fits
      <4> QED
        BY <2>3, <3>3, <4>1 DEF Fits, ToInt
    <3>5. Position \in 0 .. down.size
      BY <1>1, SegmentLies DEF Position
    <3> QED
      BY <1>2, <3>2, <3>3, <3>4, <3>5 DEF TooFar
  <2>4. RestoresWhatFits'
    BY <1>1, <2>1, <2>3 DEF IInv, TypeInv, RestoresWhatFits, Fits
  <2> QED
    BY <1>1, <2>2, <2>4, UpUntouched DEF IInv
<1>3. CASE ~(stored = NoFile \/ TooFar)
  <2>1. down' = [down EXCEPT !.at = "read", !.held = stored]
    BY <1>3 DEF FindsSegment
  <2>2. TypeInv' /\ RestoredIsGenuine' /\ RestoresWhatFits'
    BY <1>1, <2>1 DEF IInv, TypeInv, RestoredIsGenuine, RestoresWhatFits
  <2>3. /\ Restoring /\ down'.size = down.size /\ down'.seg = down.seg
        /\ down'.whole = down.whole /\ down'.held = stored /\ stored \in Data
        /\ Position' = Position
    BY <1>1, <1>3, <2>1 DEF IInv, TypeInv, File, Restoring, Position
  <2>4. DownInv'
    BY <1>1, <2>3 DEF IInv, DownInv
  <2> QED
    BY <1>1, <2>2, <2>4, UpUntouched DEF IInv
<1> QED
  BY <1>2, <1>3

(* What a request for a segment brings back of a file. *)
LEMMA SegmentAtIsData ==
    ASSUME NEW f \in Data, down.seg \in Nat
    PROVE  SegmentAt(f) \in Data
<1>1. Len(f) \in Nat /\ SegmentSize \in Nat /\ Position \in Nat
  BY LenProperties, SegmentsAssumption DEF Data, Position
<1> DEFINE a == Position + 1
           b == Lesser(Position + SegmentSize, Len(f))
<1>2. a \in Int /\ b \in Int /\ b <= Len(f) /\ 1 <= a
  BY <1>1 DEF Lesser
<1>3. \A i \in a .. b : f[i] \in Sizes \X Nat
  <2> HIDE DEF a, b
  <2>1. \A i \in a .. b : i \in 1 .. Len(f)
    BY <1>1, <1>2
  <2> QED
    BY <2>1, ElementOfSeq DEF Data
<1> HIDE DEF a, b
<1>4. SubSeq(f, a, b) \in Data
  BY <1>2, <1>3, SubSeqProperties DEF Data
<1> QED
  BY <1>4 DEF SegmentAt, a, b

(* The next segment is put behind the ones before; after the last one the  *)
(* checksum tells.                                                         *)
LEMMA InvReadsSegment ==
    ASSUME IInv, ReadsSegment
    PROVE  IInv'
<1> DEFINE n == down.size
           s == down.seg
           e == Position + SegmentLen(n, s)
<1>1. /\ down.at = "read" /\ Restoring /\ UNCHANGED <<up, stored, row, disturbed>>
      /\ n \in Size /\ s \in 0 .. NumSegments(n) - 1 /\ n \in Nat /\ s \in Nat
      /\ down.held \in Data
  BY DEF ReadsSegment, IInv, TypeInv, DownInv, Restoring
<1>2. /\ Position \in 0 .. n /\ e \in Position .. n
      /\ e = Lesser(Position + SegmentSize, n)
      /\ IsLast(n, s) => e = n
      /\ ~IsLast(n, s) => s + 1 \in 0 .. NumSegments(n) - 1
                          /\ (s + 1) * SegmentSize = e
  <2>1. /\ SegmentLen(n, s) \in Nat /\ Position \in 0 .. n
        /\ e = Lesser(Position + SegmentSize, n)
        /\ IsLast(n, s) => e = n
        /\ ~IsLast(n, s) => s + 1 \in 0 .. NumSegments(n) - 1
                            /\ (s + 1) * SegmentSize = e
    BY <1>1, SegmentLies DEF Position
  <2>2. SegmentSize \in Nat
    BY SegmentsAssumption
  <2>3. e <= n
    <3>1. Lesser(Position + SegmentSize, n) <= n
      BY <1>1, <2>1, <2>2 DEF Lesser
    <3> QED
      BY <2>1, <3>1
  <2> QED
    BY <1>1, <2>1, <2>3
<1>3. Answer \in Data
  BY <1>1, SegmentAtIsData DEF Answer, IInv, TypeInv, File
<1>4. /\ restored' = IF s = 0 THEN Answer ELSE restored \o Answer
      /\ restored' \in Data
  <2>1. s # 0 => restored \in Data
    BY <1>1 DEF IInv, DownInv
  <2> QED
    BY <1>3, <2>1, ConcatProperties DEF ReadsSegment, Data
<1>5. ASSUME down.whole, ~disturbed
      PROVE  restored' = Cut(n, 0, e) /\ stored = Bytes(n)
  <2>1. /\ stored = Bytes(n)
        /\ s > 0 => restored = Cut(n, 0, Position)
    BY <1>1, <1>5 DEF IInv, DownInv
  <2>2. stored # NoFile /\ Len(stored) = n
    BY <1>1, <2>1, BytesIsData, SegmentsAssumption DEF Data
  <2>3. Answer = Cut(n, Position, e)
    BY <1>2, <2>1, <2>2 DEF Answer, SegmentAt, Cut
  <2>4. CASE s = 0
    <3>1. Position = 0
      BY <2>4, SegmentsAssumption DEF Position
    <3> QED
      BY <1>4, <2>1, <2>3, <2>4, <3>1
  <2>5. CASE s # 0
    <3>1. Cut(n, 0, Position) \o Cut(n, Position, e) = Cut(n, 0, e)
      <4>1. 0 \in 0 .. n
        BY <1>1
      <4> HIDE DEF n, e
      <4> QED
        BY <1>1, <1>2, <4>1, CutsJoin
    <3>2. restored = Cut(n, 0, Position)
      BY <1>1, <2>1, <2>5
    <3> HIDE DEF n, e, s
    <3> QED
      BY <1>4, <2>1, <2>3, <2>5, <3>1, <3>2
  <2> QED
    BY <2>4, <2>5
<1>6. CASE ~IsLast(n, s)
  <2>1. down' = [down EXCEPT !.at = "ask", !.seg = @ + 1]
    BY <1>6 DEF ReadsSegment
  <2>2. TypeInv' /\ RestoredIsGenuine' /\ RestoresWhatFits'
    <3>1. TypeInv'
      <4>1. down' \in [at : {"off", "ask", "read", "refused", "mismatch", "done"},
                       size : Nat, seg : Nat, held : File, whole : BOOLEAN]
        <5>1. down.seg + 1 \in Nat
          BY <1>1
        <5>2. down \in [at : {"off", "ask", "read", "refused", "mismatch", "done"},
                        size : Nat, seg : Nat, held : File, whole : BOOLEAN]
          BY DEF IInv, TypeInv
        <5> QED
          BY <2>1, <5>1, <5>2
      <4> QED
        BY <1>1, <1>4, <4>1 DEF IInv, TypeInv, File
    <3>2. down'.at = "ask"
      BY <2>1 DEF IInv, TypeInv
    <3> QED
      BY <3>1, <3>2 DEF RestoredIsGenuine, RestoresWhatFits
  <2>3. /\ down'.at = "ask" /\ down'.size = n /\ down'.seg = s + 1
        /\ down'.whole = down.whole /\ Position' = e
    BY <1>2, <1>6, <2>1 DEF IInv, TypeInv, Position
  <2>4. DownInv'
    BY <1>1, <1>2, <1>4, <1>5, <1>6, <2>3 DEF DownInv
  <2> QED
    BY <1>1, <2>2, <2>4, UpUntouched DEF IInv
<1>7. CASE IsLast(n, s)
  <2>1. down' = [down EXCEPT !.at = IF Compared THEN "done" ELSE "mismatch"]
    BY <1>7 DEF ReadsSegment
  <2>2. Compared <=> restored' = Bytes(n)
    BY <1>4, ChecksumReadsAll DEF Compared, Data
  <2>3. TypeInv' /\ DownInv'
    BY <1>1, <1>4, <2>1 DEF IInv, TypeInv, File, DownInv, Restoring
  <2>4. RestoredIsGenuine'
    BY <1>1, <2>1, <2>2 DEF IInv, TypeInv, RestoredIsGenuine
  <2>5. down.whole /\ ~disturbed => restored' = Bytes(n)
    BY <1>1, <1>2, <1>5, <1>7, BytesIsData
  <2>6. RestoresWhatFits'
    BY <1>1, <2>1, <2>2, <2>5 DEF IInv, TypeInv, RestoresWhatFits
  <2> QED
    BY <1>1, <2>3, <2>4, <2>6, UpUntouched DEF IInv
<1> QED
  BY <1>6, <1>7

(* The invariant holds in every state. *)
LEMMA Invariance == Spec => []IInv
<1>1. IInv /\ [Next]_vars => IInv'
  <2> SUFFICES ASSUME IInv, [Next]_vars PROVE IInv'
    OBVIOUS
  <2>1. CASE UNCHANGED vars
    <3>1. TypeInv'
      BY <2>1 DEF vars, IInv, TypeInv
    <3> QED
      BY <2>1, <3>1, DownUntouched, UpUntouched DEF vars, IInv
  <2> QED
    BY <2>1, InvUploadBegins, InvReadsChunk, InvGoesOn, InvStoresSegment,
       InvRemovesFile, InvRestoreBegins, InvFindsSegment, InvReadsSegment
       DEF Next
<1> QED
  BY InvInit, <1>1, PTL DEF Spec

----------------------------------------------------------------------------
(* The properties.                                                         *)

(* The segments of an upload add up, whatever the size of the file, of a   *)
(* segment and of a chunk.                                                 *)
THEOREM SegmentsAdd == Spec => []SegmentsAddUp
<1>1. IInv => SegmentsAddUp
  <2> SUFFICES ASSUME IInv PROVE SegmentsAddUp
    OBVIOUS
  <2>1. ASSUME up.at = "read", up.seg > 0
        PROVE  /\ Len(stored) = Start /\ Prefix(stored, Bytes(up.size))
               /\ row = [last |-> up.seg - 1, size |-> NoSize]
    <3>1. /\ stored = Cut(up.size, 0, Start)
          /\ row = [last |-> up.seg - 1, size |-> NoSize]
      BY <2>1 DEF IInv, UpInv
    <3>2. up.size \in Size /\ up.size \in Nat /\ Start \in 0 .. up.size
      BY <2>1, UpLies
    <3>3. Len(stored) = Start /\ Len(Bytes(up.size)) = up.size
      <4>1. 0 \in 0 .. up.size /\ Len(stored) = Start - 0
        BY <3>1, <3>2, CutIsData
      <4> QED
        BY <3>2, <4>1, BytesIsData
    <3>4. stored = SubSeq(Bytes(up.size), 1, Len(stored))
      BY <3>1, <3>3, 0 + 1 = 1 DEF Cut
    <3> QED
      BY <3>1, <3>2, <3>3, <3>4 DEF Prefix
  <2> QED
    BY <2>1 DEF IInv, DoneInv, SegmentsAddUp, Start
<1> QED
  BY <1>1, Invariance, PTL

(* A restore that says it has succeeded has brought back what the server   *)
(* had reported, whatever was written and removed meanwhile.               *)
THEOREM RestoreGenuine == Spec => []RestoredIsGenuine
<1>1. IInv => RestoredIsGenuine
  BY DEF IInv
<1> QED
  BY <1>1, Invariance, PTL

(* A restore of a whole file that nobody writes to meanwhile succeeds, if  *)
(* only the length fits an int.                                            *)
THEOREM RestoreFits == Spec => []RestoresWhatFits
<1>1. IInv => RestoresWhatFits
  BY DEF IInv
<1> QED
  BY <1>1, Invariance, PTL
=============================================================================
