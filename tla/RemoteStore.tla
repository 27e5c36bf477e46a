---------------------------- MODULE RemoteStore ----------------------------
(***************************************************************************)
(* What the server's file store promises the one client that writes a      *)
(* path: no threads, no database, no directories.  Of a file it keeps      *)
(* nothing, or the first segments of one version, reported as whole when   *)
(* they are all of them; or the copy is torn: what the server says of it   *)
(* and what it keeps were left apart.                                      *)
(***************************************************************************)
EXTENDS Naturals, Sequences

CONSTANTS
    Path, Version,
    Content(_),     \* the segments of a version
    Nothing, Torn, NoMeta

VARIABLE store      \* what is kept of each path: [data, whole], Nothing or Torn

Holding(d, v) == [data |-> d, whole |-> v]
First(n, v) == SubSeq(Content(v), 1, n)

Init == store = [p \in Path |-> Nothing]

(* The steps of one path, from c to d. *)

Held(c) == c \notin {Nothing, Torn}
Growing(c) == Held(c) /\ c.whole = NoMeta

(* An upload begins, and what was there is gone. *)
Start(c, d) == c # Torn /\ d = Holding(<<>>, NoMeta)

(* One more segment of the same version. *)
Extend(c, d) ==
    /\ Growing(c)
    /\ LET n == Len(c.data) IN
       \E v \in Version :
         n < Len(Content(v)) /\ c.data = First(n, v) /\ d = Holding(First(n + 1, v), NoMeta)

(* All segments are there: the file is reported from now on. *)
Finish(c, d) ==
    /\ Growing(c)
    /\ \E v \in Version : c.data = Content(v) /\ d = Holding(c.data, v)

Drop(c, d) == Held(c) /\ d = Nothing

(* A removal, a segment 0 carried out to its end, or clear(). *)
Mend(c, d) ==
    /\ c = Torn
    /\ \/ d = Nothing
       \/ \E v \in Version :
            \/ d = Holding(First(1, v), NoMeta)
            \/ Len(Content(v)) = 1 /\ d = Holding(First(1, v), v)

(* A crash, a refused statement, or half of clear(). *)
Tear(c, d) == d = Torn

Step(c, d) ==
    \/ c = d
    \/ Start(c, d) \/ Extend(c, d) \/ Finish(c, d) \/ Drop(c, d)
    \/ Mend(c, d) \/ Tear(c, d)

(* A crash and clear() concern several paths at once. *)
Next ==
    /\ \A p \in Path : Step(store[p], store'[p])
    /\ DOMAIN store' = Path

Spec == Init /\ [][Next]_store
=============================================================================
