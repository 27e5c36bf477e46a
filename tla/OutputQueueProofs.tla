------------------------- MODULE OutputQueueProofs -------------------------
(***************************************************************************)
(* Proofs about OutputQueue for every set of paths and senders and every   *)
(* value of the bounds: its types, the inductive invariant IInv behind     *)
(* the safety properties, the order of completion, and the implementation  *)
(* of PathMailbox.                                                         *)
(***************************************************************************)
EXTENDS OutputQueue, FiniteSetTheorems, TLAPS

----------------------------------------------------------------------------
(* Types.                                                                  *)

(* The types hold initially: an empty queue (OutputQueue.cpp:4). *)
LEMMA TypeInit == Init => TypeOK
<1> SUFFICES ASSUME Init PROVE TypeOK
  OBVIOUS
<1> USE ThreadAssumption, SizeAssumption DEF Init
<1>1. Ops = {} /\ queue \in [Ops -> Operation]
  BY DEF Ops
<1>2. /\ pc[Watcher] = "idle"
      /\ \A s \in Sender : pc[s] = "get"
      /\ pc \in [Thread -> {"idle", "add", "add_block", "get", "get_block",
                            "busy", "exited"}]
  BY DEF Thread
<1>3. NoOp \in Int
  BY DEF NoOp
<1>4. id_counter \in Nat /\ Ops \subseteq 0 .. id_counter - 1
  BY <1>1
<1>5. held \in [Sender -> Int]
      /\ newest \in [Path -> Int] /\ completed \in [Path -> Int]
  BY <1>3
<1> QED
  BY <1>1, <1>2, <1>4, <1>5 DEF TypeOK

(* What the watcher does in add_file_operation keeps the types. *)
LEMMA TypeWatcher == TypeOK /\ WatcherNext => TypeOK'
<1> SUFFICES ASSUME TypeOK, WatcherNext PROVE TypeOK'
  OBVIOUS
<1> USE ThreadAssumption, SizeAssumption DEF TypeOK, Ops, Thread
<1>1. ASSUME NEW p \in Path, CallAdd(p) PROVE TypeOK'
  BY <1>1 DEF CallAdd, queueVars, ghosts
<1>2. CASE AddAccepts
  <2>1. id_counter' = id_counter + 1 /\ id_counter' \in Nat
    BY <1>2 DEF AddAccepts, NextId
  <2>2. Ops' = (Ops \ Overwritten(arg)) \cup {id_counter}
    BY <1>2 DEF AddAccepts
  <2>3. Ops' \subseteq 0 .. id_counter' - 1
    BY <2>1, <2>2
  <2>4. ASSUME NEW i \in Ops' PROVE queue'[i] \in Operation
    <3>1. CASE i = id_counter
      BY <1>2, <2>2, <3>1 DEF AddAccepts, Operation
    <3>2. CASE i # id_counter
      <4>1. i \in Ops /\ queue[i] \in Operation
        BY <2>2, <3>2
      <4>2. queue'[i] = [queue[i] EXCEPT !.abort = AbortAfterAdd(i, arg)]
        BY <1>2, <2>2, <3>2 DEF AddAccepts
      <4> QED
        BY <4>1, <4>2 DEF AbortAfterAdd, Operation
    <3> QED
      BY <3>1, <3>2
  <2>5. queue' \in [Ops' -> Operation]
    <3>1. queue' = [i \in Ops' |-> queue'[i]]
      BY <1>2, <2>2 DEF AddAccepts
    <3> QED
      BY <2>4, <3>1
  <2>6. /\ waiting' = {}
        /\ pc' = [pc EXCEPT ![Watcher] = "idle"]
        /\ newest' = [newest EXCEPT ![arg] = id_counter]
        /\ UNCHANGED <<processing_files, m, keep_going, watchdog, stopping,
                       arg, held, crashed, completed>>
    BY <1>2 DEF AddAccepts, NotifyAll
  <2>7. newest' \in [Path -> Int]
    BY <2>6
  <2> QED
    BY <2>1, <2>3, <2>5, <2>6, <2>7
<1>3. CASE AddCrashes
  BY <1>3 DEF AddCrashes, queueVars, ghosts
<1>4. CASE AddThrows
  BY <1>4 DEF AddThrows, queueVars, ghosts
<1>5. CASE AddDecidesToWait
  BY <1>5 DEF AddDecidesToWait, queueVars, ghosts
<1>6. CASE AddWaits
  BY <1>6 DEF AddWaits, Waits, queueVars, ghosts
<1> QED
  BY <1>1, <1>2, <1>3, <1>4, <1>5, <1>6 DEF WatcherNext

(* What a sender does in get, free and remove keeps the types. *)
LEMMA TypeSender ==
    ASSUME TypeOK, NEW s \in Sender, SenderNext(s)
    PROVE  TypeOK'
<1> USE ThreadAssumption, SizeAssumption DEF TypeOK
<1>0. s \in Thread /\ s # Watcher
  BY DEF Thread
<1>1. CASE GetTakes(s)
  <2>1. PICK i \in Eligible :
          /\ queue' = [queue EXCEPT ![i].processing = TRUE]
          /\ processing_files' = processing_files \cup {queue[i].path}
          /\ held' = [held EXCEPT ![s] = i]
    BY <1>1 DEF GetTakes
  <2>2. i \in Ops /\ i \in Int /\ queue[i] \in Operation
    BY <2>1 DEF Eligible
  <2>3. Ops' = Ops /\ queue' \in [Ops -> Operation]
    BY <2>1, <2>2 DEF Ops, Operation
  <2>4. processing_files' \subseteq Path /\ held' \in [Sender -> Int]
    BY <2>1, <2>2 DEF Operation
  <2> QED
    BY <1>0, <1>1, <2>3, <2>4 DEF GetTakes, ghosts
<1>2. CASE GetThrows(s)
  BY <1>0, <1>2 DEF GetThrows, Stopped, queueVars, ghosts, Ops
<1>3. CASE GetDecidesToWait(s)
  BY <1>0, <1>3 DEF GetDecidesToWait, queueVars, ghosts, Ops
<1>4. CASE GetWaits(s)
  BY <1>0, <1>4 DEF GetWaits, Waits, queueVars, ghosts, Ops
<1>5. CASE FreeFileOperation(s)
  <2>1. Ops' = Ops
    BY <1>5 DEF FreeFileOperation, Ops
  <2>2. ASSUME NEW i \in Ops
        PROVE  queue'[i] = [queue[i] EXCEPT !.processing = @ /\ i # held[s]]
    BY <1>5 DEF FreeFileOperation
  <2>3. queue' \in [Ops -> Operation]
    <3>1. queue' = [i \in Ops |-> queue'[i]]
      BY <1>5 DEF FreeFileOperation
    <3>2. ASSUME NEW i \in Ops PROVE queue'[i] \in Operation
      BY <2>2 DEF Operation
    <3> QED
      BY <3>1, <3>2
  <2>4. held' \in [Sender -> Int]
    BY <1>5 DEF FreeFileOperation, NoOp
  <2> QED
    BY <1>0, <1>5, <2>1, <2>3, <2>4 DEF FreeFileOperation, NotifyAll, ghosts
<1>6. CASE RemoveFileOperation(s)
  <2>1. Ops' = Ops \ RemovedBy(s) /\ queue' \in [Ops' -> Operation]
    BY <1>6 DEF RemoveFileOperation, Ops
  <2>2. held' \in [Sender -> Int] /\ completed' \in [Path -> Int]
    BY <1>6 DEF RemoveFileOperation, NoOp
  <2>3. waiting' \subseteq Thread /\ processing_files' \subseteq Path
    BY <1>6 DEF RemoveFileOperation, NotifyAll
  <2>4. /\ pc' = [pc EXCEPT ![s] = "get"]
        /\ UNCHANGED <<id_counter, m, keep_going, watchdog, stopping, arg,
                       crashed, newest>>
    BY <1>6 DEF RemoveFileOperation
  <2>5. Ops' \subseteq 0 .. id_counter' - 1
    BY <2>1, <2>4
  <2> QED
    BY <1>0, <2>1, <2>2, <2>3, <2>4, <2>5
<1> QED
  BY <1>1, <1>2, <1>3, <1>4, <1>5, <1>6 DEF SenderNext

(* The wakeups, the watchdog and stop() keep the types. *)
LEMMA TypeSystem == TypeOK /\ SystemNext => TypeOK'
  BY DEF TypeOK, SystemNext, WatchdogChecks, WatchdogFires, StopSetsFlag,
         StopNotifies, SpuriousWakeup, NotifyAll, queueVars, ghosts, Ops

(* A stuttering step keeps the types. *)
LEMMA TypeStutter == TypeOK /\ UNCHANGED vars => TypeOK'
  BY DEF TypeOK, vars, Ops

(* The types of OutputQueue hold in every state. *)
THEOREM TypeCorrect == Spec => []TypeOK
<1>1. TypeOK /\ [Next]_vars => TypeOK'
  BY TypeWatcher, TypeSender, TypeSystem, TypeStutter DEF Next
<1> QED
  BY TypeInit, <1>1, PTL DEF Spec

----------------------------------------------------------------------------
(* The inductive invariant.  OneSenderPerPath and the other safety         *)
(* properties are not inductive alone: that no path is taken twice rests   *)
(* on processing_files being exact, which rests on the marked entries and  *)
(* the busy senders matching one to one.                                   *)

Sent(i) == i \in Ops /\ queue[i].processing

(* Marked entries and busy senders match one to one. *)
SentByOne ==
    /\ \A i \in Ops : Sent(i) => \E s \in Busy : held[s] = i
    /\ \A s, t \in Busy : held[s] = held[t] => s = t

(* processing_files by its elements. *)
Reserved ==
    \A p \in Path :
        p \in processing_files
            <=> \E i \in Ops : Sent(i) /\ queue[i].path = p

(* What is being sent is the oldest entry on its path. *)
SentIsOldest ==
    \A i, j \in Ops : Sent(i) /\ queue[i].path = queue[j].path => i <= j

(* The queued ids of a path lie after its last completed one. *)
IdsInOrder ==
    \A p \in Path :
        /\ completed[p] <= newest[p]
        /\ newest[p] < id_counter
        /\ \A i \in OpsOn(p) : completed[p] < i /\ i <= newest[p]

IInv ==
    /\ TypeOK
    /\ HeldOpStaysQueued
    /\ SentByOne
    /\ Reserved
    /\ SentIsOldest
    /\ AbortIffSuperseded
    /\ IdsInOrder
    /\ NewestSurvives

(* The invariant holds of the empty queue. *)
LEMMA InvInit == Init => IInv
<1> SUFFICES ASSUME Init PROVE IInv
  OBVIOUS
<1> USE DEF Init
<1>1. TypeOK
  BY TypeInit
<1>2. Ops = {} /\ Busy = {}
  BY ThreadAssumption DEF Ops, Busy, Thread
<1>3. IdsInOrder /\ NewestSurvives
  BY <1>2 DEF IdsInOrder, NewestSurvives, NoOp, OpsOn
<1>4. Reserved
  BY <1>2 DEF Reserved, Sent
<1> QED
  BY <1>1, <1>2, <1>3, <1>4
     DEF IInv, HeldOpStaysQueued, SentByOne, SentIsOldest, AbortIffSuperseded,
         Sent

(* A step that moves no operation and no busy sender keeps the invariant. *)
LEMMA InvUnmoved ==
    ASSUME IInv, TypeOK', Busy' = Busy,
           UNCHANGED <<queue, processing_files, id_counter, held, newest,
                       completed>>
    PROVE  IInv'
  BY DEF IInv, HeldOpStaysQueued, SentByOne, Reserved, SentIsOldest,
         AbortIffSuperseded, IdsInOrder, NewestSurvives, Sent, Ops, OpsOn

(* add_file_operation overwrites and appends: the invariant survives. *)
LEMMA InvAddAccepts ==
    ASSUME IInv, AddAccepts, TypeOK'
    PROVE  IInv'
<1> USE DEF IInv
<1>1. /\ Ops' = (Ops \ Overwritten(arg)) \cup {id_counter}
      /\ id_counter' = id_counter + 1
      /\ newest' = [newest EXCEPT ![arg] = id_counter]
      /\ UNCHANGED <<processing_files, held, completed, arg>>
  BY DEF AddAccepts, NextId, Ops
<1>2. id_counter \notin Ops /\ id_counter \in Nat /\ Ops \subseteq Int
      /\ arg \in Path
  BY DEF TypeOK
<1>3. /\ queue'[id_counter].path = arg
      /\ ~queue'[id_counter].processing
      /\ ~queue'[id_counter].abort
  BY <1>1 DEF AddAccepts
<1>4. ASSUME NEW i \in Ops', i # id_counter
      PROVE  /\ i \in Ops
             /\ queue'[i].path = queue[i].path
             /\ queue'[i].processing = queue[i].processing
             /\ queue'[i].abort = (queue[i].abort \/ queue[i].path = arg)
             /\ queue[i].path = arg => queue[i].processing
  <2>1. i \in Ops /\ i \notin Overwritten(arg) /\ queue[i] \in Operation
    BY <1>1, <1>4 DEF TypeOK
  <2>2. queue'[i] = [queue[i] EXCEPT !.abort = AbortAfterAdd(i, arg)]
    BY <1>1, <1>4 DEF AddAccepts
  <2> QED
    BY <2>1, <2>2 DEF AbortAfterAdd, Operation, Overwritten, OpsOn
<1>5. ASSUME NEW i \in Ops, queue[i].processing \/ queue[i].path # arg
      PROVE  i \in Ops' /\ i # id_counter
  BY <1>1, <1>2, <1>5 DEF Overwritten, OpsOn
<1>6. Busy' = Busy
  BY ThreadAssumption DEF AddAccepts, Busy, TypeOK, Thread
<1>7. HeldOpStaysQueued'
  BY <1>1, <1>4, <1>5, <1>6 DEF HeldOpStaysQueued
<1>8. SentByOne'
  BY <1>1, <1>3, <1>4, <1>6 DEF SentByOne, Sent
<1>9. Reserved'
  BY <1>1, <1>3, <1>4, <1>5 DEF Reserved, Sent
<1>10. SentIsOldest'
  <2> SUFFICES ASSUME NEW i \in Ops', NEW j \in Ops', Sent(i)',
                      queue'[i].path = queue'[j].path
               PROVE  i <= j
    BY DEF SentIsOldest
  <2>1. i # id_counter /\ i \in Ops /\ Sent(i)
    BY <1>3, <1>4 DEF Sent
  <2>2. CASE j = id_counter
    BY <2>1, <2>2, <1>2 DEF TypeOK
  <2>3. CASE j # id_counter
    BY <2>1, <2>3, <1>4 DEF SentIsOldest
  <2> QED
    BY <2>2, <2>3
<1>11. AbortIffSuperseded'
  <2> SUFFICES ASSUME NEW i \in Ops'
               PROVE  queue'[i].abort
                        <=> \E j \in Ops' : queue'[j].path = queue'[i].path
                                            /\ i < j
    BY DEF AbortIffSuperseded, OpsOn
  <2>0. \A j \in Ops' : j \in Int /\ j <= id_counter
    BY <1>1, <1>2 DEF TypeOK
  <2>1. CASE i = id_counter
    <3>1. ~queue'[i].abort
      BY <2>1, <1>3
    <3>2. \A j \in Ops' : ~(i < j)
      BY <2>0, <2>1, <1>2
    <3> QED
      BY <3>1, <3>2
  <2>2. CASE i # id_counter /\ queue[i].path = arg
    <3>1. queue'[i].abort
      BY <2>2, <1>4
    <3>2. id_counter \in Ops' /\ i < id_counter
      BY <2>0, <2>2, <1>1, <1>2
    <3> QED
      BY <3>1, <3>2, <2>2, <1>3, <1>4
  <2>3. CASE i # id_counter /\ queue[i].path # arg
    <3>1. i \in Ops /\ queue'[i].abort <=> queue[i].abort
      BY <2>3, <1>4
    <3>2. \A j \in Ops' : queue'[j].path = queue'[i].path
                            => j \in Ops /\ queue[j].path = queue[i].path
      BY <2>3, <1>3, <1>4
    <3>3. \A j \in Ops : queue[j].path = queue[i].path
                            => j \in Ops' /\ queue'[j].path = queue'[i].path
      BY <2>3, <1>4, <1>5
    <3>4. i \in Ops
      BY <2>3, <1>4
    <3> QED
      BY <3>1, <3>2, <3>3, <3>4 DEF AbortIffSuperseded, OpsOn
  <2> QED
    BY <2>1, <2>2, <2>3
<1>12. IdsInOrder'
  <2> SUFFICES ASSUME NEW p \in Path
               PROVE  /\ completed[p] <= newest'[p]
                      /\ newest'[p] < id_counter'
                      /\ \A i \in Ops' : queue'[i].path = p
                            => completed[p] < i /\ i <= newest'[p]
    BY <1>1 DEF IdsInOrder, OpsOn
  <2>0. /\ newest[p] \in Int /\ completed[p] \in Int
        /\ completed[p] <= newest[p] /\ newest[p] < id_counter
    BY DEF TypeOK, IdsInOrder
  <2>1. newest'[p] = IF p = arg THEN id_counter ELSE newest[p]
    BY <1>1 DEF TypeOK
  <2>2. ASSUME NEW i \in Ops', queue'[i].path = p
        PROVE  completed[p] < i /\ i <= newest'[p]
    <3>1. CASE i = id_counter
      BY <3>1, <2>0, <2>1, <2>2, <1>2, <1>3
    <3>2. CASE i # id_counter
      <4>1. i \in Ops /\ queue[i].path = p
        BY <3>2, <2>2, <1>4
      <4>2. completed[p] < i /\ i <= newest[p]
        BY <4>1 DEF IdsInOrder, OpsOn
      <4> QED
        BY <4>1, <4>2, <2>0, <2>1, <1>2
    <3> QED
      BY <3>1, <3>2
  <2> QED
    BY <2>0, <2>1, <2>2, <1>1, <1>2
<1>13. NewestSurvives'
  <2> SUFFICES ASSUME NEW p \in Path, newest'[p] # NoOp
               PROVE  \/ newest'[p] \in Ops' /\ queue'[newest'[p]].path = p
                      \/ completed[p] = newest'[p]
    BY <1>1 DEF NewestSurvives, OpsOn
  <2>1. CASE p = arg
    BY <2>1, <1>1, <1>2, <1>3 DEF TypeOK
  <2>2. CASE p # arg
    <3>1. newest'[p] = newest[p]
      BY <2>2, <1>1 DEF TypeOK
    <3> QED
      BY <2>2, <3>1, <1>4, <1>5 DEF NewestSurvives, OpsOn
  <2> QED
    BY <2>1, <2>2
<1> QED
  BY <1>7, <1>8, <1>9, <1>10, <1>11, <1>12, <1>13

(* get_file_operation marks the oldest entry of an idle path. *)
LEMMA InvGetTakes ==
    ASSUME IInv, NEW s \in Sender, GetTakes(s), TypeOK'
    PROVE  IInv'
<1> USE DEF IInv
<1>1. PICK i \in Eligible :
        /\ FirstFound(i)
        /\ queue' = [queue EXCEPT ![i].processing = TRUE]
        /\ processing_files' = processing_files \cup {queue[i].path}
        /\ held' = [held EXCEPT ![s] = i]
  BY DEF GetTakes
<1>2. /\ i \in Ops /\ i \in Int /\ ~queue[i].processing
      /\ queue[i].path \in Path
      /\ queue[i].path \notin processing_files
  BY DEF Eligible, TypeOK, Operation
<1>3. /\ Ops' = Ops
      /\ UNCHANGED <<id_counter, newest, completed>>
      /\ \A j \in Ops : /\ queue'[j].path = queue[j].path
                        /\ queue'[j].abort = queue[j].abort
                        /\ queue'[j].processing <=> j = i \/ queue[j].processing
  BY <1>1, <1>2 DEF GetTakes, ghosts, Ops, TypeOK, Operation
<1>4. Busy' = Busy \cup {s} /\ s \notin Busy
  BY ThreadAssumption DEF GetTakes, AtTest, Busy, TypeOK, Thread
<1>5. /\ held'[s] = i
      /\ \A t \in Busy : held'[t] = held[t] /\ held[t] # i
  BY <1>1, <1>2, <1>4 DEF TypeOK, HeldOpStaysQueued, Busy
<1>6. \A j \in Ops : Sent(j)' <=> j = i \/ Sent(j)
  BY <1>3 DEF Sent
<1>7. HeldOpStaysQueued'
  BY <1>2, <1>3, <1>4, <1>5 DEF HeldOpStaysQueued
<1>8. SentByOne'
  BY <1>2, <1>3, <1>4, <1>5, <1>6 DEF SentByOne
<1>9. Reserved'
  BY <1>1, <1>2, <1>3, <1>6 DEF Reserved
<1>10. SentIsOldest'
  <2>1. ASSUME NEW j \in Ops, queue[j].path = queue[i].path PROVE i <= j
    <3>1. ~queue[j].processing
      BY <1>2, <2>1 DEF Reserved, Sent
    <3> QED
      BY <1>1, <1>2, <2>1, <3>1 DEF Eligible, FirstFound
  <2> QED
    BY <2>1, <1>2, <1>3, <1>6 DEF SentIsOldest
<1>11. AbortIffSuperseded'
  BY <1>3 DEF AbortIffSuperseded, OpsOn
<1>12. IdsInOrder' /\ NewestSurvives'
  BY <1>3 DEF IdsInOrder, NewestSurvives, OpsOn
<1> QED
  BY <1>7, <1>8, <1>9, <1>10, <1>11, <1>12

(* What a busy sender holds, as the source sees it: one entry, one path. *)
LEMMA BusyHolds ==
    ASSUME IInv, NEW s \in Busy
    PROVE  /\ held[s] \in Ops /\ Sent(held[s]) /\ Mine(s) = {held[s]}
           /\ PathsOf(Mine(s)) = {queue[held[s]].path}
           /\ queue[held[s]].path \in Path
<1>1. held[s] \in Ops /\ Sent(held[s])
  BY DEF IInv, HeldOpStaysQueued, Sent
<1> QED
  BY <1>1 DEF IInv, TypeOK, Mine, PathsOf, Operation

(* free_file_operation puts the entry back: the invariant survives. *)
LEMMA InvFree ==
    ASSUME IInv, NEW s \in Sender, FreeFileOperation(s), TypeOK'
    PROVE  IInv'
<1> USE DEF IInv
<1> DEFINE h == held[s]
<1>1. s \in Busy
  BY DEF FreeFileOperation, Busy
<1>2. /\ h \in Ops /\ Sent(h) /\ Released(s) = {queue[h].path}
      /\ queue[h].path \in Path
  BY <1>1, BusyHolds DEF Released
<1>3. /\ Ops' = Ops
      /\ UNCHANGED <<id_counter, newest, completed>>
      /\ processing_files' = processing_files \ {queue[h].path}
  BY <1>2 DEF FreeFileOperation, ghosts, Ops
<1>4. ASSUME NEW j \in Ops
      PROVE  /\ queue'[j].path = queue[j].path
             /\ queue'[j].abort = queue[j].abort
             /\ queue'[j].processing <=> queue[j].processing /\ j # h
  <2>1. queue[j] \in Operation
    BY DEF TypeOK
  <2>2. queue'[j] = [queue[j] EXCEPT !.processing = @ /\ j # held[s]]
    BY DEF FreeFileOperation
  <2> QED
    BY <2>1, <2>2 DEF Operation
<1>5. Busy' = Busy \ {s}
  BY ThreadAssumption DEF FreeFileOperation, Busy, TypeOK, Thread
<1>6. \A t \in Busy' : t \in Busy /\ held'[t] = held[t] /\ held[t] # h
  BY <1>1, <1>5 DEF FreeFileOperation, SentByOne, TypeOK, Busy
<1>7. \A j \in Ops : Sent(j)' <=> Sent(j) /\ j # h
  BY <1>3, <1>4 DEF Sent
<1>8. HeldOpStaysQueued'
  BY <1>3, <1>4, <1>6 DEF HeldOpStaysQueued
<1>9. SentByOne'
  BY <1>3, <1>5, <1>6, <1>7 DEF SentByOne
<1>10. ASSUME NEW j \in Ops, Sent(j), queue[j].path = queue[h].path
       PROVE  j = h
  <2>1. j <= h /\ h <= j
    BY <1>2, <1>10 DEF SentIsOldest
  <2>2. j \in Int /\ h \in Int
    BY <1>2 DEF TypeOK
  <2> QED
    BY <2>1, <2>2
<1>11. Reserved'
  BY <1>2, <1>3, <1>4, <1>7, <1>10 DEF Reserved
<1>12. SentIsOldest'
  BY <1>3, <1>4, <1>7 DEF SentIsOldest
<1>13. AbortIffSuperseded'
  BY <1>3, <1>4 DEF AbortIffSuperseded, OpsOn
<1>14. IdsInOrder' /\ NewestSurvives'
  BY <1>3, <1>4 DEF IdsInOrder, NewestSurvives, OpsOn
<1> QED
  BY <1>8, <1>9, <1>11, <1>12, <1>13, <1>14

(* remove_file_operation takes the entry out: the invariant survives. *)
LEMMA InvRemove ==
    ASSUME IInv, NEW s \in Sender, RemoveFileOperation(s), TypeOK'
    PROVE  IInv'
<1> USE DEF IInv
<1> DEFINE h == held[s]
           q == queue[h].path
<1>1. s \in Busy
  BY DEF RemoveFileOperation, Busy
<1>2. /\ h \in Ops /\ h \in Int /\ Sent(h) /\ q \in Path
      /\ Released(s) = {q} /\ RemovedBy(s) = {h} /\ PathsOf(Mine(s)) = {q}
  BY <1>1, BusyHolds DEF Released, RemovedBy, TypeOK
<1>3. /\ Ops' = Ops \ {h}
      /\ \A j \in Ops' : queue'[j] = queue[j]
      /\ UNCHANGED <<id_counter, newest>>
      /\ processing_files' = processing_files \ {q}
      /\ completed' = [p \in Path |-> IF p = q THEN h ELSE completed[p]]
  BY <1>2 DEF RemoveFileOperation, Ops
<1>4. Busy' = Busy \ {s}
  BY ThreadAssumption DEF RemoveFileOperation, Busy, TypeOK, Thread
<1>5. \A t \in Busy' : t \in Busy /\ held'[t] = held[t] /\ held[t] # h
  BY <1>1, <1>4 DEF RemoveFileOperation, SentByOne, TypeOK, Busy
<1>6. \A j \in Ops' : j \in Ops /\ j # h /\ (Sent(j)' <=> Sent(j))
  BY <1>3 DEF Sent
<1>7. ASSUME NEW j \in Ops', queue[j].path = q PROVE h < j /\ ~Sent(j)
  BY <1>2, <1>6, <1>7 DEF SentIsOldest, TypeOK
<1>8. HeldOpStaysQueued'
  BY <1>3, <1>5 DEF HeldOpStaysQueued
<1>9. SentByOne'
  BY <1>4, <1>5, <1>6 DEF SentByOne
<1>10. Reserved'
  BY <1>2, <1>3, <1>6, <1>7 DEF Reserved
<1>11. SentIsOldest'
  BY <1>3, <1>6 DEF SentIsOldest
<1>12. AbortIffSuperseded'
  <2> SUFFICES ASSUME NEW i \in Ops'
               PROVE  queue[i].abort
                        <=> \E j \in Ops' : queue[j].path = queue[i].path
                                            /\ i < j
    BY <1>3 DEF AbortIffSuperseded, OpsOn
  <2>1. ~(queue[h].path = queue[i].path /\ i < h)
    BY <1>2, <1>6, <1>7 DEF TypeOK
  <2>2. queue[i].abort <=> \E j \in Ops : queue[j].path = queue[i].path
                                          /\ i < j
    BY <1>6 DEF AbortIffSuperseded, OpsOn
  <2> QED
    BY <2>1, <2>2, <1>3
<1>13. IdsInOrder'
  <2> SUFFICES ASSUME NEW p \in Path
               PROVE  /\ completed'[p] <= newest[p]
                      /\ newest[p] < id_counter
                      /\ \A i \in Ops' : queue[i].path = p
                            => completed'[p] < i /\ i <= newest[p]
    BY <1>3 DEF IdsInOrder, OpsOn
  <2>1. CASE p = q
    BY <2>1, <1>2, <1>3, <1>6, <1>7 DEF IdsInOrder, OpsOn
  <2>2. CASE p # q
    BY <2>2, <1>3, <1>6 DEF IdsInOrder, OpsOn
  <2> QED
    BY <2>1, <2>2
<1>14. NewestSurvives'
  <2> SUFFICES ASSUME NEW p \in Path, newest[p] # NoOp
               PROVE  \/ newest[p] \in Ops' /\ queue[newest[p]].path = p
                      \/ completed'[p] = newest[p]
    BY <1>3 DEF NewestSurvives, OpsOn
  <2>1. \/ newest[p] \in Ops /\ queue[newest[p]].path = p
        \/ completed[p] = newest[p]
    BY DEF NewestSurvives, OpsOn
  <2>2. CASE p = q
    <3>1. completed[p] < h /\ h <= newest[p]
      BY <2>2, <1>2 DEF IdsInOrder, OpsOn
    <3>2. completed[p] # newest[p]
      BY <3>1, <1>2 DEF TypeOK
    <3> QED
      BY <2>1, <2>2, <3>2, <1>3
  <2>3. CASE p # q
    BY <2>1, <2>3, <1>3
  <2> QED
    BY <2>2, <2>3
<1> QED
  BY <1>8, <1>9, <1>10, <1>11, <1>12, <1>13, <1>14

(* Every step keeps the invariant. *)
LEMMA InvNext == IInv /\ [Next]_vars => IInv'
<1> SUFFICES ASSUME IInv, [Next]_vars PROVE IInv'
  OBVIOUS
<1>0. TypeOK /\ TypeOK'
  BY TypeWatcher, TypeSender, TypeSystem, TypeStutter DEF IInv, Next
<1> USE <1>0, ThreadAssumption DEF Busy, TypeOK, Thread, queueVars, ghosts
<1>1. CASE WatcherNext
  <2>1. CASE AddAccepts
    BY <2>1, InvAddAccepts
  <2>2. CASE (\E p \in Path : CallAdd(p)) \/ AddCrashes \/ AddThrows
             \/ AddDecidesToWait \/ AddWaits
    <3>1. UNCHANGED <<queue, processing_files, id_counter, held, newest,
                      completed>>
          /\ \A s \in Sender : pc'[s] = pc[s]
      BY <2>2 DEF CallAdd, AddCrashes, AddThrows, AddDecidesToWait, AddWaits,
                  Waits
    <3> QED
      BY <3>1, InvUnmoved
  <2> QED
    BY <1>1, <2>1, <2>2 DEF WatcherNext
<1>2. ASSUME NEW s \in Sender, SenderNext(s) PROVE IInv'
  <2>1. CASE GetTakes(s)
    BY <2>1, InvGetTakes
  <2>2. CASE FreeFileOperation(s)
    BY <2>2, InvFree
  <2>3. CASE RemoveFileOperation(s)
    BY <2>3, InvRemove
  <2>4. CASE GetThrows(s) \/ GetDecidesToWait(s) \/ GetWaits(s)
    <3>1. UNCHANGED <<queue, processing_files, id_counter, held, newest,
                      completed>>
          /\ \A t \in Sender : pc'[t] = "busy" <=> pc[t] = "busy"
      BY <2>4 DEF GetThrows, Stopped, GetDecidesToWait, GetWaits, Waits, AtTest
    <3> QED
      BY <3>1, InvUnmoved
  <2> QED
    BY <1>2, <2>1, <2>2, <2>3, <2>4 DEF SenderNext
<1>3. CASE SystemNext
  <2>1. UNCHANGED <<queue, processing_files, id_counter, held, newest,
                    completed, pc>>
    BY <1>3 DEF SystemNext, WatchdogChecks, WatchdogFires, StopSetsFlag,
                StopNotifies, SpuriousWakeup
  <2> QED
    BY <2>1, InvUnmoved
<1>4. CASE UNCHANGED vars
  BY <1>4, InvUnmoved DEF vars
<1> QED
  BY <1>1, <1>2, <1>3, <1>4 DEF Next

(* The invariant holds in every state. *)
LEMMA Invariance == Spec => []IInv
  BY InvInit, InvNext, PTL DEF Spec

----------------------------------------------------------------------------
(* The properties.                                                         *)

(* An operation being sent stays in the queue until its sender returns it: *)
(* add_file_operation never erases it under the sender.                    *)
THEOREM HeldOpsStay == Spec => []HeldOpStaysQueued
<1>1. IInv => HeldOpStaysQueued
  BY DEF IInv
<1> QED
  BY <1>1, Invariance, PTL

(* However senders, failures and new changes interleave, no two senders    *)
(* work on one path.                                                       *)
THEOREM SendersApart == Spec => []OneSenderPerPath
<1>1. IInv => OneSenderPerPath
  <2> SUFFICES ASSUME IInv, NEW s \in Busy, NEW t \in Busy, s # t,
                      PathsOf(Mine(s)) \cap PathsOf(Mine(t)) # {}
               PROVE  FALSE
    BY DEF OneSenderPerPath
  <2>1. /\ held[s] \in Ops /\ Sent(held[s])
        /\ PathsOf(Mine(s)) = {queue[held[s]].path}
    BY BusyHolds
  <2>2. /\ held[t] \in Ops /\ Sent(held[t])
        /\ PathsOf(Mine(t)) = {queue[held[t]].path}
    BY BusyHolds
  <2>3. held[s] <= held[t] /\ held[t] <= held[s]
    BY <2>1, <2>2 DEF IInv, SentIsOldest
  <2>4. held[s] = held[t]
    BY <2>1, <2>2, <2>3 DEF IInv, TypeOK
  <2> QED
    BY <2>4 DEF IInv, SentByOne
<1> QED
  BY <1>1, Invariance, PTL

(* processing_files is exactly the set of paths being worked on, so no     *)
(* path is locked out of the backup.                                       *)
THEOREM ReservationsExact == Spec => []ReservedPathsExact
<1>1. IInv => ReservedPathsExact
  <2> SUFFICES ASSUME IInv PROVE ReservedPathsExact
    OBVIOUS
  <2>1. ASSUME NEW p \in processing_files
        PROVE  \E s \in Busy : p \in PathsOf(Mine(s))
    <3>1. PICK i \in Ops : Sent(i) /\ queue[i].path = p
      BY DEF IInv, TypeOK, Reserved
    <3>2. PICK s \in Busy : held[s] = i
      BY <3>1 DEF IInv, SentByOne
    <3> QED
      BY <3>1, <3>2, BusyHolds
  <2>2. ASSUME NEW s \in Busy, NEW p \in PathsOf(Mine(s))
        PROVE  p \in processing_files
    BY BusyHolds DEF IInv, Reserved
  <2> QED
    BY <2>1, <2>2 DEF ReservedPathsExact
<1> QED
  BY <1>1, Invariance, PTL

(* An upload is told to abort exactly when a newer operation on its path   *)
(* waits behind it, so an abort never loses the file for good.             *)
THEOREM AbortsSuperseded == Spec => []AbortIffSuperseded
<1>1. IInv => AbortIffSuperseded
  BY DEF IInv
<1> QED
  BY <1>1, Invariance, PTL

(* The newest change to a path is queued until it is done. *)
THEOREM NewestNeverLost == Spec => []NewestSurvives
<1>1. IInv => NewestSurvives
  BY DEF IInv
<1> QED
  BY <1>1, Invariance, PTL

(* The operations on one path are completed in the order of the changes.   *)
THEOREM CompletionInOrder == Spec => CompletedInOrder
<1>1. ASSUME IInv, [Next]_vars
      PROVE  [\A p \in Path : completed[p] <= completed'[p]]_completed
  <2>1. ASSUME NEW s \in Sender, RemoveFileOperation(s), NEW p \in Path
        PROVE  completed[p] <= completed'[p]
    <3>1. s \in Busy
      BY <2>1 DEF RemoveFileOperation, Busy
    <3>2. completed'[p] = IF p = queue[held[s]].path THEN held[s]
                                                     ELSE completed[p]
      BY <1>1, <2>1, <3>1, BusyHolds DEF RemoveFileOperation
    <3>3. CASE p = queue[held[s]].path
      <4>1. held[s] \in OpsOn(p)
        BY <1>1, <3>1, <3>3, BusyHolds DEF OpsOn
      <4> QED
        BY <1>1, <3>2, <3>3, <4>1 DEF IInv, IdsInOrder, OpsOn, TypeOK
    <3> QED
      BY <1>1, <3>2, <3>3 DEF IInv, TypeOK
  <2>2. ASSUME NEW s \in Sender, SenderNext(s), ~RemoveFileOperation(s)
        PROVE  completed' = completed
    BY <2>2 DEF SenderNext, GetTakes, GetThrows, Stopped, GetDecidesToWait, GetWaits,
                Waits, FreeFileOperation, ghosts
  <2>3. WatcherNext \/ SystemNext => completed' = completed
    BY DEF WatcherNext, CallAdd, AddAccepts, AddCrashes, AddThrows,
           AddDecidesToWait, AddWaits, Waits, SystemNext, WatchdogChecks,
           WatchdogFires, StopSetsFlag, StopNotifies, SpuriousWakeup, ghosts
  <2> QED
    BY <1>1, <2>1, <2>2, <2>3 DEF Next, vars
<1> QED
  BY <1>1, Invariance, PTL DEF Spec, CompletedInOrder

----------------------------------------------------------------------------
(* The wakeups.  That a drained queue has woken its watcher, and that the  *)
(* awake senders are enough for what is ready, rests on what a thread that *)
(* holds the mutex on its way to sleep saw: nothing moved since its test.  *)

Awake == {s \in Sender : pc[s] = "get"} \ waiting

Blocked(t) == pc[t] \in {"add_block", "get_block"}

Settled ==
    /\ \A t \in Thread : Blocked(t) => m = t
    /\ pc[Watcher] = "add_block" => Size >= Capacity
    /\ \A s \in Sender : pc[s] = "get_block" => Eligible = {}
    /\ \A s \in waiting \cap Sender : pc[s] = "get"

WakeInv ==
    /\ IInv
    /\ Settled
    /\ WatcherNotForgotten
    /\ WakeupsSuffice

(* The entries are finitely many, their paths are no more of them. *)
LEMMA PathsCounted ==
    ASSUME TypeOK, NEW S \in SUBSET Ops
    PROVE  /\ IsFiniteSet(S) /\ Cardinality(S) \in Nat
           /\ IsFiniteSet(PathsOf(S)) /\ Cardinality(PathsOf(S)) \in Nat
<1>1. IsFiniteSet(0 .. id_counter - 1)
  BY FS_Interval DEF TypeOK
<1>2. IsFiniteSet(S)
  <2>1. S \in SUBSET (0 .. id_counter - 1)
    BY DEF TypeOK
  <2> QED
    BY <1>1, <2>1, FS_Subset
<1> DEFINE f == [i \in S |-> queue[i].path]
<1>3. f \in Surjection(S, PathsOf(S))
  BY DEF Surjection, PathsOf
<1>4. IsFiniteSet(PathsOf(S))
  <2> HIDE DEF f
  <2> QED
    BY <1>2, <1>3, FS_Surjection
<1> QED
  BY <1>2, <1>4, FS_CardinalityType

(* The threads are finitely many (the vector senders_pool). *)
LEMMA AwakeCounted ==
    ASSUME NEW S \in SUBSET Sender
    PROVE  IsFiniteSet(S) /\ Cardinality(S) \in Nat
  BY ThreadAssumption, FS_Subset, FS_CardinalityType

(* Nothing waits and nothing sleeps at first. *)
LEMMA WakeInit == Init => WakeInv
  BY InvInit, ThreadAssumption
     DEF Init, WakeInv, Settled, Blocked, WatcherNotForgotten, WakeupsSuffice,
         Thread

(* While the mutex is free no thread is on its way to sleep. *)
LEMMA NoneBlocked ==
    ASSUME TypeOK, Settled, m = NoThread
    PROVE  \A t \in Thread : ~Blocked(t)
  BY ThreadAssumption DEF Settled, Thread

(* notify_all leaves nobody to forget. *)
LEMMA WakeNotified ==
    ASSUME waiting' = {}
    PROVE  WatcherNotForgotten' /\ WakeupsSuffice'
  BY DEF WatcherNotForgotten, WakeupsSuffice

(* A step that moves no operation, puts nobody to sleep and makes no       *)
(* sender leave the wait loop keeps the two promises.                      *)
LEMMA WakeUnmoved ==
    ASSUME WakeInv, TypeOK', waiting' \subseteq waiting,
           Awake \subseteq Awake' \/ ~keep_going' \/ Eligible = {},
           UNCHANGED <<queue, processing_files>>,
           keep_going' => keep_going
    PROVE  WatcherNotForgotten' /\ WakeupsSuffice'
<1>1. Size' = Size /\ Eligible' = Eligible
      /\ PathsOf(Eligible)' = PathsOf(Eligible)
  BY DEF Size, Eligible, Ops, PathsOf
<1>2. WatcherNotForgotten'
  BY <1>1 DEF WakeInv, WatcherNotForgotten
<1>3. ASSUME keep_going', waiting' \cap Sender # {}
      PROVE  Cardinality(PathsOf(Eligible)) <= Cardinality(Awake')
  <2>1. Cardinality(PathsOf(Eligible)) <= Cardinality(Awake)
    BY <1>3 DEF WakeInv, WakeupsSuffice, Awake
  <2>2. /\ Cardinality(Awake) \in Nat /\ Cardinality(Awake') \in Nat
        /\ IsFiniteSet(Awake')
    <3>1. Awake \in SUBSET Sender /\ Awake' \in SUBSET Sender
      BY DEF Awake
    <3> QED
      BY <3>1, AwakeCounted
  <2>3. IsFiniteSet(PathsOf(Eligible)) /\ Cardinality(PathsOf(Eligible)) \in Nat
    <3>1. TypeOK /\ Eligible \in SUBSET Ops
      BY DEF Eligible, WakeInv, IInv
    <3> QED
      BY <3>1, PathsCounted
  <2>4. CASE Eligible = {}
    <3>1. PathsOf(Eligible) = {}
      BY <2>4 DEF PathsOf
    <3> QED
      BY <3>1, <2>2, FS_EmptySet
  <2>5. CASE Awake \subseteq Awake'
    <3>1. Cardinality(Awake) <= Cardinality(Awake')
      BY <2>2, <2>5, FS_Subset
    <3> QED
      BY <2>1, <2>2, <2>3, <3>1
  <2> QED
    BY <1>3, <2>4, <2>5
<1> QED
  BY <1>1, <1>2, <1>3 DEF WakeupsSuffice, Awake

(* get_file_operation takes one ready path and one awake sender. *)
LEMMA WakeTakes ==
    ASSUME WakeInv, TypeOK', NEW s \in Sender, GetTakes(s)
    PROVE  WatcherNotForgotten' /\ WakeupsSuffice'
<1>1. PICK i \in Eligible :
        /\ queue' = [queue EXCEPT ![i].processing = TRUE]
        /\ processing_files' = processing_files \cup {queue[i].path}
  BY DEF GetTakes
<1>2. /\ i \in Ops /\ s \in Awake
      /\ waiting' = waiting /\ keep_going' = keep_going
      /\ TypeOK /\ TypeOK'
      /\ pc' = [pc EXCEPT ![s] = "busy"]
  BY DEF GetTakes, AtTest, Eligible, Awake, WakeInv, IInv
<1>3. /\ Ops' = Ops
      /\ \A j \in Ops : /\ queue'[j].path = queue[j].path
                        /\ queue'[j].processing <=> j = i \/ queue[j].processing
  BY <1>1, <1>2 DEF Ops, TypeOK, Operation
<1>4. WatcherNotForgotten'
  <2>1. Size' = Size
    BY <1>3 DEF Size
  <2> QED
    BY <1>2, <2>1 DEF WakeInv, WatcherNotForgotten
<1>5. PathsOf(Eligible)' = PathsOf(Eligible) \ {queue[i].path}
  <2>1. Eligible' = {j \in Eligible : queue[j].path # queue[i].path}
    BY <1>1, <1>2, <1>3 DEF Eligible
  <2>2. \A j \in Eligible : j \in Ops
    BY DEF Eligible
  <2> QED
    BY <1>3, <2>1, <2>2 DEF PathsOf
<1>6. Awake' = Awake \ {s}
  BY <1>2 DEF Awake, TypeOK, Thread
<1>7. ASSUME keep_going, waiting \cap Sender # {}
      PROVE  Cardinality(PathsOf(Eligible)') <= Cardinality(Awake')
  <2>1. Cardinality(PathsOf(Eligible)) <= Cardinality(Awake)
    BY <1>7 DEF WakeInv, WakeupsSuffice, Awake
  <2>2. IsFiniteSet(PathsOf(Eligible)) /\ Cardinality(PathsOf(Eligible)) \in Nat
    <3>1. Eligible \in SUBSET Ops
      BY DEF Eligible
    <3> QED
      BY <1>2, <3>1, PathsCounted
  <2>3. IsFiniteSet(Awake) /\ Cardinality(Awake) \in Nat
    BY AwakeCounted DEF Awake
  <2>4. Cardinality(PathsOf(Eligible)') = Cardinality(PathsOf(Eligible)) - 1
    <3>1. queue[i].path \in PathsOf(Eligible)
      BY <1>1 DEF PathsOf
    <3> QED
      BY <1>5, <2>2, <3>1, FS_RemoveElement
  <2>5. Cardinality(Awake') = Cardinality(Awake) - 1
    BY <1>2, <1>6, <2>3, FS_RemoveElement
  <2> QED
    BY <2>1, <2>2, <2>3, <2>4, <2>5
<1> QED
  BY <1>2, <1>4, <1>7 DEF WakeupsSuffice, Awake

(* remove_file_operation may release one path; its sender is awake again.  *)
(* It stays silent only where the queue keeps at least NotifyBelow - 1.    *)
LEMMA WakeRemoves ==
    ASSUME WakeInv, TypeOK', NEW s \in Sender, RemoveFileOperation(s)
    PROVE  WatcherNotForgotten' /\ WakeupsSuffice'
<1>1. CASE RemoveNotifies
  BY <1>1, WakeNotified DEF RemoveFileOperation, NotifyAll
<1>2. CASE ~RemoveNotifies
  <2>1. s \in Busy /\ IInv /\ TypeOK
    BY DEF RemoveFileOperation, Busy, WakeInv, IInv
  <2>2. PICK h, q : /\ h = held[s] /\ h \in Ops /\ q = queue[h].path
                    /\ RemovedBy(s) = {h} /\ Released(s) = {q}
    BY <2>1, BusyHolds DEF RemovedBy, Released
  <2>3. /\ Ops' = Ops \ {h}
        /\ \A j \in Ops' : queue'[j] = queue[j]
        /\ processing_files' = processing_files \ {q}
        /\ waiting' = waiting /\ keep_going' = keep_going
        /\ pc' = [pc EXCEPT ![s] = "get"]
    BY <1>2, <2>2 DEF RemoveFileOperation, Ops
  <2>4. WatcherNotForgotten'
    <3>1. IsFiniteSet(Ops) /\ Size \in Nat
      BY <2>1, PathsCounted DEF Size
    <3>2. Size' = Size - 1
      BY <2>2, <2>3, <3>1, FS_RemoveElement DEF Size
    <3> QED
      BY <1>2, <3>1, <3>2, SizeAssumption
         DEF WatcherNotForgotten, RemoveNotifies
  <2>5. PathsOf(Eligible)' \subseteq PathsOf(Eligible) \cup {q}
    <3>1. \A j \in Eligible' : /\ j \in Ops /\ queue'[j] = queue[j]
                               /\ j \in Eligible \/ queue[j].path = q
      BY <2>3 DEF Eligible
    <3> QED
      BY <3>1 DEF PathsOf
  <2>6. Awake' = Awake \cup {s} /\ s \notin Awake
    <3>1. s \notin waiting
      BY <2>1 DEF WakeInv, Settled, Busy
    <3> QED
      BY <2>1, <2>3, <3>1 DEF Awake, TypeOK, Thread, Busy
  <2>7. ASSUME keep_going, waiting \cap Sender # {}
        PROVE  Cardinality(PathsOf(Eligible)') <= Cardinality(Awake')
    <3>1. Cardinality(PathsOf(Eligible)) <= Cardinality(Awake)
      BY <2>7 DEF WakeInv, WakeupsSuffice, Awake
    <3>2. /\ IsFiniteSet(PathsOf(Eligible))
          /\ Cardinality(PathsOf(Eligible)) \in Nat
      <4>1. Eligible \in SUBSET Ops
        BY DEF Eligible
      <4> QED
        BY <2>1, <4>1, PathsCounted
    <3>3. IsFiniteSet(Awake) /\ Cardinality(Awake) \in Nat
      BY AwakeCounted DEF Awake
    <3>4. Cardinality(PathsOf(Eligible)') <= Cardinality(PathsOf(Eligible)) + 1
          /\ Cardinality(PathsOf(Eligible)') \in Nat
      <4> DEFINE U == PathsOf(Eligible) \cup {q}
      <4>1. /\ IsFiniteSet(U) /\ Cardinality(U) \in Nat
            /\ Cardinality(U) <= Cardinality(PathsOf(Eligible)) + 1
        <5>1. /\ IsFiniteSet(U)
              /\ Cardinality(U) = IF q \in PathsOf(Eligible)
                                  THEN Cardinality(PathsOf(Eligible))
                                  ELSE Cardinality(PathsOf(Eligible)) + 1
          BY <3>2, FS_AddElement
        <5> QED
          BY <3>2, <5>1
      <4>2. /\ IsFiniteSet(PathsOf(Eligible)')
            /\ Cardinality(PathsOf(Eligible)') <= Cardinality(U)
        BY <2>5, <4>1, FS_Subset
      <4>3. Cardinality(PathsOf(Eligible)') \in Nat
        BY <4>2, FS_CardinalityType
      <4> HIDE DEF U
      <4> QED
        BY <3>2, <4>1, <4>2, <4>3
    <3>5. Cardinality(Awake') = Cardinality(Awake) + 1
      BY <2>6, <3>3, FS_AddElement
    <3> QED
      BY <3>1, <3>2, <3>3, <3>4, <3>5
  <2> QED
    BY <2>3, <2>4, <2>7 DEF WakeupsSuffice, Awake
<1> QED
  BY <1>1, <1>2

(* A step that leaves the mutex free leaves nobody on the way to sleep. *)
LEMMA SettledFree ==
    ASSUME TypeOK', \A t \in Thread : ~Blocked(t)',
           \A s \in waiting' \cap Sender : pc'[s] = "get"
    PROVE  Settled'
  BY DEF Settled, Blocked, Thread

(* What the watcher does keeps the three invariants. *)
LEMMA WakeWatcher ==
    ASSUME WakeInv, TypeOK', WatcherNext
    PROVE  Settled' /\ WatcherNotForgotten' /\ WakeupsSuffice'
<1> USE ThreadAssumption DEF queueVars, ghosts
<1>0. TypeOK /\ Settled /\ Watcher \in Thread
  BY DEF WakeInv, IInv, Thread
<1>1. CASE AddAccepts
  <2>1. \A t \in Thread : ~Blocked(t)'
    BY <1>0, <1>1, NoneBlocked DEF AddAccepts, AtTest, Blocked, TypeOK
  <2>2. waiting' = {}
    BY <1>1 DEF AddAccepts, NotifyAll
  <2> QED
    BY <2>1, <2>2, SettledFree, WakeNotified
<1>2. CASE (\E p \in Path : CallAdd(p)) \/ AddCrashes \/ AddThrows
  <2>1. /\ UNCHANGED <<queue, processing_files, m, waiting, keep_going>>
        /\ \A t \in Thread : Blocked(t)' <=> Blocked(t)
        /\ pc'[Watcher] \in {"idle", "add"}
        /\ \A s \in Sender : pc'[s] = pc[s]
    BY <1>0, <1>2 DEF CallAdd, AddCrashes, AddThrows, AtTest, Blocked, TypeOK,
                      Thread
  <2>2. Size' = Size /\ Eligible' = Eligible /\ Awake' = Awake
    BY <2>1 DEF Size, Eligible, Ops, Awake
  <2>3. Settled'
    BY <1>0, <2>1, <2>2 DEF Settled
  <2> QED
    BY <2>1, <2>2, <2>3, WakeUnmoved
<1>3. CASE AddDecidesToWait
  <2>1. /\ UNCHANGED <<queue, processing_files, waiting, keep_going>>
        /\ m' = Watcher /\ Size >= Capacity
        /\ pc' = [pc EXCEPT ![Watcher] = "add_block"]
        /\ \A t \in Thread : ~Blocked(t)
    BY <1>0, <1>3, NoneBlocked DEF AddDecidesToWait, AtTest
  <2>2. Size' = Size /\ Eligible' = Eligible /\ Awake' = Awake
    BY <1>0, <2>1 DEF Size, Eligible, Ops, Awake, TypeOK, Thread
  <2>3. Settled'
    BY <1>0, <2>1, <2>2 DEF Settled, Blocked, TypeOK, Thread
  <2> QED
    BY <2>1, <2>2, <2>3, WakeUnmoved
<1>4. CASE AddWaits
  <2>1. /\ UNCHANGED <<queue, processing_files, keep_going>>
        /\ m = Watcher /\ Size >= Capacity
        /\ waiting' = waiting \cup {Watcher}
        /\ pc' = [pc EXCEPT ![Watcher] = "add"]
    BY <1>0, <1>4 DEF AddWaits, Waits, Settled
  <2>2. \A t \in Thread : ~Blocked(t)'
    BY <1>0, <2>1 DEF Settled, Blocked, TypeOK
  <2>3. Settled'
    BY <1>0, <2>1, <2>2, SettledFree DEF Settled, TypeOK, Thread
  <2>4. /\ Size' = Size /\ Awake' = Awake
        /\ PathsOf(Eligible)' = PathsOf(Eligible)
        /\ waiting' \cap Sender = waiting \cap Sender
    BY <1>0, <2>1 DEF Size, Eligible, Ops, PathsOf, Awake, TypeOK, Thread
  <2>5. WakeupsSuffice'
    BY <2>1, <2>4 DEF WakeInv, WakeupsSuffice, Awake
  <2>6. Size >= NotifyBelow - 1
    <3>1. Size \in Nat
      BY <1>0, PathsCounted DEF Size
    <3> QED
      BY <2>1, <3>1, SizeAssumption
  <2> QED
    BY <2>3, <2>4, <2>5, <2>6 DEF WatcherNotForgotten
<1> QED
  BY <1>1, <1>2, <1>3, <1>4 DEF WatcherNext

(* What a sender does keeps the three invariants. *)
LEMMA WakeSender ==
    ASSUME WakeInv, TypeOK', NEW s \in Sender, SenderNext(s)
    PROVE  Settled' /\ WatcherNotForgotten' /\ WakeupsSuffice'
<1> USE ThreadAssumption DEF queueVars, ghosts
<1>0. TypeOK /\ Settled /\ s \in Thread /\ s # Watcher
  BY DEF WakeInv, IInv, Thread
<1>1. CASE GetTakes(s) \/ FreeFileOperation(s) \/ RemoveFileOperation(s)
  <2>1. /\ \A t \in Thread : ~Blocked(t)
        /\ waiting' \subseteq waiting
        /\ \/ pc' = [pc EXCEPT ![s] = "busy"] /\ s \notin waiting
           \/ pc' = [pc EXCEPT ![s] = "get"]
    BY <1>0, <1>1, NoneBlocked
       DEF GetTakes, FreeFileOperation, RemoveFileOperation, AtTest, NotifyAll
  <2>2. Settled'
    <3>1. \A t \in Thread : ~Blocked(t)'
      BY <1>0, <2>1 DEF Blocked, TypeOK
    <3>2. \A t \in waiting' \cap Sender : pc'[t] = "get"
      BY <1>0, <2>1 DEF Settled, TypeOK, Thread
    <3> QED
      BY <3>1, <3>2, SettledFree
  <2>3. CASE GetTakes(s)
    BY <2>2, <2>3, WakeTakes
  <2>4. CASE FreeFileOperation(s)
    BY <2>2, <2>4, WakeNotified DEF FreeFileOperation, NotifyAll
  <2>5. CASE RemoveFileOperation(s)
    BY <2>2, <2>5, WakeRemoves
  <2> QED
    BY <1>1, <2>3, <2>4, <2>5
<1>2. CASE GetThrows(s)
  <2>1. /\ UNCHANGED <<queue, processing_files, waiting, keep_going>>
        /\ ~keep_going /\ s \notin waiting
        /\ pc' = [pc EXCEPT ![s] = "exited"]
        /\ \A t \in Thread : ~Blocked(t)
    BY <1>0, <1>2, NoneBlocked DEF GetThrows, AtTest, Stopped
  <2>2. Settled'
    <3>1. \A t \in Thread : ~Blocked(t)'
      BY <1>0, <2>1 DEF Blocked, TypeOK
    <3>2. \A t \in waiting' \cap Sender : pc'[t] = "get"
      BY <1>0, <2>1 DEF Settled, TypeOK, Thread
    <3> QED
      BY <3>1, <3>2, SettledFree
  <2> QED
    BY <2>1, <2>2, WakeUnmoved
<1>3. CASE GetDecidesToWait(s)
  <2>1. /\ UNCHANGED <<queue, processing_files, waiting, keep_going>>
        /\ m' = s /\ Eligible = {} /\ s \notin waiting
        /\ pc' = [pc EXCEPT ![s] = "get_block"]
        /\ \A t \in Thread : ~Blocked(t)
    BY <1>0, <1>3, NoneBlocked DEF GetDecidesToWait, AtTest
  <2>2. Size' = Size /\ Eligible' = Eligible
    BY <2>1 DEF Size, Eligible, Ops
  <2>3. Settled'
    BY <1>0, <2>1, <2>2 DEF Settled, Blocked, TypeOK, Thread
  <2> QED
    BY <2>1, <2>3, WakeUnmoved
<1>4. CASE GetWaits(s)
  <2>1. /\ UNCHANGED <<queue, processing_files, keep_going>>
        /\ m = s /\ Eligible = {} /\ pc[s] = "get_block"
        /\ waiting' = waiting \cup {s}
        /\ pc' = [pc EXCEPT ![s] = "get"]
    BY <1>0, <1>4 DEF GetWaits, Waits, Settled
  <2>2. \A t \in Thread : ~Blocked(t)'
    BY <1>0, <2>1 DEF Settled, Blocked, TypeOK
  <2>3. Settled'
    BY <1>0, <2>1, <2>2, SettledFree DEF Settled, TypeOK, Thread
  <2>4. Size' = Size /\ PathsOf(Eligible)' = {}
    BY <2>1 DEF Size, Eligible, Ops, PathsOf
  <2>5. WatcherNotForgotten'
    BY <1>0, <2>1, <2>4 DEF WakeInv, WatcherNotForgotten
  <2>6. WakeupsSuffice'
    <3>1. Cardinality(Awake') \in Nat
      BY AwakeCounted DEF Awake
    <3> QED
      BY <2>4, <3>1, FS_EmptySet DEF WakeupsSuffice, Awake
  <2> QED
    BY <2>3, <2>5, <2>6
<1> QED
  BY <1>1, <1>2, <1>3, <1>4 DEF SenderNext

(* Wakeups, the watchdog and stop() keep the three invariants. *)
LEMMA WakeSystem ==
    ASSUME WakeInv, TypeOK', SystemNext \/ UNCHANGED vars
    PROVE  Settled' /\ WatcherNotForgotten' /\ WakeupsSuffice'
<1>1. /\ UNCHANGED <<queue, processing_files, m, pc>>
      /\ waiting' \subseteq waiting
      /\ keep_going' => keep_going
  BY DEF SystemNext, WatchdogChecks, WatchdogFires, StopSetsFlag, StopNotifies,
         SpuriousWakeup, NotifyAll, queueVars, vars
<1>2. Size' = Size /\ Eligible' = Eligible /\ Awake \subseteq Awake'
  BY <1>1 DEF Size, Eligible, Ops, Awake
<1>3. Settled'
  BY <1>1, <1>2 DEF WakeInv, Settled, Blocked
<1> QED
  BY <1>1, <1>2, <1>3, WakeUnmoved

(* The wakeup invariant holds in every state. *)
LEMMA WakeInvariance == Spec => []WakeInv
<1>1. WakeInv /\ [Next]_vars => WakeInv'
  <2> SUFFICES ASSUME WakeInv, [Next]_vars PROVE WakeInv'
    OBVIOUS
  <2>1. IInv'
    BY InvNext DEF WakeInv
  <2>2. TypeOK'
    BY <2>1 DEF IInv
  <2>3. Settled' /\ WatcherNotForgotten' /\ WakeupsSuffice'
    BY <2>2, WakeWatcher, WakeSender, WakeSystem DEF Next
  <2> QED
    BY <2>1, <2>3 DEF WakeInv
<1> QED
  BY WakeInit, <1>1, PTL DEF Spec

(* The watcher asleep on a full queue is woken by the removal that drains  *)
(* it: for every capacity and every mark, not only for 100 and 75.         *)
THEOREM WatcherWoken == Spec => []WatcherNotForgotten
<1>1. WakeInv => WatcherNotForgotten
  BY DEF WakeInv
<1> QED
  BY <1>1, WakeInvariance, PTL

(* However many senders sleep, those awake are enough for the paths that   *)
(* have an operation ready: no notification that matters is left out.      *)
THEOREM EnoughAwake == Spec => []WakeupsSuffice
<1>1. WakeInv => WakeupsSuffice
  BY DEF WakeInv
<1> QED
  BY <1>1, WakeInvariance, PTL

----------------------------------------------------------------------------
(* The implementation of PathMailbox.                                      *)

BacklogBar == [p \in Path |-> OpsOn(p)]
SendingOn(p) == {i \in OpsOn(p) : queue[i].processing}
SendingBar == [p \in Path |-> SendingOn(p)]

(* A step that moves neither an operation nor the flag is a stutter. *)
LEMMA MailboxStutter ==
    ASSUME UNCHANGED <<queue, id_counter, keep_going>>
    PROVE  UNCHANGED Mailbox!mailboxVars
  BY DEF Mailbox!mailboxVars, OpsOn, Ops

(* add_file_operation is a Put, whatever it overwrites. *)
LEMMA MailboxPut ==
    ASSUME IInv, AddAccepts
    PROVE  Mailbox!Put(arg)
<1> USE DEF IInv
<1>0. PICK a \in Path : a = arg
  BY DEF TypeOK
<1>1. /\ Ops' = (Ops \ Overwritten(arg)) \cup {id_counter}
      /\ id_counter' = id_counter + 1
      /\ keep_going /\ UNCHANGED keep_going
  BY DEF AddAccepts, NextId, Ops
<1>2. id_counter \notin Ops /\ arg \in Path
  BY DEF TypeOK
<1>3. queue'[id_counter].path = arg /\ ~queue'[id_counter].processing
  BY <1>1 DEF AddAccepts
<1>4. ASSUME NEW i \in Ops', i # id_counter
      PROVE  /\ i \in Ops
             /\ queue'[i].path = queue[i].path
             /\ queue'[i].processing = queue[i].processing
             /\ queue[i].path = arg => queue[i].processing
  <2>1. i \in Ops /\ i \notin Overwritten(arg) /\ queue[i] \in Operation
    BY <1>1, <1>4 DEF TypeOK
  <2>2. queue'[i] = [queue[i] EXCEPT !.abort = AbortAfterAdd(i, arg)]
    BY <1>1, <1>4 DEF AddAccepts
  <2> QED
    BY <2>1, <2>2 DEF AbortAfterAdd, Operation, Overwritten, OpsOn
<1>5. ASSUME NEW i \in Ops, queue[i].processing \/ queue[i].path # arg
      PROVE  i \in Ops' /\ i # id_counter
  BY <1>1, <1>2, <1>5 DEF Overwritten, OpsOn
<1>6. BacklogBar' = [BacklogBar EXCEPT ![a] = SendingBar[a] \cup {id_counter}]
  <2>1. OpsOn(a)' = SendingOn(a) \cup {id_counter}
    <3>1. OpsOn(a)' \subseteq SendingOn(a) \cup {id_counter}
      BY <1>0, <1>1, <1>4 DEF OpsOn, SendingOn
    <3>2. SendingOn(a) \subseteq OpsOn(a)'
      BY <1>0, <1>1, <1>4, <1>5 DEF OpsOn, SendingOn
    <3>3. id_counter \in OpsOn(a)'
      BY <1>0, <1>1, <1>3 DEF OpsOn
    <3> QED
      BY <3>1, <3>2, <3>3
  <2>3. SendingBar[a] = SendingOn(a)
    BY <1>0, <1>2 DEF SendingBar
  <2>2. \A p \in Path \ {a} : OpsOn(p)' = OpsOn(p)
    BY <1>0, <1>1, <1>3, <1>4, <1>5 DEF OpsOn
  <2> HIDE DEF IInv
  <2> QED
    BY <1>0, <1>2, <2>1, <2>2, <2>3 DEF BacklogBar
<1>7. SendingBar' = SendingBar
  <2>1. \A p \in Path : SendingOn(p)' = SendingOn(p)
    BY <1>0, <1>1, <1>3, <1>4, <1>5 DEF OpsOn, SendingOn
  <2> QED
    BY <2>1 DEF SendingBar
<1> QED
  BY <1>0, <1>1, <1>6, <1>7 DEF Mailbox!Put, BacklogBar, SendingBar, SendingOn

(* get_file_operation is a Take of the oldest operation of an idle path. *)
LEMMA MailboxTake ==
    ASSUME IInv, NEW s \in Sender, GetTakes(s)
    PROVE  \E p \in Path : Mailbox!Take(p)
<1> USE DEF IInv
<1>1. PICK i \in Eligible :
        /\ FirstFound(i)
        /\ queue' = [queue EXCEPT ![i].processing = TRUE]
  BY DEF GetTakes
<1>0. PICK p \in Path : p = queue[i].path
  BY DEF Eligible, TypeOK, Operation
<1>2. /\ i \in Ops /\ i \in Int /\ p \in Path /\ p \notin processing_files
  BY <1>0 DEF Eligible, TypeOK, Operation
<1>3. /\ Ops' = Ops
      /\ keep_going /\ UNCHANGED <<id_counter, keep_going>>
      /\ \A j \in Ops : /\ queue'[j].path = queue[j].path
                        /\ queue'[j].processing <=> j = i \/ queue[j].processing
  BY <1>1, <1>2 DEF GetTakes, ghosts, Ops, TypeOK, Operation
<1>4. \A j \in OpsOn(p) : ~queue[j].processing
  BY <1>0, <1>2 DEF Reserved, Sent, OpsOn
<1>5. i \in OpsOn(p) /\ \A j \in OpsOn(p) : i <= j
  BY <1>0, <1>1, <1>2, <1>4 DEF Eligible, FirstFound, OpsOn
<1>6. BacklogBar' = BacklogBar
  <2>1. \A r \in Path : OpsOn(r)' = OpsOn(r)
    BY <1>3 DEF OpsOn
  <2> QED
    BY <2>1 DEF BacklogBar
<1>7. SendingOn(p) = {} /\ SendingBar' = [SendingBar EXCEPT ![p] = {i}]
  <2>1. SendingOn(p) = {}
    BY <1>0, <1>4 DEF SendingOn
  <2>2. SendingOn(p)' = {i}
    BY <1>0, <1>2, <1>3, <1>4, <1>5 DEF OpsOn, SendingOn
  <2>3. \A r \in Path \ {p} : SendingOn(r)' = SendingOn(r)
    BY <1>0, <1>2, <1>3 DEF OpsOn, SendingOn
  <2> HIDE DEF IInv
  <2> QED
    BY <1>0, <1>2, <2>1, <2>2, <2>3 DEF SendingBar
<1>8. Mailbox!Take(p)
  <2>1. BacklogBar[p] = OpsOn(p) /\ SendingBar[p] = {}
    BY <1>0, <1>2, <1>7 DEF BacklogBar, SendingBar
  <2> HIDE DEF IInv
  <2>2. \E j \in BacklogBar[p] :
          /\ \A k \in BacklogBar[p] : j <= k
          /\ SendingBar' = [SendingBar EXCEPT ![p] = {j}]
    BY <1>5, <1>7, <2>1
  <2> QED
    BY <1>3, <1>6, <2>1, <2>2
       DEF Mailbox!Take, BacklogBar, SendingBar, SendingOn
<1> QED
  BY <1>0, <1>2, <1>8

(* remove_file_operation is a Done of what its sender was sending. *)
LEMMA MailboxDone ==
    ASSUME IInv, NEW s \in Sender, RemoveFileOperation(s)
    PROVE  \E p \in Path : Mailbox!Done(p)
<1>1. s \in Busy
  BY DEF RemoveFileOperation, Busy
<1>2. PICK h, q : /\ h = held[s] /\ h \in Ops /\ Sent(h)
                  /\ q = queue[h].path /\ q \in Path /\ RemovedBy(s) = {h}
  BY <1>1, BusyHolds DEF RemovedBy
<1>3. /\ Ops' = Ops \ {h}
      /\ \A j \in Ops' : queue'[j] = queue[j]
      /\ UNCHANGED <<id_counter, keep_going>>
  BY <1>2 DEF RemoveFileOperation, Ops
<1>4. SendingOn(q) = {h}
  <2>1. h \in SendingOn(q)
    BY <1>2 DEF SendingOn, OpsOn, Sent
  <2>2. ASSUME NEW j \in SendingOn(q) PROVE j = h
    <3>1. j \in Ops /\ Sent(j) /\ queue[j].path = q
      BY <2>2 DEF SendingOn, OpsOn, Sent
    <3>2. j <= h /\ h <= j
      BY <1>2, <3>1 DEF IInv, SentIsOldest
    <3> QED
      BY <1>2, <3>1, <3>2 DEF IInv, TypeOK
  <2> QED
    BY <2>1, <2>2
<1>5. BacklogBar' = [BacklogBar EXCEPT ![q] = @ \ SendingBar[q]]
  <2>1. OpsOn(q)' = OpsOn(q) \ {h}
    BY <1>2, <1>3 DEF OpsOn
  <2>2. \A r \in Path \ {q} : OpsOn(r)' = OpsOn(r)
    BY <1>2, <1>3 DEF OpsOn
  <2> QED
    BY <1>2, <1>4, <2>1, <2>2 DEF BacklogBar, SendingBar
<1>6. SendingBar' = [SendingBar EXCEPT ![q] = {}]
  <2>1. SendingOn(q)' = SendingOn(q) \ {h}
    BY <1>3 DEF OpsOn, SendingOn
  <2>2. \A r \in Path \ {q} : SendingOn(r)' = SendingOn(r)
    BY <1>2, <1>3 DEF OpsOn, SendingOn
  <2> QED
    BY <1>2, <1>4, <2>1, <2>2 DEF SendingBar
<1>7. SendingBar[q] # {}
  BY <1>2, <1>4 DEF SendingBar
<1>8. Mailbox!Done(q)
  BY <1>3, <1>5, <1>6, <1>7
     DEF Mailbox!Done, BacklogBar, SendingBar, SendingOn
<1> QED
  BY <1>2, <1>8

(* free_file_operation is a Retry of what its sender was sending. *)
LEMMA MailboxRetry ==
    ASSUME IInv, NEW s \in Sender, FreeFileOperation(s)
    PROVE  \E p \in Path : Mailbox!Retry(p)
<1>1. s \in Busy
  BY DEF FreeFileOperation, Busy
<1>2. PICK h, q : /\ h = held[s] /\ h \in Ops /\ Sent(h)
                  /\ q = queue[h].path /\ q \in Path
  BY <1>1, BusyHolds
<1>3. Ops' = Ops /\ UNCHANGED <<id_counter, keep_going>>
  BY DEF FreeFileOperation, Ops
<1>4. ASSUME NEW j \in Ops
      PROVE  /\ queue'[j].path = queue[j].path
             /\ queue'[j].processing <=> queue[j].processing /\ j # h
  <2>1. queue[j] \in Operation
    BY DEF IInv, TypeOK
  <2>2. queue'[j] = [queue[j] EXCEPT !.processing = @ /\ j # held[s]]
    BY DEF FreeFileOperation
  <2> QED
    BY <1>2, <2>1, <2>2 DEF Operation
<1>5. BacklogBar' = BacklogBar
  <2>1. \A r \in Path : OpsOn(r)' = OpsOn(r)
    BY <1>3, <1>4 DEF OpsOn
  <2> QED
    BY <2>1 DEF BacklogBar
<1>6. SendingBar' = [SendingBar EXCEPT ![q] = {}]
  <2>1. SendingOn(q)' = {}
    <3>1. ASSUME NEW j \in Ops, Sent(j), queue[j].path = q PROVE j = h
      <4>1. j <= h /\ h <= j
        BY <1>2, <3>1 DEF IInv, SentIsOldest
      <4> QED
        BY <1>2, <3>1, <4>1 DEF IInv, TypeOK
    <3> QED
      BY <1>3, <1>4, <3>1 DEF SendingOn, OpsOn, Sent
  <2>2. \A r \in Path \ {q} : SendingOn(r)' = SendingOn(r)
    BY <1>2, <1>3, <1>4 DEF OpsOn, SendingOn
  <2> QED
    BY <1>2, <2>1, <2>2 DEF SendingBar
<1>7. SendingBar[q] # {}
  BY <1>2 DEF SendingBar, SendingOn, OpsOn, Sent
<1>8. Mailbox!Retry(q)
  BY <1>3, <1>5, <1>6, <1>7
     DEF Mailbox!Retry, BacklogBar, SendingBar, SendingOn
<1> QED
  BY <1>2, <1>8

(* The first flag of stop() is a Close; every other step is a stutter. *)
LEMMA MailboxNext ==
    ASSUME IInv, [Next]_vars
    PROVE  [Mailbox!Next]_Mailbox!mailboxVars
<1> USE DEF queueVars, ghosts
<1>1. CASE WatcherNext
  <2>1. CASE AddAccepts
    BY <2>1, MailboxPut DEF Mailbox!Next, IInv, TypeOK
  <2>2. CASE ~AddAccepts
    <3>1. UNCHANGED <<queue, id_counter, keep_going>>
      BY <1>1, <2>2 DEF WatcherNext, CallAdd, AddCrashes, AddThrows,
                        AddDecidesToWait, AddWaits, Waits
    <3> QED
      BY <3>1, MailboxStutter
  <2> QED
    BY <2>1, <2>2
<1>2. ASSUME NEW s \in Sender, SenderNext(s)
      PROVE  [Mailbox!Next]_Mailbox!mailboxVars
  <2>1. CASE GetTakes(s)
    BY <2>1, MailboxTake DEF Mailbox!Next
  <2>2. CASE FreeFileOperation(s)
    BY <2>2, MailboxRetry DEF Mailbox!Next
  <2>3. CASE RemoveFileOperation(s)
    BY <2>3, MailboxDone DEF Mailbox!Next
  <2>4. CASE GetThrows(s) \/ GetDecidesToWait(s) \/ GetWaits(s)
    <3>1. UNCHANGED <<queue, id_counter, keep_going>>
      BY <2>4 DEF GetThrows, Stopped, GetDecidesToWait, GetWaits, Waits
    <3> QED
      BY <3>1, MailboxStutter
  <2> QED
    BY <1>2, <2>1, <2>2, <2>3, <2>4 DEF SenderNext
<1>3. CASE SystemNext
  <2>1. CASE StopSetsFlag /\ keep_going
    <3>1. Mailbox!Close
      BY <2>1 DEF StopSetsFlag, Mailbox!Close, OpsOn, Ops
    <3> QED
      BY <3>1 DEF Mailbox!Next
  <2>2. CASE ~(StopSetsFlag /\ keep_going)
    <3>1. UNCHANGED <<queue, id_counter, keep_going>>
      BY <1>3, <2>2 DEF IInv, TypeOK, SystemNext, WatchdogChecks,
                        WatchdogFires, StopSetsFlag, StopNotifies,
                        SpuriousWakeup
    <3> QED
      BY <3>1, MailboxStutter
  <2> QED
    BY <2>1, <2>2
<1>4. CASE UNCHANGED vars
  BY <1>4, MailboxStutter DEF vars
<1> QED
  BY <1>1, <1>2, <1>3, <1>4 DEF Next

(* The queue, with its threads, mutex, wakeups, watchdog and stop(),       *)
(* implements the per-path mailbox.                                        *)
THEOREM QueueImplementsMailbox == Spec => ImplementsMailbox
<1>1. Init => Mailbox!Init
  BY DEF Init, Mailbox!Init, OpsOn, Ops
<1> QED
  BY <1>1, MailboxNext, Invariance, PTL DEF Spec, ImplementsMailbox, Mailbox!Spec
=============================================================================
