---------------------------- MODULE OutputQueue ----------------------------
(***************************************************************************)
(* The client's queue of file operations (rb_client/src/OutputQueue.cpp):  *)
(* one watcher thread adds operations, a pool of sender threads takes them *)
(* and gives each one back as done (remove) or as failed (free).  All      *)
(* methods run under one mutex m and sleep on one condition variable cv;   *)
(* stop() and the watchdog notify cv WITHOUT the mutex, so the model keeps *)
(* "tested the predicate" and "went to sleep" as two steps, with m held in *)
(* between.  A critical section that does not sleep is one atomic action.  *)
(*                                                                         *)
(* The std::list is a function from the ids of the queued operations to    *)
(* the operations: push_back always appends the newest id and nothing is   *)
(* reordered, so list order is id order.  Command and metadata of an       *)
(* operation are never read by the queue and are left out.                 *)
(***************************************************************************)
EXTENDS Integers, FiniteSets

CONSTANTS
    Path,         \* relative paths of the watched files
    Sender,       \* the sender threads of ClientFlow
    Watcher,      \* the thread that calls add_file_operation
    NoThread,     \* "the mutex is free"
    Capacity,     \* add waits while the queue holds this many (100)
    NotifyBelow,  \* remove notifies only below this size (75)
    MaxOps        \* bound: number of operations ever accepted

ASSUME ThreadAssumption ==
    /\ Watcher \notin Sender /\ NoThread \notin Sender \cup {Watcher}
    /\ IsFiniteSet(Sender)
ASSUME SizeAssumption ==
    /\ Capacity \in Nat /\ NotifyBelow \in Nat /\ MaxOps \in Nat
    /\ 1 < NotifyBelow /\ NotifyBelow <= Capacity

Thread == Sender \cup {Watcher}

(* "No operation"; ids count from 0 as id_counter does. *)
NoOp == -1

VARIABLES
    queue,             \* id -> [path, processing, abort]
    processing_files,  \* paths some sender is working on
    id_counter,
    m,                 \* holder of the mutex, or NoThread
    waiting,           \* threads asleep on cv
    keep_going,
    watchdog,          \* the notifying thread: "sleep", "fire", "exited"
    stopping,          \* progress of stop(): "no", "flagged", "done"
    pc,                \* where each thread is
    arg,               \* the path the watcher is adding
    held,              \* the id of the operation a sender got, or NoOp
    crashed,           \* undefined behaviour ended the process
    newest,            \* history: newest id accepted for each path
    completed          \* history: last id removed as done for each path

queueVars == <<queue, processing_files, id_counter>>
ghosts    == <<newest, completed>>
vars == <<queue, processing_files, id_counter, m, waiting, keep_going,
          watchdog, stopping, pc, arg, held, crashed, newest, completed>>

Operation == [path : Path, processing : BOOLEAN, abort : BOOLEAN]

----------------------------------------------------------------------------
(* Views of the queue.                                                     *)

Ops == DOMAIN queue

Size == Cardinality(Ops)

OpsOn(p) == {i \in Ops : queue[i].path = p}

PathsOf(S) == {queue[i].path : i \in S}

(* The entry found by the id a sender passes to free or remove. *)
Mine(s) == Ops \cap {held[s]}

(* What add_file_operation overwrites: the operations on p not being sent. *)
OverwrittenAny(p)   == OpsOn(p)     \* mutant: also the one being sent
Overwritten(p) == {i \in OpsOn(p) : ~queue[i].processing}

(* The abort flag of entry i after an operation on p was added. *)
AbortNotSet(i, p) == queue[i].abort \* mutant: set_abort is missing
AbortAfterAdd(i, p) == queue[i].abort \/ queue[i].path = p

NextIdStuck == id_counter           \* mutant: id_counter++ is missing
NextId == id_counter + 1

(* What get_file_operation may hand out: not being sent, path not taken. *)
EligibleAnyPath ==                  \* mutant: processing_files not consulted
    {i \in Ops : ~queue[i].processing}
Eligible ==
    {i \in Ops : ~queue[i].processing /\ queue[i].path \notin processing_files}

(* The list is searched from the front, where the oldest entries are. *)
NewestFirst(i) ==                   \* mutant: searched from the back
    \A j \in Eligible : j <= i
FirstFound(i) == \A j \in Eligible : i <= j

(* The paths that free and remove take out of processing_files. *)
ReleasedNone(s) == {}               \* mutant: the erase is missing
Released(s) == PathsOf(Mine(s))

(* The entries remove_file_operation takes out: the one with the given id. *)
RemovedByPath(s) ==                 \* mutant: compares paths, not ids
    {i \in Ops : queue[i].path \in PathsOf(Mine(s))}
RemovedNone(s) == {}                \* mutant: the entry stays in the list
RemovedBy(s) == Mine(s)

(* remove notifies when the size, taken before the entry leaves, is below  *)
(* the mark.                                                               *)
RemoveNotifiesLate ==               \* mutant: off by one
    Size < NotifyBelow - 1
RemoveNotifies == Size < NotifyBelow

(* The threads still asleep after cv.notify_all. *)
NotifyLost == waiting               \* mutant: the notification is missing
NotifyAll == {}

----------------------------------------------------------------------------
Init ==
    /\ queue = [i \in {} |-> 0]
    /\ processing_files = {}
    /\ id_counter = 0
    /\ m = NoThread
    /\ waiting = {}
    /\ keep_going = TRUE
    /\ watchdog = "sleep"
    /\ stopping = "no"
    /\ pc = [t \in Thread |-> IF t = Watcher THEN "idle" ELSE "get"]
    /\ arg \in Path
    /\ held = [s \in Sender |-> NoOp]
    /\ crashed = FALSE
    /\ newest = [p \in Path |-> NoOp]
    /\ completed = [p \in Path |-> NoOp]

----------------------------------------------------------------------------
(* add_file_operation, called by the watcher.                              *)

(* Thread t is at the top of its wait loop and the mutex is free. *)
AtTest(t, where) == pc[t] = where /\ t \notin waiting /\ m = NoThread

(* The watcher calls add_file_operation(p, ...). *)
CallAdd(p) ==
    /\ pc[Watcher] = "idle"
    /\ id_counter < MaxOps
    /\ pc' = [pc EXCEPT ![Watcher] = "add"]
    /\ arg' = p
    /\ UNCHANGED <<queueVars, m, waiting, keep_going, watchdog, stopping,
                   held, crashed, ghosts>>

(* There is room: overwrite the pending operations on the path, ask the    *)
(* running one to abort, append the new one, notify_all.                   *)
AddAccepts ==
    /\ AtTest(Watcher, "add")
    /\ keep_going
    /\ Size < Capacity
    /\ queue' =
         [i \in (Ops \ Overwritten(arg)) \cup {id_counter} |->
            IF i = id_counter
            THEN [path |-> arg, processing |-> FALSE, abort |-> FALSE]
            ELSE [queue[i] EXCEPT !.abort = AbortAfterAdd(i, arg)]]
    /\ id_counter' = NextId
    /\ waiting' = NotifyAll
    /\ newest' = [newest EXCEPT ![arg] = id_counter]
    /\ pc' = [pc EXCEPT ![Watcher] = "idle"]
    /\ UNCHANGED <<processing_files, m, keep_going, watchdog, stopping, arg,
                   held, crashed, completed>>

(* The loop erases *it and then evaluates it++: the iterator is invalid.   *)
(* AddAccepts is the outcome where the freed node still holds its next     *)
(* pointer; in the other one the process dies on a stale pointer.          *)
AddCrashes ==
    /\ AtTest(Watcher, "add")
    /\ keep_going
    /\ Size < Capacity
    /\ Overwritten(arg) # {}
    /\ crashed' = TRUE
    /\ UNCHANGED <<queueVars, m, waiting, keep_going, watchdog, stopping, pc,
                   arg, held, ghosts>>

(* The queue is stopped: add throws RBException("stop"). *)
AddThrows ==
    /\ AtTest(Watcher, "add")
    /\ ~keep_going
    /\ pc' = [pc EXCEPT ![Watcher] = "idle"]
    /\ UNCHANGED <<queueVars, m, waiting, keep_going, watchdog, stopping, arg,
                   held, crashed, ghosts>>

(* The predicate of cv.wait is false: keep the mutex, about to sleep. *)
AddDecidesToWait ==
    /\ AtTest(Watcher, "add")
    /\ keep_going
    /\ Size >= Capacity
    /\ m' = Watcher
    /\ pc' = [pc EXCEPT ![Watcher] = "add_block"]
    /\ UNCHANGED <<queueVars, waiting, keep_going, watchdog, stopping, arg,
                   held, crashed, ghosts>>

----------------------------------------------------------------------------
(* get_file_operation, called by a sender.                                 *)

(* The first operation of the list whose path nobody is working on. *)
GetTakes(s) ==
    /\ AtTest(s, "get")
    /\ keep_going
    /\ \E i \in Eligible :
         /\ FirstFound(i)
         /\ queue' = [queue EXCEPT ![i].processing = TRUE]
         /\ processing_files' = processing_files \cup {queue[i].path}
         /\ held' = [held EXCEPT ![s] = i]
    /\ pc' = [pc EXCEPT ![s] = "busy"]
    /\ UNCHANGED <<id_counter, m, waiting, keep_going, watchdog, stopping,
                   arg, crashed, ghosts>>

(* The queue is stopped: get throws RBException("stop") and the sender     *)
(* thread leaves its loop.                                                 *)
StoppedIsRetried(s) == "get"        \* mutant: the exception is swallowed
Stopped(s) == "exited"

GetThrows(s) ==
    /\ AtTest(s, "get")
    /\ ~keep_going
    /\ pc' = [pc EXCEPT ![s] = Stopped(s)]
    /\ UNCHANGED <<queueVars, m, waiting, keep_going, watchdog, stopping, arg,
                   held, crashed, ghosts>>

(* keep_going was read, nothing can be taken: about to sleep. *)
GetDecidesToWait(s) ==
    /\ AtTest(s, "get")
    /\ keep_going
    /\ Eligible = {}
    /\ m' = s
    /\ pc' = [pc EXCEPT ![s] = "get_block"]
    /\ UNCHANGED <<queueVars, waiting, keep_going, watchdog, stopping, arg,
                   held, crashed, ghosts>>

----------------------------------------------------------------------------
(* free_file_operation and remove_file_operation, called by the sender     *)
(* that got the operation.  Both first wait for a queue that is not empty. *)

(* The operation failed: it becomes pending again at its old place. *)
FreeFileOperation(s) ==
    /\ pc[s] = "busy"
    /\ m = NoThread
    /\ Ops # {}
    /\ queue' = [i \in Ops |->
                   [queue[i] EXCEPT !.processing = @ /\ i # held[s]]]
    /\ processing_files' = processing_files \ Released(s)
    /\ waiting' = NotifyAll
    /\ pc' = [pc EXCEPT ![s] = "get"]
    /\ held' = [held EXCEPT ![s] = NoOp]
    /\ UNCHANGED <<id_counter, m, keep_going, watchdog, stopping, arg,
                   crashed, ghosts>>

(* The operation is done: it leaves the queue. *)
RemoveFileOperation(s) ==
    /\ pc[s] = "busy"
    /\ m = NoThread
    /\ Ops # {}
    /\ queue' = [i \in Ops \ RemovedBy(s) |-> queue[i]]
    /\ processing_files' = processing_files \ Released(s)
    /\ waiting' = IF RemoveNotifies THEN NotifyAll ELSE waiting
    /\ completed' = [p \in Path |->
                       IF p \in PathsOf(Mine(s)) THEN held[s] ELSE completed[p]]
    /\ pc' = [pc EXCEPT ![s] = "get"]
    /\ held' = [held EXCEPT ![s] = NoOp]
    /\ UNCHANGED <<id_counter, m, keep_going, watchdog, stopping, arg,
                   crashed, newest>>

----------------------------------------------------------------------------
(* The condition variable, the watchdog and stop().                        *)

(* cv.wait: enter the wait set and release the mutex in one step. *)
Waits(t, block, test) ==
    /\ pc[t] = block
    /\ m = t
    /\ m' = NoThread
    /\ waiting' = waiting \cup {t}
    /\ pc' = [pc EXCEPT ![t] = test]
    /\ UNCHANGED <<queueVars, keep_going, watchdog, stopping, arg, held,
                   crashed, ghosts>>

AddWaits    == Waits(Watcher, "add_block", "add")
GetWaits(s) == Waits(s, "get_block", "get")

(* A wait may end without a notification. *)
SpuriousWakeup(t) ==
    /\ t \in waiting
    /\ waiting' = waiting \ {t}
    /\ UNCHANGED <<queueVars, m, keep_going, watchdog, stopping, pc, arg,
                   held, crashed, ghosts>>

(* The watchdog ends when it sees keep_going down, else it will notify. *)
WatchdogChecks ==
    /\ watchdog = "sleep"
    /\ watchdog' = IF keep_going THEN "fire" ELSE "exited"
    /\ UNCHANGED <<queueVars, m, waiting, keep_going, stopping, pc, arg, held,
                   crashed, ghosts>>

WatchdogFires ==
    /\ watchdog = "fire"
    /\ waiting' = NotifyAll
    /\ watchdog' = "sleep"
    /\ UNCHANGED <<queueVars, m, keep_going, stopping, pc, arg, held, crashed,
                   ghosts>>

(* stop(): the flag, then notify_all; the mutex is not taken. *)
StopSetsFlag ==
    /\ stopping = "no"
    /\ keep_going' = FALSE
    /\ stopping' = "flagged"
    /\ UNCHANGED <<queueVars, m, waiting, watchdog, pc, arg, held, crashed,
                   ghosts>>

StopNotifies ==
    /\ stopping = "flagged"
    /\ waiting' = NotifyAll
    /\ stopping' = "done"
    /\ UNCHANGED <<queueVars, m, keep_going, watchdog, pc, arg, held, crashed,
                   ghosts>>

----------------------------------------------------------------------------
WatcherNext ==
    \/ \E p \in Path : CallAdd(p)
    \/ AddAccepts \/ AddCrashes \/ AddThrows \/ AddDecidesToWait \/ AddWaits

SenderNext(s) ==
    \/ GetTakes(s) \/ GetThrows(s) \/ GetDecidesToWait(s) \/ GetWaits(s)
    \/ FreeFileOperation(s) \/ RemoveFileOperation(s)

SystemNext ==
    \/ WatchdogChecks \/ WatchdogFires \/ StopSetsFlag \/ StopNotifies
    \/ \E t \in Thread : SpuriousWakeup(t)

Next ==
    /\ ~crashed
    /\ \/ WatcherNext
       \/ \E s \in Sender : SenderNext(s)
       \/ SystemNext

Spec == Init /\ [][Next]_vars

(* Every thread keeps being scheduled, and one that finds the mutex free   *)
(* again and again gets it in the end (m is only ever held for a moment).  *)
(* The watchdog is a timer.  Nothing is assumed about spurious wakeups,    *)
(* about new operations or about stop() being called.                      *)
Alive(A) == ~crashed /\ A

GetStep(s) ==
    GetTakes(s) \/ GetThrows(s) \/ GetDecidesToWait(s) \/ GetWaits(s)

AddStep ==
    AddAccepts \/ AddCrashes \/ AddThrows \/ AddDecidesToWait \/ AddWaits

Scheduling ==
    /\ SF_vars(Alive(AddStep))
    /\ \A s \in Sender : SF_vars(Alive(GetStep(s)))
    /\ WF_vars(Alive(WatchdogChecks \/ WatchdogFires))
    /\ WF_vars(Alive(StopNotifies))

(* A sender that keeps trying is answered at last: the server is up. *)
SendsSucceed == \A s \in Sender : SF_vars(Alive(RemoveFileOperation(s)))

FairSpec == Spec /\ Scheduling /\ SendsSucceed

----------------------------------------------------------------------------
(* Properties.                                                             *)

Busy == {s \in Sender : pc[s] = "busy"}

(* Types; the mutex is held exactly by a thread about to sleep. *)
TypeOK ==
    /\ Ops \subseteq 0 .. id_counter - 1
    /\ queue \in [Ops -> Operation]
    /\ processing_files \subseteq Path
    /\ id_counter \in Nat
    /\ m \in Thread \cup {NoThread}
    /\ waiting \subseteq Thread
    /\ keep_going \in BOOLEAN
    /\ watchdog \in {"sleep", "fire", "exited"}
    /\ stopping \in {"no", "flagged", "done"}
    /\ pc \in [Thread -> {"idle", "add", "add_block", "get", "get_block",
                          "busy", "exited"}]
    /\ pc[Watcher] \in {"idle", "add", "add_block"}
    /\ \A s \in Sender : pc[s] \in {"get", "get_block", "busy", "exited"}
    /\ arg \in Path
    /\ held \in [Sender -> Int]
    /\ crashed \in BOOLEAN
    /\ newest \in [Path -> Int]
    /\ completed \in [Path -> Int]

(* The operation a sender works on stays in the queue, marked, until that  *)
(* sender gives it back: add never erases it under the sender, and the     *)
(* waits of free and remove for a queue that is not empty never block.     *)
HeldOpStaysQueued ==
    \A s \in Busy : held[s] \in Ops /\ queue[held[s]].processing

(* Two senders never work on one path at the same time, not even after a   *)
(* failed operation went back and a newer one on its path was added.       *)
OneSenderPerPath ==
    \A s, t \in Busy :
        s # t => PathsOf(Mine(s)) \cap PathsOf(Mine(t)) = {}

(* processing_files holds exactly the paths being worked on: a path left   *)
(* in it would never be backed up again.                                   *)
ReservedPathsExact ==
    processing_files = UNION {PathsOf(Mine(s)) : s \in Busy}

(* An operation is told to abort exactly when a newer one on its path is   *)
(* queued behind it.  Aborting an upload deletes the server's copy, so an  *)
(* abort flag with no successor left in the queue would lose the file.     *)
AbortIffSuperseded ==
    \A i \in Ops :
        queue[i].abort <=> \E j \in OpsOn(queue[i].path) : i < j

(* The newest operation accepted for a path is never lost: whatever was    *)
(* overwritten, freed or retried, it is queued or it was done last.        *)
NewestSurvives ==
    \A p \in Path : newest[p] # NoOp =>
        newest[p] \in OpsOn(p) \/ completed[p] = newest[p]

(* The operations on one path are completed in the order of the changes:   *)
(* an older upload never lands on the server after a newer one.            *)
CompletedInOrder ==
    [][\A p \in Path : completed[p] <= completed'[p]]_completed

(* remove notifies only below 75 entries, yet no ready operation is left   *)
(* to a sleeper: while senders sleep, the awake ones are enough for every  *)
(* path that has an operation ready.                                       *)
WakeupsSuffice ==
    keep_going /\ waiting \cap Sender # {} =>
        Cardinality(PathsOf(Eligible))
            <= Cardinality({s \in Sender : pc[s] = "get"} \ waiting)

(* The watcher is never left asleep on a queue drained well below the      *)
(* mark: it sleeps at 100 and is woken by the removal that finds fewer     *)
(* than 75, without any help of the watchdog.                              *)
WatcherNotForgotten == Watcher \in waiting => Size >= NotifyBelow - 1

(* Every accepted operation is done or overwritten in the end. *)
QueuedIsServed ==
    \A i \in 0 .. MaxOps - 1 :
        (i \in Ops) ~> (i \notin Ops \/ ~keep_going \/ crashed)

(* A watcher blocked on the full queue gets its operation in. *)
AddReturns ==
    (pc[Watcher] = "add") ~> (pc[Watcher] = "idle" \/ ~keep_going \/ crashed)

(* Once stop() has notified, every sender leaves, the one that works on an *)
(* operation included.  Left out is the one the notification misses,       *)
(* between its test and its sleep: the flag is raised without the mutex.   *)
StopReleasesAwake ==
    \A s \in Sender :
        (stopping = "done" /\ s \notin waiting /\ pc[s] # "get_block")
            ~> (crashed \/ pc[s] = "exited")

(* The queue implements the per-path mailbox. *)
Mailbox == INSTANCE PathMailbox WITH
    backlog <- [p \in Path |-> OpsOn(p)],
    sending <- [p \in Path |-> {i \in OpsOn(p) : queue[i].processing}],
    next_id <- id_counter,
    open    <- keep_going

ImplementsMailbox == Mailbox!Spec
=============================================================================
