----------------------------- MODULE ClientFlow -----------------------------
(***************************************************************************)
(* The life of the client (rb_client/src/ClientFlow.cpp): start() logs in, *)
(* creates the watcher and the sender threads and waits for keep_going to  *)
(* fall;                                                                   *)
(* the senders count failed attempts and stop the client themselves at the *)
(* maximum, SIGINT stops it from outside; then start() stops watcher and   *)
(* queue, closes every sender's channel and joins the threads.             *)
(*                                                                         *)
(* The queue is reduced to the number of operations nobody works on and to *)
(* its waits (see OutputQueue), a request to one step (see Channels).      *)
(***************************************************************************)
EXTENDS Naturals

CONSTANTS
    Senders,        \* senders_pool_n
    MaxAttempts,    \* max_attempts (5)
    MaxPending,     \* operations waiting when the queue is full (bound)
    ServerAnswers   \* whether the server may answer (else it is down)

ASSUME FlowAssumption ==
    /\ Senders \in Nat \ {0} /\ MaxAttempts \in Nat \ {0} /\ MaxPending \in Nat
    /\ ServerAnswers \in BOOLEAN

Sender == 1 .. Senders

VARIABLES
    keep_going,     \* ClientFlow::keep_going
    attempt_count,
    at,             \* where each sender is
    last,           \* its request is the operation's last: a removal or the
                    \* last segment of an upload
    pc,             \* its ProtoChannel: "none", "open", or "closed"
    pending,        \* operations in the queue nobody works on
    oq_going,       \* OutputQueue::keep_going
    running,        \* FileManager::running
    watcher,        \* the watcher thread
    main,           \* where start() is
    joining,        \* the sender start() is at in its last loop
    interrupted,    \* SIGINT was handled; the next one kills
    died            \* std::terminate

senderVars == <<attempt_count, at, last, pc, pending>>
mainVars == <<main, joining, oq_going, running>>
vars == <<keep_going, senderVars, watcher, mainVars, interrupted, died>>

Init ==
    /\ keep_going = TRUE
    /\ attempt_count = 0
    /\ at = [s \in Sender |-> "unborn"]
    /\ last = [s \in Sender |-> FALSE]
    /\ pc = [s \in Sender |-> "none"]
    /\ pending = 0
    /\ oq_going = TRUE
    /\ running = TRUE
    /\ watcher = "unborn"
    /\ main = "auth"
    /\ joining = 1
    /\ interrupted = FALSE
    /\ died = FALSE

(* stop(): the flag, then notify_all without the mutex of the waiter. *)
Stop ==
    /\ keep_going' = FALSE
    /\ main' = IF main = "asleep" THEN "test" ELSE main

----------------------------------------------------------------------------
(* sender_loop.                                                            *)

Goes(s, where) == at' = [at EXCEPT ![s] = where]

(* attempt_count + 1; all values above the maximum behave the same. *)
Counted == IF attempt_count > MaxAttempts THEN attempt_count ELSE attempt_count + 1

GivesUp == attempt_count = MaxAttempts

Top(s) ==
    /\ at[s] = "top"
    /\ \/ GivesUp /\ Stop /\ Goes(s, "left")
       \/ ~GivesUp /\ Goes(s, "get") /\ UNCHANGED <<keep_going, main>>
    /\ UNCHANGED <<attempt_count, last, pc, pending, watcher, joining, oq_going,
                   running, interrupted, died>>

(* The mutex of the queue: a thread that has tested and will sleep holds   *)
(* it, and stop() does not ask for it.                                     *)
QueueFree == watcher # "block" /\ \A s \in Sender : at[s] # "block"

(* get_file_operation: an operation, or "stop", which ends the loop, or a  *)
(* wait.                                                                   *)
Get(s) ==
    /\ at[s] = "get" /\ QueueFree
    /\ \/ oq_going /\ pending > 0 /\ pending' = pending - 1 /\ Goes(s, "check")
       \/ oq_going /\ pending = 0 /\ Goes(s, "block") /\ UNCHANGED pending
       \/ ~oq_going /\ Goes(s, "left") /\ UNCHANGED pending
    /\ UNCHANGED <<keep_going, attempt_count, last, pc, watcher, mainVars,
                   interrupted, died>>

GetSleeps(s) ==
    /\ at[s] = "block" /\ Goes(s, "asleep")
    /\ UNCHANGED <<keep_going, attempt_count, last, pc, pending, watcher,
                   mainVars, interrupted, died>>

(* Notified by another thread or the queue's watchdog, or spuriously. *)
GetWakes(s) ==
    /\ at[s] = "asleep" /\ Goes(s, "get")
    /\ UNCHANGED <<keep_going, attempt_count, last, pc, pending, watcher,
                   mainVars, interrupted, died>>

(* The operation ends.  An RBException in upload_file ends it as done too, *)
(* once the server has answered an ABORT.                                  *)
Ends(s) ==
    /\ \/ ServerAnswers /\ Goes(s, "done")
       \/ Goes(s, "failed")
    /\ UNCHANGED <<last, pc>>

(* On to the operation's next request. *)
Continues(s) ==
    /\ Goes(s, "acquire")
    /\ \E l \in BOOLEAN : last' = [last EXCEPT ![s] = l]
    /\ UNCHANGED pc

(* The early return: the operation stays marked in the queue. *)
Check(s) ==
    /\ at[s] = "check"
    /\ \/ keep_going /\ Continues(s)
       \/ ~keep_going /\ Goes(s, "left") /\ UNCHANGED <<last, pc>>
    /\ UNCHANGED <<keep_going, attempt_count, pending, watcher, mainVars,
                   interrupted, died>>

(* Whether the mutex of the sender's channel is free. *)
LockSkipped(s) == TRUE              \* mutant: nobody waits for the mutex
Lockable(s) == ~(main = "nop" /\ joining = s)

(* "client_stopped" before a segment that is not the last; or              *)
(* get_protochannel: the open channel, a new one, or none.                 *)
Acquire(s) ==
    /\ at[s] = "acquire"
    /\ \/ ~keep_going /\ ~last[s] /\ Ends(s)
       \/ /\ keep_going \/ last[s]
          /\ Lockable(s)
          /\ \/ /\ pc[s] = "open" \/ ServerAnswers
                /\ pc' = [pc EXCEPT ![s] = "open"]
                /\ Goes(s, "run") /\ UNCHANGED last
             \/ pc[s] # "open" /\ Ends(s)
    /\ UNCHANGED <<keep_going, attempt_count, pending, watcher, mainVars,
                   interrupted, died>>

(* run takes the mutex; main may have closed the channel since. *)
Run(s) ==
    /\ at[s] = "run"
    /\ Lockable(s)
    /\ \/ pc[s] = "open" /\ Goes(s, "await") /\ UNCHANGED <<last, pc>>
       \/ pc[s] # "open" /\ Ends(s)
    /\ UNCHANGED <<keep_going, attempt_count, pending, watcher, mainVars,
                   interrupted, died>>

(* The answer, or an error. *)
Answer(s) ==
    /\ at[s] = "await"
    /\ \/ ServerAnswers /\ ~last[s] /\ Continues(s)
       \/ Ends(s)
    /\ UNCHANGED <<keep_going, attempt_count, pending, watcher, mainVars,
                   interrupted, died>>

(* attempt_count = 0 and remove_file_operation. *)
Done(s) ==
    /\ at[s] = "done"
    /\ attempt_count' = 0
    /\ Goes(s, "top")
    /\ UNCHANGED <<keep_going, last, pc, pending, watcher, mainVars, interrupted,
                   died>>

(* attempt_count++ and free_file_operation. *)
Failed(s) ==
    /\ at[s] = "failed" /\ QueueFree
    /\ attempt_count' = Counted
    /\ pending' = pending + 1
    /\ Goes(s, "top")
    /\ UNCHANGED <<keep_going, last, pc, watcher, mainVars, interrupted, died>>

SenderStep(s) ==
    \/ Top(s) \/ Get(s) \/ GetSleeps(s) \/ Check(s) \/ Acquire(s) \/ Run(s)
    \/ Answer(s) \/ Done(s) \/ Failed(s)

----------------------------------------------------------------------------
(* watcher_loop.                                                           *)

WatcherGoes(from, to) ==
    /\ watcher = from /\ watcher' = to
    /\ UNCHANGED <<keep_going, attempt_count, at, last, pc, mainVars, interrupted>>

(* The probe; an exception leaves the thread.  The comparison after it is  *)
(* a scan.                                                                 *)
WatcherSyncs ==
    /\ UNCHANGED pending
    /\ \/ ServerAnswers /\ WatcherGoes("sync", "scan") /\ UNCHANGED died
       \/ WatcherGoes("sync", "sync") /\ died' = TRUE

(* start_monitoring tests running between two scans. *)
WatcherScans ==
    /\ WatcherGoes("watch", IF running THEN "scan" ELSE "left")
    /\ UNCHANGED <<pending, died>>

(* update_handler for a change, or the end of the scan. *)
WatcherFinds ==
    /\ \/ keep_going /\ WatcherGoes("scan", "add")
       \/ WatcherGoes("scan", "watch")
    /\ UNCHANGED <<pending, died>>

(* add_file_operation waits while the queue is full, unless it stops. *)
WatcherAdds ==
    /\ QueueFree
    /\ \/ oq_going /\ pending < MaxPending /\ pending' = pending + 1
          /\ WatcherGoes("add", "scan")
       \/ oq_going /\ pending >= MaxPending /\ UNCHANGED pending
          /\ WatcherGoes("add", "block")
       \/ ~oq_going /\ WatcherGoes("add", "scan") /\ UNCHANGED pending
    /\ UNCHANGED died

AddSleeps == WatcherGoes("block", "asleep") /\ UNCHANGED <<pending, died>>
AddWakes == WatcherGoes("asleep", "add") /\ UNCHANGED <<pending, died>>

WatcherStep ==
    WatcherSyncs \/ WatcherScans \/ WatcherFinds \/ WatcherAdds \/ AddSleeps

----------------------------------------------------------------------------
(* start().                                                                *)

MainGoes(from, to) ==
    /\ main = from /\ main' = to
    /\ UNCHANGED <<keep_going, senderVars, watcher, interrupted>>

(* Without a token the process exits. *)
Authenticates ==
    /\ \/ ServerAnswers /\ MainGoes("auth", "spawn")
       \/ MainGoes("auth", "exited")
    /\ UNCHANGED <<joining, oq_going, running, died>>

(* The watcher's thread is created, then the senders' in their order; each *)
(* is at work while the next one is created.                               *)
Unborn == {s \in Sender : at[s] = "unborn"}

Spawns ==
    /\ main = "spawn"
    /\ \/ watcher = "unborn" /\ watcher' = "sync" /\ UNCHANGED <<main, at>>
       \/ /\ watcher # "unborn" /\ UNCHANGED watcher
          /\ \/ \E s \in Unborn : /\ \A t \in Unborn : s <= t
                                  /\ Goes(s, "top") /\ UNCHANGED main
             \/ Unborn = {} /\ main' = "test" /\ UNCHANGED at
    /\ UNCHANGED <<keep_going, attempt_count, last, pc, pending, joining,
                   oq_going, running, interrupted, died>>

(* The watchdog of the channels walks through senders_pool while start()   *)
(* still adds to it: a data race, which may end the process.               *)
WatchdogRaces ==
    /\ main = "spawn" /\ keep_going
    /\ died' = TRUE
    /\ UNCHANGED <<keep_going, senderVars, watcher, mainVars, interrupted>>

(* waiter_cv.wait: the test, with the mutex held, then the sleep. *)
MainTests ==
    /\ MainGoes("test", IF keep_going THEN "decided" ELSE "stop")
    /\ UNCHANGED <<joining, oq_going, running, died>>
MainSleeps ==
    /\ MainGoes("decided", "asleep")
    /\ UNCHANGED <<joining, oq_going, running, died>>
MainWakes ==                        \* a spurious wakeup
    /\ MainGoes("asleep", "test")
    /\ UNCHANGED <<joining, oq_going, running, died>>

(* stop_monitoring writes to the map the watcher may be walking through: a *)
(* data race, which may end the process.                                   *)
StopsMonitoring ==
    /\ MainGoes("stop", "stop_queue")
    /\ running' = FALSE
    /\ died' \in {FALSE, (watcher \in {"scan", "add"})}
    /\ UNCHANGED <<joining, oq_going>>

QueueNotStopped == oq_going         \* mutant: out_queue.stop() is missing
QueueStopped == FALSE

StopsQueue ==
    /\ MainGoes("stop_queue", "notify_queue")
    /\ oq_going' = QueueStopped
    /\ UNCHANGED <<joining, running, died>>

(* notify_all wakes who is asleep by then. *)
NotifiesQueue ==
    /\ main = "notify_queue" /\ main' = "join_watcher"
    /\ at' = [s \in Sender |-> IF at[s] = "asleep" THEN "get" ELSE at[s]]
    /\ watcher' = IF watcher = "asleep" THEN "add" ELSE watcher
    /\ UNCHANGED <<keep_going, attempt_count, last, pc, pending, joining,
                   oq_going, running, interrupted, died>>

JoinsWatcher ==
    /\ watcher = "left"
    /\ MainGoes("join_watcher", "close")
    /\ UNCHANGED <<joining, oq_going, running, died>>

(* The last loop: on to the next sender, or the end. *)
NextSender ==
    IF joining = Senders
    THEN main' = "exited" /\ UNCHANGED joining
    ELSE main' = "close" /\ joining' = joining + 1

(* clear_protochannel: no channel, or is_open, which waits for a request   *)
(* under way.                                                              *)
ClosesChannel ==
    /\ main = "close"
    /\ \/ pc[joining] # "open" /\ main' = "join"
       \/ pc[joining] = "open" /\ at[joining] # "await" /\ main' = "try_nop"
    /\ UNCHANGED <<keep_going, senderVars, watcher, joining, oq_going, running,
                   interrupted, died>>

(* run(NOP, do_try): "busy_protochannel" is caught in start() and the      *)
(* sender is not joined.                                                   *)
TriesNop ==
    /\ main = "try_nop"
    /\ \/ at[joining] # "await" /\ main' = "nop" /\ UNCHANGED joining
       \/ at[joining] = "await" /\ NextSender
    /\ UNCHANGED <<keep_going, senderVars, watcher, oq_going, running,
                   interrupted, died>>

(* Answered, the channel is closed; an error is caught like the above. *)
EndsNop ==
    /\ main = "nop"
    /\ \/ /\ ServerAnswers
          /\ pc' = [pc EXCEPT ![joining] = "closed"]
          /\ main' = "join" /\ UNCHANGED joining
       \/ NextSender /\ UNCHANGED pc
    /\ UNCHANGED <<keep_going, attempt_count, at, last, pending, watcher,
                   oq_going, running, interrupted, died>>

JoinsSender ==
    /\ main = "join"
    /\ at[joining] = "left"
    /\ NextSender
    /\ UNCHANGED <<keep_going, senderVars, watcher, oq_going, running,
                   interrupted, died>>

MainStep ==
    \/ Authenticates \/ Spawns \/ MainTests \/ MainSleeps
    \/ StopsMonitoring \/ StopsQueue \/ NotifiesQueue \/ JoinsWatcher
    \/ ClosesChannel \/ TriesNop \/ EndsNop \/ JoinsSender

(* The first SIGINT calls stop() and restores the original handler. *)
Interrupt ==
    /\ ~interrupted
    /\ interrupted' = TRUE
    /\ Stop
    /\ UNCHANGED <<senderVars, watcher, joining, oq_going, running, died>>

----------------------------------------------------------------------------
Wakeup == MainWakes \/ AddWakes \/ \E s \in Sender : GetWakes(s)

Next ==
    /\ ~died /\ main # "exited"
    /\ \/ \E s \in Sender : SenderStep(s)
       \/ WatcherStep
       \/ MainStep
       \/ Wakeup
       \/ WatchdogRaces
       \/ Interrupt

Spec == Init /\ [][Next]_vars

(* Threads are scheduled and requests end; SIGINT and wakeups other than   *)
(* by stop() are not assumed.                                              *)
Alive(A) == ~died /\ main # "exited" /\ A

FairSpec ==
    /\ Spec
    /\ \A s \in Sender : WF_vars(Alive(SenderStep(s)))
    /\ WF_vars(Alive(WatcherStep))
    /\ WF_vars(Alive(MainStep))

----------------------------------------------------------------------------
(* Properties.                                                             *)

(* Types; the channel is there while a request is under way. *)
TypeOK ==
    /\ keep_going \in BOOLEAN /\ oq_going \in BOOLEAN /\ running \in BOOLEAN
    /\ attempt_count \in 0 .. MaxAttempts + 1
    /\ at \in [Sender -> {"unborn", "top", "get", "block", "asleep", "check",
                          "acquire", "run", "await", "done", "failed", "left"}]
    /\ last \in [Sender -> BOOLEAN]
    /\ pc \in [Sender -> {"none", "open", "closed"}]
    /\ pending \in 0 .. MaxPending + Senders
    /\ watcher \in {"unborn", "sync", "watch", "scan", "add", "block", "asleep",
                    "left"}
    /\ main \in {"auth", "spawn", "test", "decided", "asleep", "stop",
                 "stop_queue", "notify_queue", "join_watcher", "close", "try_nop", "nop", "join", "exited"}
    /\ joining \in Sender
    /\ interrupted \in BOOLEAN /\ died \in BOOLEAN

(* start() does not close a channel under a request of its sender, nor do  *)
(* the two ever wait for an answer on it at once: the NOP is only tried.   *)
ChannelNotTaken ==
    \A s \in Sender : at[s] = "await" =>
        pc[s] = "open" /\ ~(main = "nop" /\ joining = s)

(* Once start() has begun to stop the client it gets to its end, whatever  *)
(* the senders are doing, unless a thread missed the queue's notification  *)
(* between its test and its sleep: it is joined for ever.                  *)
MissedStop ==
    /\ ~oq_going /\ main # "notify_queue"
    /\ watcher = "asleep" \/ \E s \in Sender : at[s] = "asleep"

StopCompletes ==
    main = "stop" ~> (main = "exited" \/ died \/ MissedStop)
=============================================================================
