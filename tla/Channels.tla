------------------------------ MODULE Channels ------------------------------
(***************************************************************************)
(* How requests travel: the client's senders, each with a persistent       *)
(* ProtoChannel (ClientFlowConsumer, ClientFlow.cpp:1-43), the watchdog    *)
(* that closes idle channels with a final NOP, one-shot channels for ABORT *)
(* (Client::run), and the server's acceptor, request list and pool of      *)
(* workers, each of which serves one connection until its final request    *)
(* (Server.cpp).  A worker waiting for the next request of an idle channel *)
(* serves nobody else.                                                     *)
(*                                                                         *)
(* A connection is named by its owner and use.  An operation is one or     *)
(* more requests on the persistent channel; what they carry is left out.   *)
(***************************************************************************)
EXTENDS Naturals, Sequences, FiniteSets

CONSTANTS
    Senders,        \* number of sender threads (at most 4)
    Worker,         \* the server's worker threads (its hardware threads)
    Free,           \* "the mutex is free"
    Failing,        \* bound: the senders that may be answered with an error
    Pauses,         \* whether 5 s of the wall clock may pass between two
                    \* statements of a sender (suspend, clock set)
    ServerMayStop   \* whether Server::stop is called

ASSUME PoolAssumption ==
    /\ Senders \in Nat \ {0}
    /\ IsFiniteSet(Worker)
    /\ Free \notin Worker \cup {"sender", "dog"}
    /\ Failing \subseteq 1 .. Senders
    /\ Pauses \in BOOLEAN /\ ServerMayStop \in BOOLEAN

Sender == 1 .. Senders
Conn == Sender \X {"pool", "once"}
SelfConn == <<0, "self">>       \* the connection stop() makes to itself

VARIABLES
    sender,     \* where each sender thread is
    cfc_m,      \* holder of ClientFlowConsumer::m
    chan_m,     \* holder of the mutex of the persistent ProtoChannel
    stale,      \* the channel's last_use is more than 5 s ago
    dog,        \* the watchdog: [at, i], working on consumer i
    conn,       \* client side of a connection: "closed", "open", "dead"
    sent,       \* requests written and not yet read by a worker
    reply,      \* responses written and not yet read by the client
    died,       \* an exception left the watchdog thread: std::terminate
    backlog,    \* connections not yet accepted
    requests,   \* accepted connections no worker has taken
    worker,     \* where each worker thread is
    serves,     \* the connection it serves
    req_m,      \* holder of req_mutex
    acceptor,
    running,
    stopping    \* progress of Server::stop

clientVars == <<sender, cfc_m, chan_m, stale, dog, died>>
wireVars   == <<conn, sent, reply>>
serverVars == <<backlog, requests, worker, serves, req_m, acceptor, running,
                stopping>>
vars == <<clientVars, wireVars, serverVars>>

Pool(s) == <<s, "pool">>
Once(s) == <<s, "once">>

HasChannel(s) == conn[Pool(s)] # "closed"

Init ==
    /\ sender = [s \in Sender |-> "idle"]
    /\ cfc_m = [s \in Sender |-> Free]
    /\ chan_m = [s \in Sender |-> Free]
    /\ stale = [s \in Sender |-> FALSE]
    /\ dog = [at |-> "sleep", i |-> 1]
    /\ conn = [c \in Conn |-> "closed"]
    /\ sent = [c \in Conn |-> <<>>]
    /\ reply = [c \in Conn |-> <<>>]
    /\ died = FALSE
    /\ backlog = <<>>
    /\ requests = <<>>
    /\ worker = [w \in Worker |-> "test"]
    /\ serves \in [Worker -> {SelfConn}]
    /\ req_m = Free
    /\ acceptor = "accept"
    /\ running = TRUE
    /\ stopping = "no"

----------------------------------------------------------------------------
(* The senders.                                                            *)

Goes(s, where) == sender' = [sender EXCEPT ![s] = where]

Listening == stopping # "done"

(* A new connection: the server's kernel takes it, accepted or not. *)
Connects(c) ==
    /\ conn' = [conn EXCEPT ![c] = "open"]
    /\ backlog' = Append(backlog, c)

(* An operation was taken from the output queue. *)
TakeOperation(s) ==
    /\ sender[s] = "idle"
    /\ Goes(s, "acquire")
    /\ UNCHANGED <<cfc_m, chan_m, stale, dog, died, wireVars, serverVars>>

(* What get_protochannel does to last_use. *)
KeepLastUse(s) == stale             \* mutant: last_use is not refreshed
Touch(s) == [stale EXCEPT ![s] = FALSE]

(* get_protochannel: reuse the channel, whatever the server did to it, or  *)
(* open one.  is_open waits for the channel's mutex.                       *)
GetProtochannel(s) ==
    /\ sender[s] = "acquire"
    /\ cfc_m[s] = Free
    /\ \/ /\ HasChannel(s)
          /\ chan_m[s] = Free
          /\ stale' = Touch(s)
          /\ Goes(s, "run")
          /\ UNCHANGED <<conn, backlog>>
       \/ /\ ~HasChannel(s)
          /\ Listening
          /\ Connects(Pool(s))
          /\ stale' = Touch(s)
          /\ Goes(s, "run")
       \/ /\ ~HasChannel(s)         \* connect throws, the operation is freed
          /\ ~Listening
          /\ Goes(s, "idle")
          /\ UNCHANGED <<stale, conn, backlog>>
    /\ UNCHANGED <<cfc_m, chan_m, dog, died, sent, reply, requests, worker,
                   serves, req_m, acceptor, running, stopping>>

(* Whether run may write: it locks the channel's mutex first. *)
LockSkipped(s) == TRUE              \* mutant: the mutex is not taken
Lockable(s) == chan_m[s] = Free

(* run, the sender's side: lock, write the request. *)
SendRequest(s) ==
    /\ sender[s] = "run" /\ HasChannel(s)
    /\ Lockable(s)
    /\ chan_m' = [chan_m EXCEPT ![s] = "sender"]
    /\ sent' = [sent EXCEPT ![Pool(s)] = Append(@, "op")]
    /\ Goes(s, "await")
    /\ UNCHANGED <<cfc_m, stale, dog, died, conn, reply, serverVars>>

(* The watchdog closed the channel after get_protochannel returned it. *)
FindsClosed(s) ==
    /\ sender[s] = "run" /\ ~HasChannel(s)
    /\ Lockable(s)
    /\ \E next \in {"idle", "abort"} : Goes(s, next)
    /\ UNCHANGED <<cfc_m, chan_m, stale, dog, died, wireVars, serverVars>>

(* The response: another request, the end of the operation, or an error,   *)
(* after which upload_file sends ABORT and remove_file just gives up.      *)
ReceiveResponse(s) ==
    /\ sender[s] = "await"
    /\ reply[Pool(s)] # <<>>
    /\ reply' = [reply EXCEPT ![Pool(s)] = Tail(@)]
    /\ chan_m' = [chan_m EXCEPT ![s] = Free]
    /\ \/ \E next \in {"acquire", "idle"} : Goes(s, next)
       \/ s \in Failing /\ Goes(s, "abort")
    /\ UNCHANGED <<cfc_m, stale, dog, died, conn, sent, serverVars>>

(* The server dropped the connection: run throws; the socket is not closed *)
(* and the consumer keeps the channel.                                     *)
ReceiveFails(s) ==
    /\ sender[s] = "await"
    /\ reply[Pool(s)] = <<>> /\ conn[Pool(s)] = "dead"
    /\ sent' = [sent EXCEPT ![Pool(s)] = <<>>]
    /\ chan_m' = [chan_m EXCEPT ![s] = Free]
    /\ \E next \in {"idle", "abort"} : Goes(s, next)
    /\ UNCHANGED <<cfc_m, stale, dog, died, conn, reply, serverVars>>

(* Client::run(ABORT): a connection of its own with one final request. *)
SendAbort(s) ==
    /\ sender[s] = "abort"
    /\ \/ /\ Listening
          /\ Connects(Once(s))
          /\ sent' = [sent EXCEPT ![Once(s)] = <<"abort">>]
          /\ Goes(s, "await_abort")
       \/ /\ ~Listening
          /\ Goes(s, "idle")
          /\ UNCHANGED <<conn, backlog, sent>>
    /\ UNCHANGED <<cfc_m, chan_m, stale, dog, died, reply, requests, worker,
                   serves, req_m, acceptor, running, stopping>>

(* Answered or dropped, the one-shot channel is closed. *)
EndAbort(s) ==
    /\ sender[s] = "await_abort"
    /\ reply[Once(s)] # <<>> \/ conn[Once(s)] = "dead"
    /\ conn' = [conn EXCEPT ![Once(s)] = "closed"]
    /\ sent' = [sent EXCEPT ![Once(s)] = <<>>]
    /\ reply' = [reply EXCEPT ![Once(s)] = <<>>]
    /\ Goes(s, "idle")
    /\ UNCHANGED <<cfc_m, chan_m, stale, dog, died, serverVars>>

(* Five seconds of the wall clock without get_protochannel. *)
TimePasses(s) ==
    /\ HasChannel(s)
    /\ sender[s] = "run" => Pauses
    /\ stale' = [stale EXCEPT ![s] = TRUE]
    /\ UNCHANGED <<sender, cfc_m, chan_m, dog, died, wireVars, serverVars>>

----------------------------------------------------------------------------
(* The watchdog: clean_protochannel on every consumer, in order.           *)

DogGoes(where) == dog' = [dog EXCEPT !.at = where]

(* Whether the consumer just visited is the last of the pool. *)
AtEnd == dog.i = Senders
DogMovesOn == dog' = IF AtEnd THEN [at |-> "sleep", i |-> 1]
                              ELSE [at |-> "lock", i |-> dog.i + 1]

DogWakes ==
    /\ dog.at = "sleep"
    /\ DogGoes("lock")
    /\ UNCHANGED <<sender, cfc_m, chan_m, stale, died, wireVars, serverVars>>

(* Whether consumer s has a channel whose timeout is over. *)
NotExpired(s) == HasChannel(s) /\ ~stale[s]  \* mutant: now < timeout
Expired(s) == HasChannel(s) /\ stale[s]

(* Lock the consumer; nothing to do without a channel or before 5 s. *)
DogLocks ==
    /\ dog.at = "lock"
    /\ cfc_m[dog.i] = Free
    /\ IF Expired(dog.i)
       THEN DogGoes("is_open") /\ cfc_m' = [cfc_m EXCEPT ![dog.i] = "dog"]
       ELSE DogMovesOn /\ UNCHANGED cfc_m
    /\ UNCHANGED <<sender, chan_m, stale, died, wireVars, serverVars>>

(* is_open waits for the channel's mutex, that is for a request under way. *)
DogSeesOpen ==
    /\ dog.at = "is_open"
    /\ chan_m[dog.i] = Free
    /\ DogGoes("nop")
    /\ UNCHANGED <<sender, cfc_m, chan_m, stale, died, wireVars, serverVars>>

(* run(NOP, do_try): throws when the channel is busy, else writes. *)
DogSendsNop ==
    /\ dog.at = "nop"
    /\ IF chan_m[dog.i] = Free
       THEN /\ chan_m' = [chan_m EXCEPT ![dog.i] = "dog"]
            /\ sent' = [sent EXCEPT ![Pool(dog.i)] = Append(@, "nop")]
            /\ DogGoes("await")
            /\ UNCHANGED died
       ELSE died' = TRUE /\ UNCHANGED <<chan_m, sent, dog>>
    /\ UNCHANGED <<sender, cfc_m, stale, conn, reply, serverVars>>

(* The answer to the final NOP: the socket is closed, pc reset. *)
DogCloses ==
    /\ dog.at = "await"
    /\ reply[Pool(dog.i)] # <<>>
    /\ reply' = [reply EXCEPT ![Pool(dog.i)] = Tail(@)]
    /\ conn' = [conn EXCEPT ![Pool(dog.i)] = "closed"]
    /\ chan_m' = [chan_m EXCEPT ![dog.i] = Free]
    /\ cfc_m' = [cfc_m EXCEPT ![dog.i] = Free]
    /\ DogMovesOn
    /\ UNCHANGED <<sender, stale, died, sent, serverVars>>

(* The connection was dropped: the RBException leaves the thread. *)
DogDies ==
    /\ dog.at = "await"
    /\ reply[Pool(dog.i)] = <<>> /\ conn[Pool(dog.i)] = "dead"
    /\ died' = TRUE
    /\ UNCHANGED <<sender, cfc_m, chan_m, stale, dog, wireVars, serverVars>>

----------------------------------------------------------------------------
(* The server: acceptor (Server::run) and workers (Server::start).         *)

NotWoken == worker                  \* mutant: notify_all is missing
Wake == [w \in Worker |-> IF worker[w] = "asleep" THEN "test" ELSE worker[w]]

(* accept returned: queue the service and notify_all, unless stopped, and  *)
(* test running for the next round.                                        *)
Accept ==
    /\ acceptor = "accept" /\ backlog # <<>>
    /\ backlog' = Tail(backlog)
    /\ acceptor' = IF running THEN "accept" ELSE "exited"
    /\ \/ /\ running /\ req_m = Free
          /\ requests' = Append(requests, Head(backlog))
          /\ worker' = Wake
          /\ UNCHANGED conn
       \/ /\ ~running
          /\ conn' = [c \in Conn |-> IF c = Head(backlog) THEN "dead" ELSE conn[c]]
          /\ UNCHANGED <<requests, worker>>
    /\ UNCHANGED <<clientVars, sent, reply, serves, req_m, running, stopping>>

(* What a worker leaves in the list when it takes the first service. *)
NotPopped == requests               \* mutant: pop_front is missing
Popped == Tail(requests)

(* Under req_mutex: leave, take the first service, or prepare to sleep. *)
WorkerTests(w) ==
    /\ worker[w] = "test" /\ req_m = Free
    /\ \/ /\ ~running
          /\ worker' = [worker EXCEPT ![w] = "exited"]
          /\ UNCHANGED <<requests, serves, req_m>>
       \/ /\ running /\ requests # <<>>
          /\ worker' = [worker EXCEPT ![w] = "serve"]
          /\ serves' = [serves EXCEPT ![w] = Head(requests)]
          /\ requests' = Popped
          /\ UNCHANGED req_m
       \/ /\ running /\ requests = <<>>
          /\ worker' = [worker EXCEPT ![w] = "decided"]
          /\ req_m' = w
          /\ UNCHANGED <<requests, serves>>
    /\ UNCHANGED <<clientVars, wireVars, backlog, acceptor, running, stopping>>

WorkerSleeps(w) ==
    /\ worker[w] = "decided"
    /\ worker' = [worker EXCEPT ![w] = "asleep"]
    /\ req_m' = Free
    /\ UNCHANGED <<clientVars, wireVars, backlog, requests, serves, acceptor,
                   running, stopping>>

(* Only the requests of a one-shot channel and the NOP are final. *)
Final(msg) == msg \in {"abort", "nop"}

(* One request of the connection: answered, or, once the server is stopped *)
(* (flow throws), the connection is dropped.                               *)
WorkerServes(w) ==
    LET c == serves[w] IN
    /\ worker[w] = "serve"
    /\ sent[c] # <<>>
    /\ sent' = [sent EXCEPT ![c] = Tail(@)]
    /\ \/ /\ running
          /\ reply' = [reply EXCEPT ![c] = Append(@, Head(sent[c]))]
          /\ worker' = [worker EXCEPT ![w] = IF Final(Head(sent[c]))
                                             THEN "test" ELSE "serve"]
          /\ UNCHANGED conn
       \/ /\ ~running
          /\ conn' = [conn EXCEPT ![c] = "dead"]
          /\ worker' = [worker EXCEPT ![w] = "test"]
          /\ UNCHANGED reply
    /\ UNCHANGED <<clientVars, backlog, requests, serves, req_m, acceptor,
                   running, stopping>>

----------------------------------------------------------------------------
(* Server::stop.                                                           *)

StopStep(from, to) ==
    /\ stopping = from /\ stopping' = to
    /\ UNCHANGED <<clientVars, requests, serves, req_m, acceptor, sent, reply>>

StopSetsRunning ==
    /\ ServerMayStop
    /\ StopStep("no", "connect")
    /\ running' = FALSE
    /\ UNCHANGED <<conn, backlog, worker>>

StopConnects ==
    /\ StopStep("connect", "join")
    /\ backlog' = Append(backlog, SelfConn)
    /\ UNCHANGED <<conn, worker, running>>

(* The acceptor is joined, then notify_all without req_mutex. *)
StopNotifies ==
    /\ acceptor = "exited"
    /\ StopStep("join", "workers")
    /\ worker' = Wake
    /\ UNCHANGED <<conn, backlog, running>>

(* The workers are joined, the process ends and its sockets with it. *)
StopReturns ==
    /\ \A w \in Worker : worker[w] = "exited"
    /\ StopStep("workers", "done")
    /\ conn' = [c \in Conn |-> IF conn[c] = "open" THEN "dead" ELSE conn[c]]
    /\ backlog' = <<>>
    /\ UNCHANGED <<worker, running>>

----------------------------------------------------------------------------
SenderStep(s) ==
    \/ GetProtochannel(s) \/ SendRequest(s) \/ FindsClosed(s)
    \/ ReceiveResponse(s) \/ ReceiveFails(s) \/ SendAbort(s) \/ EndAbort(s)

DogNext ==
    \/ DogWakes \/ DogLocks \/ DogSeesOpen \/ DogSendsNop \/ DogCloses
    \/ DogDies

(* A wait may end without a notification. *)
SpuriousWakeup(w) ==
    /\ worker[w] = "asleep"
    /\ worker' = [worker EXCEPT ![w] = "test"]
    /\ UNCHANGED <<clientVars, wireVars, backlog, requests, serves, req_m,
                   acceptor, running, stopping>>

WorkerNext(w) == WorkerTests(w) \/ WorkerSleeps(w) \/ WorkerServes(w)

StopNext == StopSetsRunning \/ StopConnects \/ StopNotifies \/ StopReturns

Next ==
    /\ ~died
    /\ \/ \E s \in Sender : TakeOperation(s) \/ SenderStep(s) \/ TimePasses(s)
       \/ DogNext
       \/ Accept
       \/ \E w \in Worker : WorkerNext(w) \/ SpuriousWakeup(w)
       \/ StopNext

Spec == Init /\ [][Next]_vars

(* Threads are scheduled; watchdog and acceptor get a mutex that is free   *)
(* again and again.  Time passes.  Nothing is assumed about new            *)
(* operations, spurious wakeups or stop().                                 *)
Alive(A) == ~died /\ A

Fairness ==
    /\ \A s \in Sender : /\ WF_vars(Alive(SenderStep(s)))
                         /\ WF_vars(Alive(TimePasses(s)))
    /\ SF_vars(Alive(DogNext))
    /\ SF_vars(Alive(Accept))
    /\ \A w \in Worker : WF_vars(Alive(WorkerNext(w)))
    /\ WF_vars(Alive(StopConnects \/ StopNotifies \/ StopReturns))

FairSpec == Spec /\ Fairness

----------------------------------------------------------------------------
(* Properties.                                                             *)

Message == {"op", "abort", "nop"}

(* Types. *)
TypeOK ==
    /\ sender \in [Sender -> {"idle", "acquire", "run", "await", "abort",
                              "await_abort"}]
    /\ cfc_m \in [Sender -> {Free, "dog"}]
    /\ chan_m \in [Sender -> {Free, "sender", "dog"}]
    /\ stale \in [Sender -> BOOLEAN]
    /\ dog \in [at : {"sleep", "lock", "is_open", "nop", "await"}, i : Sender]
    /\ conn \in [Conn -> {"closed", "open", "dead"}]
    /\ sent \in [Conn -> Seq(Message)]
    /\ reply \in [Conn -> Seq(Message)]
    /\ died \in BOOLEAN
    /\ backlog \in Seq(Conn \cup {SelfConn})
    /\ requests \in Seq(Conn)
    /\ worker \in [Worker -> {"test", "decided", "asleep", "serve", "exited"}]
    /\ serves \in [Worker -> Conn \cup {SelfConn}]
    /\ req_m \in Worker \cup {Free}
    /\ acceptor \in {"accept", "exited"}
    /\ running \in BOOLEAN
    /\ stopping \in {"no", "connect", "join", "workers", "done"}

(* Without such pauses the watchdog never closes a channel under a sender  *)
(* that is about to use it, and never finds it busy ("busy_protochannel"   *)
(* would end the process): the consumer's mutex, the fresh last_use and    *)
(* is_open keep the two apart.                                             *)
WatchdogNeverCollides ==
    /\ dog.at = "nop" => chan_m[dog.i] = Free
    /\ \A s \in Sender : sender[s] = "run" => HasChannel(s)

(* A channel carries one request at a time, and its answer is read by the  *)
(* thread that asked: a sender never takes the answer to the watchdog's    *)
(* NOP for the outcome of its upload, nor the watchdog the reverse.        *)
AnswersGoToAsker ==
    \A s \in Sender :
        LET inFlight == sent[Pool(s)] \o reply[Pool(s)]
            asked == IF sender[s] = "await" THEN <<"op">>
                     ELSE IF dog.at = "await" /\ dog.i = s THEN <<"nop">>
                     ELSE <<>>
        IN  inFlight = asked \/ (inFlight = <<>> /\ conn[Pool(s)] = "dead")

(* How often c waits to be accepted, waits for a worker, or has one. *)
Occurs(c, seq) == Cardinality({i \in DOMAIN seq : seq[i] = c})
Places(c) == Occurs(c, backlog) + Occurs(c, requests)
               + Cardinality({w \in Worker : worker[w] = "serve" /\ serves[w] = c})

(* While the server lives, every open connection is in exactly one place:  *)
(* never forgotten, never read by two workers; and it gives its worker     *)
(* back exactly when its final request is answered.                        *)
OnePlacePerConnection ==
    stopping # "done" =>
        \A c \in Conn :
            Places(c) = IF conn[c] = "open"
                           /\ (reply[c] = <<>> \/ ~Final(Head(reply[c])))
                        THEN 1 ELSE 0

(* "the client sends a RBRequest protobuf message and the server replies   *)
(* with a RBResponse": no request waits for ever.                          *)
RequestsAnswered ==
    \A s \in Sender :
        sender[s] \in {"await", "await_abort"}
            ~> (sender[s] \notin {"await", "await_abort"} \/ died)

(* A channel its sender does not use is closed, so that its worker can     *)
(* serve another connection.                                               *)
IdleChannelsClosed ==
    \A s \in Sender :
        (HasChannel(s) /\ sender[s] = "idle")
            ~> (~HasChannel(s) \/ sender[s] # "idle" \/ died)
=============================================================================
