--------------------------- MODULE ChannelsProofs ---------------------------
(***************************************************************************)
(* Proofs about Channels for every number of senders and workers: answers  *)
(* reach the thread that asked, every open connection is in one place, and *)
(* the watchdog keeps clear of the senders.                                *)
(***************************************************************************)
EXTENDS Channels, FiniteSetTheorems, SequenceTheorems, TLAPS

----------------------------------------------------------------------------
(* The inductive invariant.                                                *)

SenderAt == {"idle", "acquire", "run", "await", "abort", "await_abort"}
DogType == [at : {"sleep", "lock", "is_open", "nop", "await"}, i : Sender]
ConnAt == {"closed", "open", "dead"}
WorkerAt == {"test", "decided", "asleep", "serve", "exited"}
StopAt == {"no", "connect", "join", "workers", "done"}
Mail == Seq(Message)
Queue(S) == Seq(S)

(* The types of TypeOK, by name. *)
Typed ==
    /\ sender \in [Sender -> SenderAt]
    /\ cfc_m \in [Sender -> {Free, "dog"}]
    /\ chan_m \in [Sender -> {Free, "sender", "dog"}]
    /\ stale \in [Sender -> BOOLEAN]
    /\ dog \in DogType
    /\ conn \in [Conn -> ConnAt]
    /\ sent \in [Conn -> Mail]
    /\ reply \in [Conn -> Mail]
    /\ died \in BOOLEAN
    /\ backlog \in Queue(Conn \cup {SelfConn})
    /\ requests \in Queue(Conn)
    /\ worker \in [Worker -> WorkerAt]
    /\ serves \in [Worker -> Conn \cup {SelfConn}]
    /\ req_m \in Worker \cup {Free}
    /\ acceptor \in {"accept", "exited"}
    /\ running \in BOOLEAN
    /\ stopping \in StopAt

(* The mutexes belong to whoever waits for an answer or cleans up. *)
LocksInv ==
    \A s \in Sender :
        /\ chan_m[s] = "sender" <=> sender[s] = "await"
        /\ chan_m[s] = "dog" <=> dog.at = "await" /\ dog.i = s
        /\ cfc_m[s] = "dog" <=> dog.at \in {"is_open", "nop", "await"} /\ dog.i = s

(* What has been asked on a connection and not been answered. *)
Asked(c) ==
    IF c[2] = "once"
    THEN IF sender[c[1]] = "await_abort" THEN <<"abort">> ELSE <<>>
    ELSE IF sender[c[1]] = "await" THEN <<"op">>
    ELSE IF dog.at = "await" /\ dog.i = c[1] THEN <<"nop">>
    ELSE <<>>

(* A request is on its way, or its answer is, or the connection was dropped. *)
FlightInv(c) ==
    \/ sent[c] = Asked(c) /\ reply[c] = <<>>
    \/ sent[c] = <<>> /\ reply[c] = Asked(c)
    \/ sent[c] = <<>> /\ reply[c] = <<>> /\ conn[c] = "dead"

(* A one-shot channel lives no longer than its request. *)
OnceInv ==
    \A s \in Sender : sender[s] # "await_abort" => conn[Once(s)] # "open"

(* Only stop() connects to the server itself, and only when it no longer   *)
(* runs.                                                                   *)
SelfInv ==
    /\ running <=> stopping = "no"
    /\ running => backlog \in Queue(Conn)
    /\ \A w \in Worker : worker[w] = "serve" => serves[w] \in Conn

IInv ==
    /\ Typed /\ LocksInv /\ OnceInv /\ SelfInv
    /\ \A c \in Conn : FlightInv(c)

(* Who needs a place on the server. *)
Owed(c) ==
    IF conn[c] = "open" /\ (reply[c] = <<>> \/ ~Final(Head(reply[c]))) THEN 1 ELSE 0

(* Without pauses the watchdog works only on channels out of use. *)
DogInv ==
    /\ dog.at \in {"is_open", "nop", "await"} => stale[dog.i]
    /\ \A s \in Sender : sender[s] = "run" => ~stale[s]
    /\ WatchdogNeverCollides

----------------------------------------------------------------------------
(* Types and mutexes.                                                      *)

(* The connections of a sender. *)
LEMMA ConnPool ==
    ASSUME NEW s \in Sender
    PROVE  /\ Pool(s) \in Conn /\ Once(s) \in Conn /\ Pool(s) # Once(s)
           /\ Pool(s)[1] = s /\ Pool(s)[2] = "pool"
           /\ Once(s)[1] = s /\ Once(s)[2] = "once"
           /\ s # 0
BY PoolAssumption DEF Pool, Once, Conn, Sender

(* The connection to itself is none of the clients'. *)
LEMMA SelfIsNone == SelfConn \notin Conn
BY PoolAssumption DEF SelfConn, Conn, Sender

(* Typed says what TypeOK says. *)
LEMMA TypedIsTypeOK == Typed <=> TypeOK
BY DEF Typed, TypeOK, SenderAt, DogType, ConnAt, WorkerAt, StopAt, Mail, Queue

(* Queues of connections. *)
LEMMA QueueOps ==
    ASSUME NEW S, NEW q \in Queue(S)
    PROVE  /\ \A x \in S : Append(q, x) \in Queue(S)
           /\ q # <<>> => Head(q) \in S /\ Tail(q) \in Queue(S)
<1>1. \A x \in S : Append(q, x) \in Queue(S)
  BY AppendProperties DEF Queue
<1>2. q # <<>> => Head(q) \in S /\ Tail(q) \in Queue(S)
  BY HeadTailProperties DEF Queue
<1> QED
  BY <1>1, <1>2

(* Requests and answers on their way. *)
LEMMA MailOps ==
    ASSUME NEW q \in Mail
    PROVE  /\ \A m \in Message : Append(q, m) \in Mail
           /\ q # <<>> => Head(q) \in Message /\ Tail(q) \in Mail
BY QueueOps DEF Mail, Queue

(* Nothing, or one message. *)
LEMMA FewMail == /\ <<>> \in Mail
                 /\ \A m \in Message : <<m>> \in Mail
                 /\ \A S : <<>> \in Queue(S)
BY DEF Mail, Queue

(* The invariant holds initially. *)
LEMMA ChannelsInit == Init => IInv
<1> SUFFICES ASSUME Init PROVE IInv
  OBVIOUS
<1>1. 1 \in Sender
  BY PoolAssumption DEF Sender
<1>2. Typed
  <2>1. /\ <<>> \in Mail /\ <<>> \in Queue(Conn) /\ <<>> \in Queue(Conn \cup {SelfConn})
    BY FewMail
  <2>2. /\ sender \in [Sender -> SenderAt]
        /\ cfc_m \in [Sender -> {Free, "dog"}]
        /\ chan_m \in [Sender -> {Free, "sender", "dog"}]
        /\ stale \in [Sender -> BOOLEAN]
    BY DEF Init, SenderAt
  <2>3. dog \in DogType
    BY <1>1 DEF Init, DogType
  <2>4. /\ conn \in [Conn -> ConnAt]
        /\ sent \in [Conn -> Mail] /\ reply \in [Conn -> Mail]
        /\ backlog \in Queue(Conn \cup {SelfConn}) /\ requests \in Queue(Conn)
    BY <2>1 DEF Init, ConnAt
  <2>5. /\ worker \in [Worker -> WorkerAt]
        /\ serves \in [Worker -> Conn \cup {SelfConn}]
        /\ req_m \in Worker \cup {Free} /\ acceptor \in {"accept", "exited"}
        /\ stopping \in StopAt
    BY DEF Init, WorkerAt, StopAt
  <2>6. running \in BOOLEAN
    BY DEF Init
  <2>7. died \in BOOLEAN
    BY DEF Init
  <2> QED
    BY <2>2, <2>3, <2>4, <2>5, <2>6, <2>7 DEF Typed
<1>3. LocksInv
  BY PoolAssumption DEF Init, LocksInv
<1>4. \A c \in Conn : FlightInv(c)
  <2> TAKE c \in Conn
  <2>1. c[1] \in Sender
    BY DEF Conn
  <2> QED
    BY <2>1 DEF Init, FlightInv, Asked
<1>5. OnceInv
  BY ConnPool DEF Init, OnceInv
<1>6. SelfInv
  BY FewMail DEF Init, SelfInv
<1> QED
  BY <1>2, <1>3, <1>4, <1>5, <1>6 DEF IInv

(* Every step of the clients keeps the types. *)
LEMMA ClientTyped ==
    ASSUME Typed,
           (\E s \in Sender : TakeOperation(s) \/ SenderStep(s) \/ TimePasses(s)) \/ DogNext
    PROVE  Typed'
<1>1. ASSUME NEW s \in Sender, TakeOperation(s) \/ FindsClosed(s) \/ TimePasses(s) PROVE Typed'
  BY <1>1 DEF Typed, SenderAt, TakeOperation, FindsClosed, TimePasses, Goes, wireVars, serverVars
<1>2. ASSUME NEW s \in Sender, GetProtochannel(s) PROVE Typed'
  <2>1. Append(backlog, Pool(s)) \in Queue(Conn \cup {SelfConn})
    BY ConnPool, QueueOps DEF Typed
  <2> QED
    <3>1. sender' \in [Sender -> SenderAt] /\ stale' \in [Sender -> BOOLEAN]
      BY <1>2 DEF Typed, SenderAt, GetProtochannel, Touch, Goes
    <3>2. conn' \in [Conn -> ConnAt] /\ backlog' \in Queue(Conn \cup {SelfConn})
      <4>1. CASE Connects(Pool(s))
        <5>1. Pool(s) \in Conn /\ "open" \in ConnAt
          BY ConnPool DEF ConnAt
        <5> QED
          BY <2>1, <4>1, <5>1 DEF Typed, Connects
      <4>2. CASE UNCHANGED <<conn, backlog>>
        BY <4>2 DEF Typed
      <4> QED
        BY <1>2, <4>1, <4>2 DEF GetProtochannel
    <3> QED
      BY <1>2, <3>1, <3>2 DEF Typed, GetProtochannel
<1>3. ASSUME NEW s \in Sender, SendRequest(s) PROVE Typed'
  <2>1. sent[Pool(s)] \in Mail /\ "op" \in Message
    BY ConnPool DEF Typed, Message
  <2>2. Append(sent[Pool(s)], "op") \in Mail
    BY <2>1, MailOps
  <2> QED
    BY <1>3, <2>2, ConnPool DEF Typed, SenderAt, ConnAt, SendRequest, Goes, serverVars
<1>4. ASSUME NEW s \in Sender, ReceiveResponse(s) PROVE Typed'
  <2>1. reply[Pool(s)] \in Mail /\ reply[Pool(s)] # <<>>
    BY <1>4, ConnPool DEF Typed, ReceiveResponse
  <2>2. Tail(reply[Pool(s)]) \in Mail
    BY <2>1, MailOps
  <2> QED
    BY <1>4, <2>2, ConnPool DEF Typed, SenderAt, ConnAt, ReceiveResponse, Goes, serverVars
<1>5. ASSUME NEW s \in Sender, ReceiveFails(s) \/ EndAbort(s) PROVE Typed'
  <2>1. <<>> \in Mail
    BY FewMail
  <2> QED
    <3>1. sender' \in [Sender -> SenderAt] /\ chan_m' \in [Sender -> {Free, "sender", "dog"}]
      BY <1>5 DEF Typed, SenderAt, ReceiveFails, EndAbort, Goes
    <3>2. conn' \in [Conn -> ConnAt] /\ sent' \in [Conn -> Mail] /\ reply' \in [Conn -> Mail]
      BY <1>5, <2>1, ConnPool DEF Typed, ConnAt, ReceiveFails, EndAbort
    <3> QED
      BY <1>5, <3>1, <3>2 DEF Typed, ReceiveFails, EndAbort, serverVars
<1>6. ASSUME NEW s \in Sender, SendAbort(s) PROVE Typed'
  <2>1. Append(backlog, Once(s)) \in Queue(Conn \cup {SelfConn})
    BY ConnPool, QueueOps DEF Typed
  <2>2. <<"abort">> \in Mail
    BY FewMail DEF Message
  <2> QED
    <3>1. sender' \in [Sender -> SenderAt]
      BY <1>6 DEF Typed, SenderAt, SendAbort, Goes
    <3>2. /\ conn' \in [Conn -> ConnAt] /\ sent' \in [Conn -> Mail]
          /\ backlog' \in Queue(Conn \cup {SelfConn})
      <4>1. Once(s) \in Conn /\ "open" \in ConnAt
        BY ConnPool DEF ConnAt
      <4>2. CASE Connects(Once(s)) /\ sent' = [sent EXCEPT ![Once(s)] = <<"abort">>]
        BY <2>1, <2>2, <4>1, <4>2 DEF Typed, Connects
      <4>3. CASE UNCHANGED <<conn, backlog, sent>>
        BY <4>3 DEF Typed
      <4> QED
        BY <1>6, <4>2, <4>3 DEF SendAbort
    <3> QED
      BY <1>6, <3>1, <3>2 DEF Typed, SendAbort
<1>7. ASSUME DogNext PROVE Typed'
  <2>1. dog.i \in Sender /\ dog \in DogType
    BY DEF Typed, DogType
  <2>2. ASSUME DogMovesOn PROVE dog' \in DogType
    <3>1. ~AtEnd => dog.i + 1 \in Sender
      BY <2>1, PoolAssumption DEF AtEnd, Sender
    <3>2. 1 \in Sender
      BY PoolAssumption DEF Sender
    <3> QED
      BY <2>2, <3>1, <3>2 DEF DogMovesOn, DogType
  <2>3. ASSUME DogWakes \/ DogSeesOpen \/ DogDies PROVE Typed'
    BY <2>1, <2>3 DEF Typed, DogType, DogWakes, DogSeesOpen, DogDies, DogGoes, wireVars, serverVars
  <2>4. ASSUME DogLocks PROVE Typed'
    BY <2>1, <2>2, <2>4 DEF Typed, DogType, DogLocks, DogGoes, wireVars, serverVars
  <2>5. ASSUME DogSendsNop PROVE Typed'
    <3>1. sent[Pool(dog.i)] \in Mail /\ "nop" \in Message
      BY <2>1, ConnPool DEF Typed, Message
    <3>2. Append(sent[Pool(dog.i)], "nop") \in Mail
      BY <3>1, MailOps
    <3> QED
      <4>1. dog' \in DogType /\ chan_m' \in [Sender -> {Free, "sender", "dog"}]
        BY <2>1, <2>5 DEF Typed, DogType, DogSendsNop, DogGoes
      <4>2. sent' \in [Conn -> Mail]
        <5>1. sent' = sent \/ sent' = [sent EXCEPT ![Pool(dog.i)] = Append(sent[Pool(dog.i)], "nop")]
          BY <2>5 DEF DogSendsNop
        <5>2. Pool(dog.i) \in Conn
          BY <2>1, ConnPool
        <5> QED
          BY <3>2, <5>1, <5>2 DEF Typed
      <4>3. died' = died \/ died' = TRUE
        BY <2>5 DEF DogSendsNop
      <4> QED
        BY <2>5, <4>1, <4>2, <4>3 DEF Typed, DogSendsNop, serverVars
  <2>6. ASSUME DogCloses PROVE Typed'
    <3>1. reply[Pool(dog.i)] \in Mail /\ reply[Pool(dog.i)] # <<>>
      BY <2>1, <2>6, ConnPool DEF Typed, DogCloses
    <3>2. Tail(reply[Pool(dog.i)]) \in Mail
      BY <3>1, MailOps
    <3> QED
      BY <2>1, <2>2, <2>6, <3>2, ConnPool DEF Typed, ConnAt, DogCloses, serverVars
  <2> QED
    BY <1>7, <2>3, <2>4, <2>5, <2>6 DEF DogNext
<1> QED
  BY <1>1, <1>2, <1>3, <1>4, <1>5, <1>6, <1>7 DEF SenderStep

(* Every step of the server keeps the types. *)
LEMMA ServerTyped ==
    ASSUME Typed, SelfInv,
           Accept \/ StopNext \/ \E w \in Worker : WorkerNext(w) \/ SpuriousWakeup(w)
    PROVE  Typed'
<1>1. ASSUME Accept PROVE Typed'
  <2>1. /\ Tail(backlog) \in Queue(Conn \cup {SelfConn})
        /\ running => Append(requests, Head(backlog)) \in Queue(Conn)
    <3>1. backlog # <<>>
      BY <1>1 DEF Accept
    <3>2. Tail(backlog) \in Queue(Conn \cup {SelfConn})
      BY <3>1, QueueOps DEF Typed
    <3>3. running => Head(backlog) \in Conn
      BY <3>1, QueueOps DEF SelfInv
    <3> QED
      BY <3>2, <3>3, QueueOps DEF Typed
  <2>2. Wake \in [Worker -> WorkerAt]
    BY DEF Typed, WorkerAt, Wake
  <2>3. [c \in Conn |-> IF c = Head(backlog) THEN "dead" ELSE conn[c]]
          \in [Conn -> ConnAt]
    BY DEF Typed, ConnAt
  <2> QED
    BY <1>1, <2>1, <2>2, <2>3 DEF Typed, Accept, clientVars
<1>2. ASSUME NEW w \in Worker, WorkerTests(w) PROVE Typed'
  <2>1. requests # <<>> => Head(requests) \in Conn /\ Tail(requests) \in Queue(Conn)
    BY QueueOps DEF Typed
  <2> QED
    BY <1>2, <2>1 DEF Typed, WorkerAt, WorkerTests, Popped, clientVars, wireVars
<1>3. ASSUME NEW w \in Worker, WorkerSleeps(w) \/ SpuriousWakeup(w) PROVE Typed'
  BY <1>3 DEF Typed, WorkerAt, WorkerSleeps, SpuriousWakeup, clientVars, wireVars
<1>4. ASSUME NEW w \in Worker, WorkerServes(w) PROVE Typed'
  <2>1. PICK c \in Conn : c = serves[w]
    BY <1>4 DEF SelfInv, WorkerServes
  <2>2. sent[c] \in Mail /\ reply[c] \in Mail /\ sent[c] # <<>>
    BY <1>4, <2>1 DEF Typed, WorkerServes
  <2>3. Tail(sent[c]) \in Mail /\ Append(reply[c], Head(sent[c])) \in Mail
    BY <2>2, MailOps
  <2> QED
    BY <1>4, <2>1, <2>3 DEF Typed, WorkerAt, ConnAt, WorkerServes, clientVars
<1>5. ASSUME StopNext PROVE Typed'
  <2>1. Wake \in [Worker -> WorkerAt]
    BY DEF Typed, WorkerAt, Wake
  <2>2. [c \in Conn |-> IF conn[c] = "open" THEN "dead" ELSE conn[c]]
          \in [Conn -> ConnAt]
    BY DEF Typed, ConnAt
  <2>3. /\ Append(backlog, SelfConn) \in Queue(Conn \cup {SelfConn})
        /\ <<>> \in Queue(Conn \cup {SelfConn})
    BY QueueOps, FewMail DEF Typed
  <2> QED
    BY <1>5, <2>1, <2>2, <2>3 DEF Typed, StopAt, StopNext, StopSetsRunning, StopConnects, StopNotifies,
       StopReturns, StopStep, clientVars
<1> QED
  BY <1>1, <1>2, <1>3, <1>4, <1>5 DEF WorkerNext

(* Every step keeps the types. *)
LEMMA TypedStep == IInv /\ [Next]_vars => Typed'
<1> SUFFICES ASSUME IInv, [Next]_vars PROVE Typed'
  OBVIOUS
<1>1. ASSUME UNCHANGED vars PROVE Typed'
  BY <1>1 DEF IInv, Typed, vars, clientVars, wireVars, serverVars
<1> QED
  BY <1>1, ClientTyped, ServerTyped DEF IInv, Next

(* Every step keeps the mutexes with those who take them. *)
LEMMA LocksStep == IInv /\ [Next]_vars => LocksInv'
<1> SUFFICES ASSUME IInv, [Next]_vars PROVE LocksInv'
  OBVIOUS
<1>1. /\ LocksInv /\ sender \in [Sender -> SenderAt]
      /\ cfc_m \in [Sender -> {Free, "dog"}]
      /\ chan_m \in [Sender -> {Free, "sender", "dog"}]
      /\ dog \in DogType /\ dog.i \in Sender
      /\ Free \notin {"sender", "dog"}
  BY PoolAssumption DEF IInv, Typed, DogType
<1>2. ASSUME UNCHANGED <<cfc_m, chan_m, dog>>,
             NEW s \in Sender, sender[s] # "await",
             \E to \in SenderAt \ {"await"} : sender' = [sender EXCEPT ![s] = to]
      PROVE  LocksInv'
  BY <1>1, <1>2 DEF LocksInv
<1>3. ASSUME NEW s \in Sender,
             TakeOperation(s) \/ GetProtochannel(s) \/ FindsClosed(s) \/ SendAbort(s) \/ EndAbort(s)
      PROVE  LocksInv'
  BY <1>2, <1>3 DEF TakeOperation, GetProtochannel, FindsClosed, SendAbort, EndAbort, Goes, SenderAt
<1>4. ASSUME NEW s \in Sender, SendRequest(s) PROVE LocksInv'
  BY <1>1, <1>4 DEF LocksInv, SendRequest, Lockable, Goes
<1>5. ASSUME NEW s \in Sender, ReceiveResponse(s) \/ ReceiveFails(s) PROVE LocksInv'
  <2>1. /\ sender[s] = "await" /\ chan_m' = [chan_m EXCEPT ![s] = Free]
        /\ \E to \in SenderAt \ {"await"} : sender' = [sender EXCEPT ![s] = to]
        /\ UNCHANGED <<cfc_m, dog>>
    BY <1>5 DEF ReceiveResponse, ReceiveFails, Goes, SenderAt
  <2> QED
    BY <1>1, <2>1 DEF LocksInv
<1>6. ASSUME NEW s \in Sender, TimePasses(s) PROVE LocksInv'
  BY <1>1, <1>6 DEF LocksInv, TimePasses
<1>7. ASSUME DogWakes \/ DogSeesOpen \/ DogDies PROVE LocksInv'
  BY <1>1, <1>7 DEF LocksInv, DogWakes, DogSeesOpen, DogDies, DogGoes, DogType
<1>8. ASSUME DogLocks PROVE LocksInv'
  BY <1>1, <1>8 DEF LocksInv, DogLocks, DogGoes, DogMovesOn, DogType
<1>9. ASSUME DogSendsNop PROVE LocksInv'
  BY <1>1, <1>9 DEF LocksInv, DogSendsNop, DogGoes, DogType
<1>10. ASSUME DogCloses PROVE LocksInv'
  BY <1>1, <1>10 DEF LocksInv, DogCloses, DogMovesOn, DogType
<1>11. ASSUME Accept \/ StopNext \/ (\E w \in Worker : WorkerNext(w) \/ SpuriousWakeup(w))
              \/ UNCHANGED vars
       PROVE  LocksInv'
  <2>1. UNCHANGED clientVars
    BY <1>11 DEF Accept, StopNext, StopSetsRunning, StopConnects, StopNotifies, StopReturns, StopStep,
       WorkerNext, WorkerTests, WorkerSleeps, WorkerServes, SpuriousWakeup, vars
  <2> QED
    BY <1>1, <2>1 DEF LocksInv, clientVars
<1> QED
  BY <1>3, <1>4, <1>5, <1>6, <1>7, <1>8, <1>9, <1>10, <1>11 DEF Next, SenderStep, DogNext

(* Every step keeps the one-shot channels and what stop() does. *)
LEMMA OnceStep == IInv /\ [Next]_vars => OnceInv' /\ SelfInv'
<1> SUFFICES ASSUME IInv, [Next]_vars PROVE OnceInv' /\ SelfInv'
  OBVIOUS
<1>1. OnceInv /\ SelfInv /\ Typed /\ dog.i \in Sender
  BY DEF IInv, Typed, DogType
<1>2. \A s, t \in Sender : Once(s) # Pool(t) /\ (Once(s) = Once(t) <=> s = t)
  BY DEF Once, Pool
<1>3. OnceInv'
  <2>1. ASSUME NEW s \in Sender, SenderStep(s) \/ TakeOperation(s) \/ TimePasses(s) PROVE OnceInv'
    <3>1. CASE SendAbort(s)
      BY <1>1, <1>2, <3>1, ConnPool DEF OnceInv, SendAbort, Connects, Goes, Typed
    <3>2. CASE EndAbort(s)
      BY <1>1, <1>2, <3>2, ConnPool DEF OnceInv, EndAbort, Goes, Typed
    <3>3. CASE ~SendAbort(s) /\ ~EndAbort(s)
      <4>1. /\ \A t \in Sender : sender'[t] = "await_abort" <=> sender[t] = "await_abort"
            /\ \A t \in Sender : conn'[Once(t)] = conn[Once(t)]
        <5>1. \A t \in Sender : conn'[Once(t)] = conn[Once(t)]
          BY <1>1, <1>2, <2>1, <3>3, ConnPool DEF Typed, SenderStep, TakeOperation, GetProtochannel,
             Connects, SendRequest, FindsClosed, ReceiveResponse, ReceiveFails, TimePasses, wireVars
        <5>2. \A t \in Sender : sender'[t] = "await_abort" <=> sender[t] = "await_abort"
          BY <1>1, <2>1, <3>3 DEF Typed, SenderStep, TakeOperation, GetProtochannel, SendRequest,
             FindsClosed, ReceiveResponse, ReceiveFails, TimePasses, Goes
        <5> QED
          BY <5>1, <5>2
      <4> QED
        BY <1>1, <4>1 DEF OnceInv
    <3> QED
      BY <3>1, <3>2, <3>3
  <2>2. ASSUME DogNext \/ Accept \/ StopNext \/ UNCHANGED vars
               \/ \E w \in Worker : WorkerNext(w) \/ SpuriousWakeup(w)
        PROVE  OnceInv'
    <3>1. sender' = sender
      BY <2>2 DEF DogNext, DogWakes, DogLocks, DogSeesOpen, DogSendsNop, DogCloses, DogDies, Accept,
         StopNext, StopSetsRunning, StopConnects, StopNotifies, StopReturns, StopStep, WorkerNext,
         WorkerTests, WorkerSleeps, WorkerServes, SpuriousWakeup, vars, clientVars
    <3>2. CASE DogNext
      <4>1. \A t \in Sender : conn'[Once(t)] = conn[Once(t)]
        BY <1>1, <1>2, <3>2, ConnPool DEF DogNext, DogWakes, DogLocks, DogSeesOpen, DogSendsNop,
           DogCloses, DogDies, wireVars, Typed
      <4> QED
        BY <1>1, <3>1, <4>1 DEF OnceInv
    <3>3. CASE ~DogNext
      <4>1. \A t \in Sender : conn'[Once(t)] = "open" => conn[Once(t)] = "open"
        BY <1>1, <2>2, <3>3, ConnPool DEF Accept, StopNext, StopSetsRunning, StopConnects,
           StopNotifies, StopReturns, StopStep, WorkerNext, WorkerTests, WorkerSleeps, WorkerServes,
           SpuriousWakeup, vars, wireVars, Typed
      <4> QED
        BY <1>1, <3>1, <4>1 DEF OnceInv
    <3> QED
      BY <3>2, <3>3
  <2> QED
    BY <2>1, <2>2 DEF Next
<1>4. SelfInv'
  <2>1. ASSUME \/ \E s \in Sender : SenderStep(s) \/ TakeOperation(s) \/ TimePasses(s)
               \/ DogNext \/ UNCHANGED vars
        PROVE  SelfInv'
    <3>1. UNCHANGED <<running, stopping, worker, serves>>
      BY <2>1 DEF SenderStep, TakeOperation, GetProtochannel, SendRequest, FindsClosed,
         ReceiveResponse, ReceiveFails, SendAbort, EndAbort, TimePasses, DogNext, DogWakes, DogLocks,
         DogSeesOpen, DogSendsNop, DogCloses, DogDies, vars, serverVars
    <3>2. backlog' = backlog \/ \E c \in Conn : backlog' = Append(backlog, c)
      BY <2>1, ConnPool DEF SenderStep, TakeOperation, GetProtochannel, SendRequest, FindsClosed,
         ReceiveResponse, ReceiveFails, SendAbort, EndAbort, TimePasses, DogNext, DogWakes, DogLocks,
         DogSeesOpen, DogSendsNop, DogCloses, DogDies, Connects, vars, serverVars
    <3> QED
      BY <1>1, <3>1, <3>2, QueueOps DEF SelfInv
  <2>2. ASSUME Accept PROVE SelfInv'
    <3>1. running => Tail(backlog) \in Queue(Conn)
      BY <1>1, <2>2, QueueOps DEF SelfInv, Accept
    <3>2. \A w \in Worker : worker'[w] = "serve" => worker[w] = "serve"
      BY <2>2 DEF Accept, Wake
    <3> QED
      BY <1>1, <2>2, <3>1, <3>2 DEF SelfInv, Accept
  <2>3. ASSUME NEW w \in Worker, WorkerTests(w) PROVE SelfInv'
    <3>1. requests # <<>> => Head(requests) \in Conn
      BY <1>1, QueueOps DEF Typed
    <3> QED
      BY <1>1, <2>3, <3>1 DEF SelfInv, WorkerTests, Typed
  <2>4. ASSUME NEW w \in Worker, WorkerSleeps(w) \/ WorkerServes(w) \/ SpuriousWakeup(w)
        PROVE  SelfInv'
    BY <1>1, <2>4 DEF SelfInv, WorkerSleeps, WorkerServes, SpuriousWakeup, Typed
  <2>5. ASSUME StopNext PROVE SelfInv'
    BY <1>1, <2>5 DEF SelfInv, StopNext, StopSetsRunning, StopConnects, StopNotifies, StopReturns,
       StopStep, Wake, Typed
  <2> QED
    BY <2>1, <2>2, <2>3, <2>4, <2>5 DEF Next, WorkerNext
<1> QED
  BY <1>3, <1>4

----------------------------------------------------------------------------
(* Requests and answers.                                                   *)

(* Sequences of one message. *)
LEMMA OneMessage ==
    /\ \A m : Append(<<>>, m) = <<m>> /\ Head(<<m>>) = m /\ Tail(<<m>>) = <<>> /\ <<m>> # <<>>
    /\ \A m, n : <<m>> = <<n>> => m = n
OBVIOUS

(* What is asked on a connection is at most one request. *)
LEMMA AskedFew ==
    ASSUME NEW c \in Conn
    PROVE  Asked(c) \in {<<>>, <<"op">>, <<"nop">>, <<"abort">>}
BY DEF Asked

(* What is asked on c depends on its sender and on the watchdog. *)
LEMMA AskedSame ==
    ASSUME NEW c \in Conn,
           sender'[c[1]] = "await_abort" <=> sender[c[1]] = "await_abort",
           sender'[c[1]] = "await" <=> sender[c[1]] = "await",
           (dog.at = "await" /\ dog.i = c[1])' <=> (dog.at = "await" /\ dog.i = c[1])
    PROVE  Asked(c)' = Asked(c)
BY DEF Asked

(* A step that leaves c alone, or drops it. *)
LEMMA FlightSame ==
    ASSUME NEW c \in Conn, FlightInv(c), sent'[c] = sent[c], reply'[c] = reply[c],
           Asked(c)' = Asked(c), conn[c] = "dead" => conn'[c] = "dead"
    PROVE  FlightInv(c)'
BY DEF FlightInv

(* A step of the clients keeps requests and answers together. *)
LEMMA ClientFlight ==
    ASSUME IInv,
           (\E s \in Sender : TakeOperation(s) \/ SenderStep(s) \/ TimePasses(s)) \/ DogNext,
           NEW c \in Conn
    PROVE  FlightInv(c)'
<1>1. /\ LocksInv /\ FlightInv(c)
      /\ sender \in [Sender -> SenderAt]
      /\ chan_m \in [Sender -> {Free, "sender", "dog"}]
      /\ conn \in [Conn -> ConnAt] /\ sent \in [Conn -> Mail] /\ reply \in [Conn -> Mail]
      /\ dog \in DogType /\ dog.i \in Sender
      /\ Free \notin {"sender", "dog"}
  BY PoolAssumption DEF IInv, Typed, DogType
<1>2. PICK t \in Sender : c[1] = t /\ (c = Pool(t) \/ c = Once(t))
  BY DEF Conn, Pool, Once
<1>3. \A s, r \in Sender : Once(s) # Pool(r) /\ (Once(s) = Once(r) <=> s = r)
                           /\ (Pool(s) = Pool(r) <=> s = r)
  BY DEF Once, Pool
<1>4. ASSUME NEW s \in Sender,
             TakeOperation(s) \/ GetProtochannel(s) \/ FindsClosed(s) \/ TimePasses(s)
      PROVE  FlightInv(c)'
  <2>1. /\ sent' = sent /\ reply' = reply /\ dog' = dog
        /\ \A r \in Sender : /\ sender'[r] = "await" <=> sender[r] = "await"
                             /\ sender'[r] = "await_abort" <=> sender[r] = "await_abort"
    BY <1>1, <1>4 DEF TakeOperation, GetProtochannel, FindsClosed, TimePasses, Goes, wireVars
  <2>2. conn[c] = "dead" => conn'[c] = "dead"
    BY <1>1, <1>4, ConnPool DEF TakeOperation, GetProtochannel, FindsClosed, TimePasses, HasChannel,
       Connects, wireVars
  <2>3. Asked(c)' = Asked(c)
    BY <1>2, <2>1, AskedSame
  <2> QED
    BY <1>1, <2>1, <2>2, <2>3, FlightSame
<1>5. ASSUME NEW s \in Sender, SendRequest(s) PROVE FlightInv(c)'
  <2>1. /\ chan_m[s] = Free /\ sender[s] = "run" /\ sender'[s] = "await"
        /\ reply' = reply /\ conn' = conn /\ dog' = dog
        /\ sent' = [sent EXCEPT ![Pool(s)] = Append(sent[Pool(s)], "op")]
        /\ \A r \in Sender \ {s} : sender'[r] = sender[r]
    BY <1>1, <1>5 DEF SendRequest, Lockable, Goes
  <2>2. CASE c = Pool(s)
    <3>1. Asked(c) = <<>> /\ Asked(c)' = <<"op">>
      BY <1>1, <2>1, <2>2, ConnPool DEF Asked, LocksInv
    <3>2. sent[c] = <<>> /\ reply[c] = <<>>
      BY <1>1, <3>1 DEF FlightInv
    <3>3. sent'[c] = <<"op">>
      BY <1>1, <2>1, <2>2, <3>2, OneMessage
    <3> QED
      BY <2>1, <3>1, <3>2, <3>3 DEF FlightInv
  <2>3. CASE c # Pool(s)
    <3>1. sent'[c] = sent[c]
      BY <1>1, <2>1, <2>3
    <3>2. Asked(c)' = Asked(c)
      BY <1>2, <2>1, <2>3, ConnPool DEF Asked
    <3> QED
      BY <1>1, <2>1, <3>1, <3>2, FlightSame
  <2> QED
    BY <2>2, <2>3
<1>6. ASSUME NEW s \in Sender, ReceiveResponse(s) \/ ReceiveFails(s) PROVE FlightInv(c)'
  <2>1. /\ sender[s] = "await" /\ sender'[s] \notin {"await", "await_abort"}
        /\ dog' = dog /\ conn' = conn
        /\ \A r \in Sender \ {s} : sender'[r] = sender[r]
        /\ \/ /\ reply[Pool(s)] # <<>> /\ sent' = sent
              /\ reply' = [reply EXCEPT ![Pool(s)] = Tail(reply[Pool(s)])]
           \/ /\ reply[Pool(s)] = <<>> /\ reply' = reply
              /\ sent' = [sent EXCEPT ![Pool(s)] = <<>>]
    BY <1>1, <1>6 DEF ReceiveResponse, ReceiveFails, Goes
  <2>2. CASE c = Pool(s)
    <3>1. Asked(c) = <<"op">> /\ Asked(c)' = <<>>
      BY <1>1, <2>1, <2>2, ConnPool DEF Asked, LocksInv
    <3>2. CASE reply[c] # <<>>
      <4>1. sent[c] = <<>> /\ reply[c] = <<"op">>
        BY <1>1, <3>1, <3>2 DEF FlightInv
      <4>2. sent'[c] = <<>> /\ reply'[c] = <<>>
        BY <1>1, <2>1, <2>2, <3>2, <4>1, OneMessage
      <4> QED
        BY <3>1, <4>2 DEF FlightInv
    <3>3. CASE reply[c] = <<>>
      BY <1>1, <2>1, <2>2, <3>1, <3>3 DEF FlightInv
    <3> QED
      BY <3>2, <3>3
  <2>3. CASE c # Pool(s)
    <3>1. sent'[c] = sent[c] /\ reply'[c] = reply[c]
      BY <1>1, <2>1, <2>3
    <3>2. Asked(c)' = Asked(c)
      BY <1>2, <2>1, <2>3, ConnPool DEF Asked
    <3> QED
      BY <1>1, <2>1, <3>1, <3>2, FlightSame
  <2> QED
    BY <2>2, <2>3
<1>7. ASSUME NEW s \in Sender, SendAbort(s) PROVE FlightInv(c)'
  <2>1. CASE sender'[s] = "await_abort"
    <3>1. /\ sender[s] = "abort" /\ reply' = reply /\ dog' = dog
          /\ \A r \in Sender \ {s} : sender'[r] = sender[r]
          /\ sent' = [sent EXCEPT ![Once(s)] = <<"abort">>]
          /\ conn' = [conn EXCEPT ![Once(s)] = "open"]
      BY <1>1, <1>7, <2>1 DEF SendAbort, Connects, Goes
    <3>2. CASE c = Once(s)
      <4>1. Asked(c) = <<>> /\ Asked(c)' = <<"abort">>
        BY <1>1, <2>1, <3>1, <3>2, ConnPool DEF Asked
      <4>2. reply[c] = <<>>
        BY <1>1, <4>1 DEF FlightInv
      <4> QED
        BY <1>1, <3>1, <3>2, <4>1, <4>2 DEF FlightInv
    <3>3. CASE c # Once(s)
      <4>1. sent'[c] = sent[c] /\ conn'[c] = conn[c]
        BY <1>1, <3>1, <3>3
      <4>2. Asked(c)' = Asked(c)
        BY <1>2, <2>1, <3>1, <3>3, ConnPool DEF Asked
      <4> QED
        BY <1>1, <3>1, <4>1, <4>2, FlightSame
    <3> QED
      BY <3>2, <3>3
  <2>2. CASE sender'[s] # "await_abort"
    <3>1. /\ sender[s] = "abort" /\ UNCHANGED <<reply, sent, conn, dog>>
          /\ sender'[s] = "idle" /\ \A r \in Sender \ {s} : sender'[r] = sender[r]
      BY <1>1, <1>7, <2>2 DEF SendAbort, Goes
    <3>2. Asked(c)' = Asked(c)
      BY <1>2, <3>1, AskedSame
    <3> QED
      BY <1>1, <3>1, <3>2, FlightSame
  <2> QED
    BY <2>1, <2>2
<1>8. ASSUME NEW s \in Sender, EndAbort(s) PROVE FlightInv(c)'
  <2>1. /\ sender[s] = "await_abort" /\ sender'[s] = "idle" /\ dog' = dog
        /\ \A r \in Sender \ {s} : sender'[r] = sender[r]
        /\ conn' = [conn EXCEPT ![Once(s)] = "closed"]
        /\ sent' = [sent EXCEPT ![Once(s)] = <<>>]
        /\ reply' = [reply EXCEPT ![Once(s)] = <<>>]
    BY <1>1, <1>8 DEF EndAbort, Goes
  <2>2. CASE c = Once(s)
    <3>1. Asked(c)' = <<>>
      BY <2>1, <2>2, ConnPool DEF Asked
    <3> QED
      BY <1>1, <2>1, <2>2, <3>1 DEF FlightInv
  <2>3. CASE c # Once(s)
    <3>1. sent'[c] = sent[c] /\ conn'[c] = conn[c] /\ reply'[c] = reply[c]
      BY <1>1, <2>1, <2>3
    <3>2. Asked(c)' = Asked(c)
      BY <1>2, <2>1, <2>3, ConnPool DEF Asked
    <3> QED
      BY <1>1, <3>1, <3>2, FlightSame
  <2> QED
    BY <2>2, <2>3
<1>9. ASSUME DogWakes \/ DogLocks \/ DogSeesOpen \/ DogDies PROVE FlightInv(c)'
  <2>1. /\ UNCHANGED <<sender, sent, reply, conn>>
        /\ dog' = dog \/ (dog.at # "await" /\ dog'.at # "await")
    BY <1>1, <1>9 DEF DogWakes, DogLocks, DogSeesOpen, DogDies, DogGoes, DogMovesOn, wireVars, DogType
  <2>2. Asked(c)' = Asked(c)
    BY <2>1, AskedSame
  <2> QED
    BY <1>1, <2>1, <2>2, FlightSame
<1>10. ASSUME DogSendsNop PROVE FlightInv(c)'
  <2>1. PICK i \in Sender : i = dog.i
    BY <1>1
  <2>2. CASE chan_m[i] = Free
    <3>1. /\ UNCHANGED <<sender, reply, conn>> /\ dog.at = "nop"
          /\ dog'.at = "await" /\ dog'.i = i
          /\ sent' = [sent EXCEPT ![Pool(i)] = Append(sent[Pool(i)], "nop")]
      BY <1>1, <1>10, <2>1, <2>2 DEF DogSendsNop, DogGoes, DogType
    <3>2. CASE c = Pool(i)
      <4>1. Asked(c) = <<>> /\ Asked(c)' = <<"nop">>
        BY <1>1, <2>1, <2>2, <3>1, <3>2, ConnPool DEF Asked, LocksInv
      <4>2. sent[c] = <<>> /\ reply[c] = <<>>
        BY <1>1, <4>1 DEF FlightInv
      <4>3. sent'[c] = <<"nop">>
        BY <1>1, <3>1, <3>2, <4>2, OneMessage
      <4> QED
        BY <3>1, <4>1, <4>2, <4>3 DEF FlightInv
    <3>3. CASE c # Pool(i)
      <4>1. sent'[c] = sent[c]
        BY <1>1, <3>1, <3>3
      <4>2. Asked(c)' = Asked(c)
        BY <1>2, <2>1, <3>1, <3>3, ConnPool DEF Asked
      <4> QED
        BY <1>1, <3>1, <4>1, <4>2, FlightSame
    <3> QED
      BY <3>2, <3>3
  <2>3. CASE chan_m[i] # Free
    <3>1. UNCHANGED <<sender, sent, reply, conn, dog>>
      BY <1>10, <2>1, <2>3 DEF DogSendsNop
    <3>2. Asked(c)' = Asked(c)
      BY <3>1, AskedSame
    <3> QED
      BY <1>1, <3>1, <3>2, FlightSame
  <2> QED
    BY <2>2, <2>3
<1>11. ASSUME DogCloses PROVE FlightInv(c)'
  <2>1. PICK i \in Sender : i = dog.i
    BY <1>1
  <2>2. /\ UNCHANGED <<sender, sent>> /\ dog.at = "await" /\ dog'.at # "await"
        /\ reply[Pool(i)] # <<>>
        /\ reply' = [reply EXCEPT ![Pool(i)] = Tail(reply[Pool(i)])]
        /\ conn' = [conn EXCEPT ![Pool(i)] = "closed"]
    BY <1>1, <1>11, <2>1 DEF DogCloses, DogMovesOn
  <2>3. CASE c = Pool(i)
    <3>1. Asked(c) = <<"nop">> /\ Asked(c)' = <<>>
      BY <1>1, <2>1, <2>2, <2>3, ConnPool DEF Asked, LocksInv
    <3>2. sent[c] = <<>> /\ reply[c] = <<"nop">>
      BY <1>1, <2>2, <2>3, <3>1 DEF FlightInv
    <3>3. reply'[c] = <<>>
      BY <1>1, <2>2, <2>3, <3>2, OneMessage
    <3> QED
      BY <2>2, <3>1, <3>2, <3>3 DEF FlightInv
  <2>4. CASE c # Pool(i)
    <3>1. reply'[c] = reply[c] /\ conn'[c] = conn[c]
      BY <1>1, <2>2, <2>4
    <3>2. Asked(c)' = Asked(c)
      BY <1>2, <2>1, <2>2, <2>4, ConnPool DEF Asked
    <3> QED
      BY <1>1, <2>2, <3>1, <3>2, FlightSame
  <2> QED
    BY <2>3, <2>4
<1> QED
  BY <1>4, <1>5, <1>6, <1>7, <1>8, <1>9, <1>10, <1>11 DEF SenderStep, DogNext

(* A step of the server keeps requests and answers together. *)
LEMMA ServerFlight ==
    ASSUME IInv,
           Accept \/ StopNext \/ UNCHANGED vars
             \/ \E w \in Worker : WorkerNext(w) \/ SpuriousWakeup(w),
           NEW c \in Conn
    PROVE  FlightInv(c)'
<1>1. /\ FlightInv(c) /\ conn \in [Conn -> ConnAt]
      /\ sent \in [Conn -> Mail] /\ reply \in [Conn -> Mail]
  BY DEF IInv, Typed
<1>2. UNCHANGED <<sender, dog>>
  BY DEF Accept, StopNext, StopSetsRunning, StopConnects, StopNotifies, StopReturns, StopStep,
     WorkerNext, WorkerTests, WorkerSleeps, WorkerServes, SpuriousWakeup, vars, clientVars
<1>3. Asked(c)' = Asked(c)
  BY <1>2, AskedSame
<1>4. ASSUME NEW w \in Worker, WorkerServes(w) PROVE FlightInv(c)'
  <2>1. PICK d \in Conn : d = serves[w]
    BY <1>4 DEF IInv, SelfInv, WorkerServes
  <2>2. sent[d] # <<>> /\ sent' = [sent EXCEPT ![d] = Tail(sent[d])]
    BY <1>4, <2>1 DEF WorkerServes
  <2>3. \/ /\ reply' = [reply EXCEPT ![d] = Append(reply[d], Head(sent[d]))]
           /\ conn' = conn
        \/ /\ conn' = [conn EXCEPT ![d] = "dead"]
           /\ reply' = reply
    BY <1>4, <2>1 DEF WorkerServes
  <2>4. CASE c = d
    <3>1. PICK m : sent[c] = <<m>> /\ Asked(c) = <<m>> /\ reply[c] = <<>>
      BY <1>1, <2>2, <2>4, AskedFew DEF FlightInv
    <3>2. sent'[c] = <<>>
      BY <1>1, <2>2, <2>4, <3>1, OneMessage
    <3>3. reply'[c] = <<m>> \/ (reply'[c] = <<>> /\ conn'[c] = "dead")
      BY <1>1, <2>3, <2>4, <3>1, OneMessage
    <3> QED
      BY <1>3, <3>1, <3>2, <3>3 DEF FlightInv
  <2>5. CASE c # d
    BY <1>1, <1>3, <2>2, <2>3, <2>5, FlightSame
  <2> QED
    BY <2>4, <2>5
<1>5. ASSUME Accept \/ StopNext \/ UNCHANGED vars
               \/ \E w \in Worker : WorkerTests(w) \/ WorkerSleeps(w) \/ SpuriousWakeup(w)
      PROVE  FlightInv(c)'
  <2>1. sent' = sent /\ reply' = reply
    BY <1>5 DEF Accept, StopNext, StopSetsRunning, StopConnects, StopNotifies, StopReturns, StopStep,
       WorkerTests, WorkerSleeps, SpuriousWakeup, vars, wireVars
  <2>2. conn[c] = "dead" => conn'[c] = "dead"
    BY <1>1, <1>5 DEF Accept, StopNext, StopSetsRunning, StopConnects, StopNotifies, StopReturns,
       StopStep, WorkerTests, WorkerSleeps, SpuriousWakeup, vars, wireVars
  <2> QED
    BY <1>1, <1>3, <2>1, <2>2, FlightSame
<1> QED
  BY <1>4, <1>5 DEF WorkerNext

(* The inductive invariant. *)
THEOREM ChannelsInvariant == Spec => []IInv
<1>1. IInv /\ [Next]_vars => IInv'
  BY TypedStep, LocksStep, OnceStep, ClientFlight, ServerFlight DEF IInv, Next
<1> QED
  BY <1>1, ChannelsInit, PTL DEF Spec

(* Types. *)
THEOREM ChannelsTypeCorrect == Spec => []TypeOK
<1>1. IInv => TypeOK
  BY TypedIsTypeOK DEF IInv
<1> QED
  BY <1>1, ChannelsInvariant, PTL

(* A channel carries one request at a time, and the answer is read by the  *)
(* thread that asked, whatever watchdog, senders and workers do, and       *)
(* whenever the server is stopped.                                         *)
THEOREM ChannelsAnswer == Spec => []AnswersGoToAsker
<1>1. IInv => AnswersGoToAsker
  <2> SUFFICES ASSUME IInv, NEW s \in Sender
               PROVE  \/ sent[Pool(s)] \o reply[Pool(s)] = Asked(Pool(s))
                      \/ sent[Pool(s)] \o reply[Pool(s)] = <<>> /\ conn[Pool(s)] = "dead"
    BY ConnPool DEF AnswersGoToAsker, Asked
  <2>1. FlightInv(Pool(s)) /\ Asked(Pool(s)) \in {<<>>, <<"op">>, <<"nop">>, <<"abort">>}
    BY ConnPool, AskedFew DEF IInv
  <2>2. /\ <<>> \o <<>> = <<>>
        /\ \A m : <<m>> \o <<>> = <<m>> /\ <<>> \o <<m>> = <<m>>
    OBVIOUS
  <2> QED
    BY <2>1, <2>2 DEF FlightInv
<1> QED
  BY <1>1, ChannelsInvariant, PTL

----------------------------------------------------------------------------
(* The watchdog, when a sender is not suspended between two statements.    *)

(* A step that touches neither the watchdog's position nor a channel in    *)
(* use, and makes no sender about to run, keeps it out of the way.         *)
LEMMA DogApart ==
    ASSUME DogInv, dog' = dog,
           dog.at = "nop" => chan_m'[dog.i] = Free,
           dog.at \in {"is_open", "nop", "await"} => stale'[dog.i],
           \A s \in Sender : sender'[s] = "run" => ~stale'[s] /\ conn'[Pool(s)] # "closed"
    PROVE  DogInv'
BY DEF DogInv, WatchdogNeverCollides, HasChannel

(* A step of a sender keeps the watchdog apart. *)
LEMMA DogSenderStep ==
    ASSUME ~Pauses, IInv, DogInv, NEW s \in Sender,
           TakeOperation(s) \/ SenderStep(s) \/ TimePasses(s)
    PROVE  DogInv'
<1>1. /\ LocksInv /\ dog.i \in Sender
      /\ sender \in [Sender -> SenderAt] /\ stale \in [Sender -> BOOLEAN]
      /\ chan_m \in [Sender -> {Free, "sender", "dog"}]
      /\ cfc_m \in [Sender -> {Free, "dog"}]
      /\ conn \in [Conn -> ConnAt] /\ Free \notin {"sender", "dog"}
  BY PoolAssumption DEF IInv, Typed, DogType
<1>2. \A r \in Sender : Pool(r) \in Conn /\ Once(s) # Pool(r) /\ (Pool(s) = Pool(r) <=> s = r)
  BY ConnPool DEF Once, Pool
<1>3. \A r \in Sender : sender[r] = "run" => ~stale[r] /\ conn[Pool(r)] # "closed"
  BY DEF DogInv, WatchdogNeverCollides, HasChannel
<1>4. ASSUME GetProtochannel(s) PROVE DogInv'
  <2>1. ~(dog.at \in {"is_open", "nop", "await"} /\ dog.i = s)
    BY <1>1, <1>4 DEF GetProtochannel, LocksInv
  <2>2. /\ dog' = dog /\ chan_m' = chan_m
        /\ \A r \in Sender : r # s => stale'[r] = stale[r] /\ sender'[r] = sender[r]
    BY <1>1, <1>4 DEF GetProtochannel, Touch, Goes
  <2>3. \A r \in Sender : r # s => conn'[Pool(r)] = conn[Pool(r)]
    BY <1>1, <1>2, <1>4 DEF GetProtochannel, Connects
  <2>4. sender'[s] = "run" => ~stale'[s] /\ conn'[Pool(s)] # "closed"
    BY <1>1, <1>2, <1>4 DEF GetProtochannel, Touch, Goes, Connects, HasChannel
  <2>5. dog.at = "nop" => chan_m[dog.i] = Free
    BY DEF DogInv, WatchdogNeverCollides
  <2>6. dog.at \in {"is_open", "nop", "await"} => stale[dog.i]
    BY DEF DogInv
  <2>7. dog.at \in {"is_open", "nop", "await"} => stale'[dog.i]
    BY <1>1, <2>1, <2>2, <2>6
  <2> QED
    BY <1>3, <2>2, <2>3, <2>4, <2>5, <2>7, DogApart
<1>5. ASSUME SendRequest(s) PROVE DogInv'
  <2>1. sender[s] = "run" /\ ~stale[s]
    BY <1>3, <1>5 DEF SendRequest
  <2>2. ~(dog.at = "nop" /\ dog.i = s)
    BY <2>1 DEF DogInv
  <2> QED
    BY <1>1, <1>3, <1>5, <2>2, DogApart DEF DogInv, WatchdogNeverCollides, SendRequest, Goes
<1>6. ASSUME TakeOperation(s) \/ FindsClosed(s) \/ ReceiveResponse(s) \/ ReceiveFails(s)
      PROVE  DogInv'
  <2>1. /\ UNCHANGED <<dog, stale, conn>>
        /\ chan_m' = chan_m \/ chan_m' = [chan_m EXCEPT ![s] = Free]
        /\ \A r \in Sender : sender'[r] = "run" => sender[r] = "run"
    BY <1>1, <1>6 DEF TakeOperation, FindsClosed, ReceiveResponse, ReceiveFails, Goes, wireVars
  <2> QED
    BY <1>1, <1>3, <2>1, DogApart DEF DogInv, WatchdogNeverCollides
<1>7. ASSUME SendAbort(s) \/ EndAbort(s) PROVE DogInv'
  <2>1. /\ UNCHANGED <<dog, stale, chan_m>>
        /\ \A r \in Sender : sender'[r] = "run" => sender[r] = "run"
    BY <1>1, <1>7 DEF SendAbort, EndAbort, Goes
  <2>2. \A r \in Sender : conn'[Pool(r)] = conn[Pool(r)]
    BY <1>1, <1>2, <1>7 DEF SendAbort, EndAbort, Connects
  <2> QED
    BY <1>3, <2>1, <2>2, DogApart DEF DogInv, WatchdogNeverCollides
<1>8. ASSUME TimePasses(s) PROVE DogInv'
  <2>1. sender[s] # "run" /\ UNCHANGED <<sender, dog, chan_m, conn>>
    BY <1>8 DEF TimePasses, wireVars
  <2>2. stale' = [stale EXCEPT ![s] = TRUE]
    BY <1>8 DEF TimePasses
  <2>3. \A r \in Sender : stale'[r] <=> (stale[r] \/ r = s)
    BY <1>1, <2>2
  <2> QED
    BY <1>1, <1>3, <2>1, <2>3, DogApart DEF DogInv, WatchdogNeverCollides
<1> QED
  BY <1>4, <1>5, <1>6, <1>7, <1>8 DEF SenderStep

(* A step of the watchdog keeps it apart. *)
LEMMA DogOwnStep ==
    ASSUME IInv, DogInv, DogNext
    PROVE  DogInv'
<1>1. /\ dog.i \in Sender /\ dog \in DogType /\ stale \in [Sender -> BOOLEAN]
      /\ conn \in [Conn -> ConnAt]
  BY DEF IInv, Typed, DogType
<1>2. sender' = sender /\ stale' = stale
  BY DEF DogNext, DogWakes, DogLocks, DogSeesOpen, DogSendsNop, DogCloses, DogDies
<1>3. /\ \A r \in Sender : sender[r] = "run" => ~stale[r] /\ conn[Pool(r)] # "closed"
      /\ dog.at \in {"is_open", "nop", "await"} => stale[dog.i]
  BY DEF DogInv, WatchdogNeverCollides, HasChannel
<1>4. \A r \in Sender : sender[r] = "run" => conn'[Pool(r)] # "closed"
  <2>1. ASSUME DogCloses, NEW r \in Sender, sender[r] = "run" PROVE conn'[Pool(r)] # "closed"
    <3>1. Pool(r) # Pool(dog.i)
      BY <1>1, <1>3, <2>1 DEF DogCloses, Pool
    <3> QED
      BY <1>1, <1>3, <2>1, <3>1, ConnPool DEF DogCloses
  <2>2. DogCloses \/ conn' = conn
    BY DEF DogNext, DogWakes, DogLocks, DogSeesOpen, DogSendsNop, DogCloses, DogDies, wireVars
  <2> QED
    BY <1>3, <2>1, <2>2
<1>5. dog'.at \in {"is_open", "nop", "await"} => stale[dog'.i]
  BY <1>1, <1>3 DEF DogNext, DogWakes, DogLocks, DogSeesOpen, DogSendsNop, DogCloses, DogDies, DogGoes,
     DogMovesOn, DogType, Expired
<1>6. dog'.at = "nop" => chan_m'[dog'.i] = Free
  BY <1>1 DEF DogNext, DogWakes, DogLocks, DogSeesOpen, DogSendsNop, DogCloses, DogDies, DogGoes,
     DogMovesOn, DogType, DogInv, WatchdogNeverCollides
<1> QED
  BY <1>2, <1>3, <1>4, <1>5, <1>6 DEF DogInv, WatchdogNeverCollides, HasChannel

(* A step of the server leaves clients and watchdog where they are, and    *)
(* closes no channel: it can only drop it.                                 *)
LEMMA DogServerStep ==
    ASSUME IInv, DogInv,
           Accept \/ StopNext \/ UNCHANGED vars
             \/ \E w \in Worker : WorkerNext(w) \/ SpuriousWakeup(w)
    PROVE  DogInv'
<1>1. UNCHANGED <<sender, dog, stale, chan_m>>
  BY DEF Accept, StopNext, StopSetsRunning, StopConnects, StopNotifies, StopReturns, StopStep,
     WorkerNext, WorkerTests, WorkerSleeps, WorkerServes, SpuriousWakeup, vars, clientVars
<1>2. conn \in [Conn -> ConnAt]
  BY DEF IInv, Typed
<1>3. \A c \in Conn : conn[c] # "closed" => conn'[c] # "closed"
  <2>1. ASSUME NEW w \in Worker, WorkerServes(w), NEW c \in Conn, conn[c] # "closed"
        PROVE  conn'[c] # "closed"
    BY <1>2, <2>1 DEF WorkerServes
  <2> QED
    BY <1>2, <2>1 DEF Accept, StopNext, StopSetsRunning, StopConnects, StopNotifies, StopReturns,
       StopStep, WorkerNext, WorkerTests, WorkerSleeps, SpuriousWakeup, vars, wireVars
<1> QED
  BY <1>1, <1>3, ConnPool, DogApart DEF DogInv, WatchdogNeverCollides, HasChannel

(* The watchdog never closes a channel under a sender about to use it and  *)
(* never finds one busy, which would end the process: the consumer's mutex *)
(* and the refreshed last_use of get_protochannel keep them apart as long  *)
(* as five seconds do not pass between two statements of a sender.  That   *)
(* condition is needed: with Pauses the property is false.                 *)
THEOREM ChannelsWatchdog == ASSUME ~Pauses PROVE Spec => []WatchdogNeverCollides
<1>1. Init => DogInv
  BY PoolAssumption DEF Init, DogInv, WatchdogNeverCollides
<1>2. IInv /\ DogInv /\ [Next]_vars => DogInv'
  BY DogSenderStep, DogOwnStep, DogServerStep DEF Next
<1>3. DogInv => WatchdogNeverCollides
  BY DEF DogInv
<1> QED
  BY <1>1, <1>2, <1>3, ChannelsInvariant, PTL DEF Spec

----------------------------------------------------------------------------
(* Where the server keeps a connection.                                    *)

(* The positions of c in a queue, and the workers that serve it. *)
At(c, seq) == {i \in DOMAIN seq : seq[i] = c}
Serving(c) == {w \in Worker : worker[w] = "serve" /\ serves[w] = c}

(* Whether x is c, as a number. *)
Is(x, c) == IF x = c THEN 1 ELSE 0

(* Places, in these terms. *)
LEMMA PlacesSum ==
    ASSUME NEW c
    PROVE  Places(c) = Occurs(c, backlog) + Occurs(c, requests) + Cardinality(Serving(c))
BY DEF Places, Serving

(* The positions are finitely many. *)
LEMMA AtFinite ==
    ASSUME NEW S, NEW q \in Queue(S), NEW c
    PROVE  IsFiniteSet(At(c, q)) /\ Occurs(c, q) = Cardinality(At(c, q)) /\ Occurs(c, q) \in Nat
<1>1. DOMAIN q = 1 .. Len(q) /\ Len(q) \in Nat
  BY DEF Queue
<1>2. IsFiniteSet(1 .. Len(q))
  BY <1>1, FS_Interval
<1>3. At(c, q) \in SUBSET (1 .. Len(q))
  BY <1>1 DEF At
<1>4. IsFiniteSet(At(c, q))
  BY <1>2, <1>3, FS_Subset
<1>5. Occurs(c, q) = Cardinality(At(c, q))
  BY DEF Occurs, At
<1> QED
  BY <1>4, <1>5, FS_CardinalityType

(* Who joins a queue is in it once more. *)
LEMMA OccursAppend ==
    ASSUME NEW S, NEW q \in Queue(S), NEW x \in S, NEW c
    PROVE  Occurs(c, Append(q, x)) = Occurs(c, q) + Is(x, c)
<1>1. /\ Append(q, x) \in Queue(S) /\ Len(q) \in Nat
      /\ DOMAIN q = 1 .. Len(q) /\ DOMAIN Append(q, x) = 1 .. Len(q) + 1
      /\ \A i \in 1 .. Len(q) : Append(q, x)[i] = q[i]
      /\ Append(q, x)[Len(q) + 1] = x
  BY AppendProperties DEF Queue
<1>2. IsFiniteSet(At(c, q)) /\ Occurs(c, q) = Cardinality(At(c, q)) /\ Occurs(c, q) \in Nat
  BY AtFinite
<1>3. Occurs(c, Append(q, x)) = Cardinality(At(c, Append(q, x)))
  BY <1>1, AtFinite
<1>4. CASE x = c
  <2>1. At(c, Append(q, x)) = At(c, q) \cup {Len(q) + 1} /\ Len(q) + 1 \notin At(c, q)
    BY <1>1, <1>4 DEF At
  <2>2. Cardinality(At(c, q) \cup {Len(q) + 1}) = Cardinality(At(c, q)) + 1
    BY <1>2, <2>1, FS_AddElement
  <2> QED
    BY <1>2, <1>3, <1>4, <2>1, <2>2 DEF Is
<1>5. CASE x # c
  <2>1. At(c, Append(q, x)) = At(c, q)
    BY <1>1, <1>5 DEF At
  <2> QED
    BY <1>2, <1>3, <1>5, <2>1 DEF Is
<1> QED
  BY <1>4, <1>5

(* The head of a queue is in it once more than in its tail. *)
LEMMA OccursTail ==
    ASSUME NEW S, NEW q \in Queue(S), q # <<>>, NEW c
    PROVE  Occurs(c, q) = Occurs(c, Tail(q)) + Is(Head(q), c)
<1>1. /\ Tail(q) \in Queue(S) /\ Len(q) \in Nat \ {0} /\ Len(Tail(q)) = Len(q) - 1
      /\ DOMAIN q = 1 .. Len(q) /\ DOMAIN Tail(q) = 1 .. Len(q) - 1
      /\ \A i \in 1 .. Len(q) - 1 : Tail(q)[i] = q[i + 1]
      /\ q[1] = Head(q)
  <2>1. Tail(q) \in Seq(S) /\ Len(Tail(q)) = Len(q) - 1
        /\ \A i \in 1 .. Len(Tail(q)) : Tail(q)[i] = q[i + 1]
    BY HeadTailProperties DEF Queue
  <2>2. q \in Seq(S) /\ Len(q) \in Nat \ {0}
    BY EmptySeq DEF Queue
  <2> QED
    BY <2>1, <2>2 DEF Queue
<1>2. /\ IsFiniteSet(At(c, q)) /\ Occurs(c, q) = Cardinality(At(c, q)) /\ Occurs(c, q) \in Nat
      /\ IsFiniteSet(At(c, Tail(q))) /\ Occurs(c, Tail(q)) = Cardinality(At(c, Tail(q)))
      /\ Occurs(c, Tail(q)) \in Nat
  BY <1>1, AtFinite
<1>3. Cardinality(At(c, q) \ {1}) = Cardinality(At(c, Tail(q)))
  <2> DEFINE shift == [i \in At(c, Tail(q)) |-> i + 1]
  <2>1. shift \in Injection(At(c, Tail(q)), At(c, q) \ {1})
    <3>1. \A i \in At(c, Tail(q)) : i \in 1 .. Len(q) - 1 /\ i + 1 \in At(c, q) \ {1}
      BY <1>1 DEF At
    <3> QED
      BY <1>1, <3>1 DEF Injection, IsInjective
  <2>2. shift \in Surjection(At(c, Tail(q)), At(c, q) \ {1})
    <3>1. \A j \in At(c, q) \ {1} : j \in 2 .. Len(q) /\ j - 1 \in At(c, Tail(q)) /\ (j - 1) + 1 = j
      BY <1>1 DEF At
    <3>2. \A j \in At(c, q) \ {1} : \E i \in At(c, Tail(q)) : shift[i] = j
      BY <3>1
    <3> QED
      BY <2>1, <3>2 DEF Injection, Surjection
  <2>3. ExistsBijection(At(c, Tail(q)), At(c, q) \ {1})
    BY <2>1, <2>2 DEF Bijection, ExistsBijection
  <2> QED
    BY <1>2, <2>3, FS_Bijection
<1>4. 1 \in At(c, q) <=> Head(q) = c
  BY <1>1 DEF At
<1>5. Cardinality(At(c, q) \ {1}) = IF 1 \in At(c, q) THEN Cardinality(At(c, q)) - 1
                                                      ELSE Cardinality(At(c, q))
  BY <1>2, FS_RemoveElement
<1> QED
  BY <1>2, <1>3, <1>4, <1>5 DEF Is

(* The workers of a connection are finitely many. *)
LEMMA ServingFinite ==
    ASSUME NEW c
    PROVE  IsFiniteSet(Serving(c)) /\ Cardinality(Serving(c)) \in Nat
<1>1. Serving(c) \in SUBSET Worker
  BY DEF Serving
<1> QED
  BY <1>1, PoolAssumption, FS_Subset, FS_CardinalityType

(* While the server lives, c is where it should be. *)
PlaceInv(c) == stopping # "done" => Places(c) = Owed(c)

(* Each term of Places is a number. *)
LEMMA PlacesNat ==
    ASSUME Typed, NEW c
    PROVE  /\ Occurs(c, backlog) \in Nat /\ Occurs(c, requests) \in Nat
           /\ Cardinality(Serving(c)) \in Nat
           /\ Places(c) = Occurs(c, backlog) + Occurs(c, requests) + Cardinality(Serving(c))
BY AtFinite, ServingFinite, PlacesSum DEF Typed

(* A step that moves no connection. *)
LEMMA PlacesSame ==
    ASSUME NEW c, UNCHANGED <<backlog, requests, serves>>,
           \A w \in Worker : worker'[w] = "serve" <=> worker[w] = "serve"
    PROVE  Places(c)' = Places(c)
BY DEF Places, Occurs

(* A step that does to c nothing that counts. *)
LEMMA OwedSame ==
    ASSUME NEW c, conn'[c] = conn[c], reply'[c] = reply[c]
    PROVE  Owed(c)' = Owed(c)
BY DEF Owed

(* A new connection takes its place in the backlog. *)
LEMMA ConnectPlaces ==
    ASSUME Typed, NEW c \in Conn, PlaceInv(c), NEW d \in Conn, Connects(d),
           conn[d] # "open", reply[d] = <<>>,
           UNCHANGED <<reply, requests, worker, serves, stopping>>
    PROVE  PlaceInv(c)'
<1> SUFFICES ASSUME stopping # "done" PROVE Places(c)' = Owed(c)'
  BY DEF PlaceInv
<1>1. /\ Occurs(c, backlog') = Occurs(c, backlog) + Is(d, c)
      /\ UNCHANGED <<Occurs(c, requests), Serving(c)>>
  <2>1. backlog \in Queue(Conn \cup {SelfConn}) /\ backlog' = Append(backlog, d)
    BY DEF Typed, Connects
  <2>2. Occurs(c, Append(backlog, d)) = Occurs(c, backlog) + Is(d, c)
    BY <2>1, OccursAppend
  <2>3. UNCHANGED <<Occurs(c, requests), Serving(c)>>
    BY DEF Serving, Occurs
  <2> QED
    BY <2>1, <2>2, <2>3
<1>2. Places(c)' = Occurs(c, backlog') + Occurs(c, requests) + Cardinality(Serving(c))
  BY <1>1 DEF Places, Serving, Occurs
<1>3. Places(c) = Owed(c)
  BY DEF PlaceInv
<1>4. CASE c = d
  <2>1. Owed(c) = 0 /\ Owed(c)' = 1
    BY <1>4 DEF Owed, Connects, Typed
  <2> QED
    BY <1>1, <1>2, <1>3, <1>4, <2>1, PlacesNat DEF Is
<1>5. CASE c # d
  <2>1. Owed(c)' = Owed(c)
    BY <1>5, OwedSame DEF Connects, Typed
  <2> QED
    BY <1>1, <1>2, <1>3, <1>5, <2>1, PlacesNat DEF Is
<1> QED
  BY <1>4, <1>5

(* A step of the clients keeps every connection in its place: one that     *)
(* takes an answer does so when it is due, and one that closes a channel   *)
(* closes one whose worker has left it.                                    *)
LEMMA ClientPlaces ==
    ASSUME IInv,
           (\E s \in Sender : TakeOperation(s) \/ SenderStep(s) \/ TimePasses(s)) \/ DogNext,
           NEW c \in Conn, PlaceInv(c)
    PROVE  PlaceInv(c)'
<1>1. /\ Typed /\ LocksInv /\ OnceInv
      /\ sender \in [Sender -> SenderAt]
      /\ conn \in [Conn -> ConnAt] /\ reply \in [Conn -> Mail]
      /\ dog \in DogType /\ dog.i \in Sender /\ Free # "dog"
      /\ \A d \in Conn : FlightInv(d)
  BY PoolAssumption DEF IInv, Typed, DogType
<1>2. ASSUME UNCHANGED serverVars, Owed(c)' = Owed(c) PROVE PlaceInv(c)'
  <2>1. stopping' = stopping /\ Places(c)' = Places(c)
    BY <1>2, PlacesSame DEF serverVars
  <2> QED
    BY <1>2, <2>1 DEF PlaceInv
<1>3. ASSUME NEW s \in Sender,
             \/ TakeOperation(s) \/ FindsClosed(s) \/ TimePasses(s)
             \/ SendRequest(s) \/ ReceiveFails(s)
      PROVE  PlaceInv(c)'
  <2>1. UNCHANGED <<conn, reply>> /\ UNCHANGED serverVars
    BY <1>3 DEF TakeOperation, FindsClosed, TimePasses, SendRequest, ReceiveFails, wireVars
  <2> QED
    BY <1>2, <2>1, OwedSame
<1>4. ASSUME NEW s \in Sender, GetProtochannel(s) PROVE PlaceInv(c)'
  <2>1. CASE HasChannel(s) \/ ~Listening
    <3>1. UNCHANGED <<conn, reply>> /\ UNCHANGED serverVars
      BY <1>4, <2>1 DEF GetProtochannel, serverVars
    <3> QED
      BY <1>2, <3>1, OwedSame
  <2>2. CASE ~HasChannel(s) /\ Listening
    <3>1. Connects(Pool(s)) /\ UNCHANGED <<reply, requests, worker, serves, stopping>>
      BY <1>4, <2>2 DEF GetProtochannel
    <3>2. Asked(Pool(s)) = <<>>
      BY <1>1, <1>4, ConnPool DEF GetProtochannel, LocksInv, Asked
    <3>3. reply[Pool(s)] = <<>>
      BY <1>1, <3>2, ConnPool DEF FlightInv
    <3>4. conn[Pool(s)] # "open"
      BY <2>2 DEF HasChannel
    <3> QED
      BY <1>1, <3>1, <3>3, <3>4, ConnPool, ConnectPlaces
  <2> QED
    BY <2>1, <2>2
<1>5. ASSUME NEW s \in Sender, SendAbort(s) PROVE PlaceInv(c)'
  <2>1. CASE UNCHANGED <<conn, backlog>>
    <3>1. UNCHANGED <<conn, reply>> /\ UNCHANGED serverVars
      BY <1>5, <2>1 DEF SendAbort, serverVars
    <3> QED
      BY <1>2, <3>1, OwedSame
  <2>2. CASE Connects(Once(s))
    <3>1. Asked(Once(s)) = <<>>
      BY <1>5, ConnPool DEF SendAbort, Asked
    <3>2. reply[Once(s)] = <<>>
      BY <1>1, <3>1, ConnPool DEF FlightInv
    <3>3. conn[Once(s)] # "open"
      BY <1>1, <1>5 DEF SendAbort, OnceInv
    <3>4. UNCHANGED <<reply, requests, worker, serves, stopping>>
      BY <1>5 DEF SendAbort
    <3> QED
      BY <1>1, <2>2, <3>2, <3>3, <3>4, ConnPool, ConnectPlaces
  <2> QED
    BY <1>5, <2>1, <2>2 DEF SendAbort
<1>6. ASSUME NEW s \in Sender, ReceiveResponse(s) PROVE PlaceInv(c)'
  <2>1. /\ sender[s] = "await" /\ reply[Pool(s)] # <<>> /\ conn' = conn
        /\ reply' = [reply EXCEPT ![Pool(s)] = Tail(reply[Pool(s)])]
        /\ UNCHANGED serverVars
    BY <1>6 DEF ReceiveResponse
  <2>2. CASE c = Pool(s)
    <3>1. reply[c] = <<"op">>
      BY <1>1, <2>1, <2>2, ConnPool DEF FlightInv, Asked
    <3>2. reply'[c] = <<>>
      BY <1>1, <2>1, <2>2, <3>1, OneMessage
    <3>3. Head(reply[c]) = "op"
      BY <3>1, OneMessage
    <3>4. Owed(c)' = Owed(c)
      BY <2>1, <3>2, <3>3 DEF Owed, Final
    <3> QED
      BY <1>2, <2>1, <3>4
  <2>3. CASE c # Pool(s)
    BY <1>1, <1>2, <2>1, <2>3, OwedSame
  <2> QED
    BY <2>2, <2>3
<1>7. ASSUME NEW s \in Sender, EndAbort(s) PROVE PlaceInv(c)'
  <2>1. /\ sender[s] = "await_abort" /\ UNCHANGED serverVars
        /\ reply[Once(s)] # <<>> \/ conn[Once(s)] = "dead"
        /\ conn' = [conn EXCEPT ![Once(s)] = "closed"]
        /\ reply' = [reply EXCEPT ![Once(s)] = <<>>]
    BY <1>7 DEF EndAbort
  <2>2. CASE c = Once(s)
    <3>1. Asked(c) = <<"abort">>
      BY <2>1, <2>2, ConnPool DEF Asked
    <3>2. reply[c] = <<>> \/ Head(reply[c]) = "abort"
      BY <1>1, <3>1, OneMessage DEF FlightInv
    <3>3. Owed(c) = 0 /\ Owed(c)' = 0
      BY <1>1, <2>1, <2>2, <3>2 DEF Owed, Final
    <3> QED
      BY <1>2, <2>1, <3>3
  <2>3. CASE c # Once(s)
    BY <1>1, <1>2, <2>1, <2>3, OwedSame
  <2> QED
    BY <2>2, <2>3
<1>8. ASSUME DogWakes \/ DogLocks \/ DogSeesOpen \/ DogSendsNop \/ DogDies PROVE PlaceInv(c)'
  <2>1. UNCHANGED <<conn, reply>> /\ UNCHANGED serverVars
    BY <1>8 DEF DogWakes, DogLocks, DogSeesOpen, DogSendsNop, DogDies, wireVars
  <2> QED
    BY <1>2, <2>1, OwedSame
<1>9. ASSUME DogCloses PROVE PlaceInv(c)'
  <2>1. PICK i \in Sender : i = dog.i
    BY <1>1
  <2>2. /\ dog.at = "await" /\ reply[Pool(i)] # <<>> /\ UNCHANGED serverVars
        /\ reply' = [reply EXCEPT ![Pool(i)] = Tail(reply[Pool(i)])]
        /\ conn' = [conn EXCEPT ![Pool(i)] = "closed"]
    BY <1>9, <2>1 DEF DogCloses
  <2>3. CASE c = Pool(i)
    <3>1. Asked(c) = <<"nop">>
      BY <1>1, <2>1, <2>2, <2>3, ConnPool DEF Asked, LocksInv
    <3>2. Head(reply[c]) = "nop" /\ reply[c] # <<>>
      BY <1>1, <2>2, <2>3, <3>1, OneMessage DEF FlightInv
    <3>3. Owed(c) = 0 /\ Owed(c)' = 0
      BY <1>1, <2>2, <2>3, <3>2 DEF Owed, Final
    <3> QED
      BY <1>2, <2>2, <3>3
  <2>4. CASE c # Pool(i)
    BY <1>1, <1>2, <2>2, <2>4, OwedSame
  <2> QED
    BY <2>3, <2>4
<1> QED
  BY <1>3, <1>4, <1>5, <1>6, <1>7, <1>8, <1>9 DEF SenderStep, DogNext

(* The worker that takes c joins its servers; the one that leaves goes.    *)
LEMMA ServingChange ==
    ASSUME Typed, NEW c, NEW w \in Worker,
           \A v \in Worker \ {w} : worker'[v] = worker[v] /\ serves'[v] = serves[v]
    PROVE  /\ w \notin Serving(c) /\ w \in Serving(c)' =>
                Cardinality(Serving(c))' = Cardinality(Serving(c)) + 1
           /\ w \in Serving(c) /\ w \notin Serving(c)' =>
                Cardinality(Serving(c))' = Cardinality(Serving(c)) - 1
           /\ (w \in Serving(c) <=> w \in Serving(c)') =>
                Cardinality(Serving(c))' = Cardinality(Serving(c))
<1>1. IsFiniteSet(Serving(c))
  BY ServingFinite
<1>2. \A v \in Worker \ {w} : v \in Serving(c) <=> v \in Serving(c)'
  BY DEF Serving
<1>3. Serving(c) \subseteq Worker /\ Serving(c)' \subseteq Worker
  BY DEF Serving
<1>4. ASSUME w \notin Serving(c), w \in Serving(c)'
      PROVE  Cardinality(Serving(c))' = Cardinality(Serving(c)) + 1
  <2>1. Serving(c)' = Serving(c) \cup {w}
    BY <1>2, <1>3, <1>4
  <2>2. Cardinality(Serving(c) \cup {w}) = Cardinality(Serving(c)) + 1
    BY <1>1, <1>4, FS_AddElement
  <2> QED
    BY <2>1, <2>2
<1>5. ASSUME w \in Serving(c), w \notin Serving(c)'
      PROVE  Cardinality(Serving(c))' = Cardinality(Serving(c)) - 1
  <2>1. Serving(c)' = Serving(c) \ {w}
    BY <1>2, <1>3, <1>5
  <2>2. Cardinality(Serving(c) \ {w}) = Cardinality(Serving(c)) - 1
    BY <1>1, <1>5, FS_RemoveElement
  <2> QED
    BY <2>1, <2>2
<1>6. ASSUME w \in Serving(c) <=> w \in Serving(c)'
      PROVE  Cardinality(Serving(c))' = Cardinality(Serving(c))
  <2>1. Serving(c)' = Serving(c)
    BY <1>2, <1>3, <1>6
  <2> QED
    BY <2>1
<1> QED
  BY <1>4, <1>5, <1>6

(* The acceptor moves a connection to the list, or drops it.               *)
LEMMA AcceptPlaces ==
    ASSUME IInv, Accept, NEW c \in Conn, PlaceInv(c)
    PROVE  PlaceInv(c)'
<1> SUFFICES ASSUME stopping # "done" PROVE Places(c)' = Owed(c)'
  BY DEF PlaceInv, Accept
<1>1. /\ Typed /\ backlog \in Queue(Conn \cup {SelfConn}) /\ requests \in Queue(Conn)
      /\ conn \in [Conn -> ConnAt]
      /\ Places(c) = Owed(c) /\ backlog # <<>> /\ backlog' = Tail(backlog)
  BY DEF IInv, Typed, PlaceInv, Accept
<1>2. Occurs(c, backlog) = Occurs(c, backlog') + Is(Head(backlog), c)
  BY <1>1, OccursTail
<1>3. \A w \in Worker : worker'[w] = "serve" <=> worker[w] = "serve"
  BY DEF Accept, Wake
<1>4. Cardinality(Serving(c))' = Cardinality(Serving(c))
  BY <1>3 DEF Serving, Accept
<1>5. Occurs(c, backlog') \in Nat
  BY <1>1, QueueOps, AtFinite
<1>6. Places(c)' = Occurs(c, backlog') + Occurs(c, requests') + Cardinality(Serving(c))
  BY <1>4 DEF Places, Serving, Occurs
<1>7. CASE running
  <2>1. requests' = Append(requests, Head(backlog)) /\ UNCHANGED <<conn, reply>>
    BY <1>7 DEF Accept
  <2>2. Head(backlog) \in Conn
    BY <1>1, <1>7, QueueOps DEF IInv, SelfInv
  <2>3. Occurs(c, requests') = Occurs(c, requests) + Is(Head(backlog), c)
    BY <1>1, <2>1, <2>2, OccursAppend
  <2>4. Owed(c)' = Owed(c)
    BY <2>1, OwedSame
  <2> QED
    BY <1>1, <1>2, <1>5, <1>6, <2>3, <2>4, PlacesNat DEF Is
<1>8. CASE ~running
  <2>1. /\ conn' = [d \in Conn |-> IF d = Head(backlog) THEN "dead" ELSE conn[d]]
        /\ UNCHANGED <<requests, reply>>
    BY <1>8 DEF Accept
  <2>2. Occurs(c, requests') = Occurs(c, requests)
    BY <2>1
  <2>3. CASE Head(backlog) = c
    <3>1. Owed(c)' = 0
      BY <2>1, <2>3 DEF Owed
    <3>2. Owed(c) \in {0, 1}
      BY DEF Owed
    <3> QED
      BY <1>1, <1>2, <1>5, <1>6, <2>2, <2>3, <3>1, <3>2, PlacesNat DEF Is
  <2>4. CASE Head(backlog) # c
    <3>1. Owed(c)' = Owed(c)
      BY <2>1, <2>4, OwedSame
    <3> QED
      BY <1>1, <1>2, <1>5, <1>6, <2>2, <2>4, <3>1, PlacesNat DEF Is
  <2> QED
    BY <2>3, <2>4
<1> QED
  BY <1>7, <1>8

(* A worker takes the connection at the head of the list.                  *)
LEMMA TestsPlaces ==
    ASSUME IInv, NEW w \in Worker, WorkerTests(w), NEW c \in Conn, PlaceInv(c)
    PROVE  PlaceInv(c)'
<1> SUFFICES ASSUME stopping # "done" PROVE Places(c)' = Owed(c)'
  BY DEF PlaceInv, WorkerTests
<1>1. /\ Typed /\ requests \in Queue(Conn)
      /\ worker \in [Worker -> WorkerAt] /\ serves \in [Worker -> Conn \cup {SelfConn}]
      /\ Places(c) = Owed(c) /\ backlog' = backlog
      /\ UNCHANGED <<conn, reply>> /\ worker[w] = "test"
  BY DEF IInv, Typed, PlaceInv, WorkerTests, wireVars
<1>2. Owed(c)' = Owed(c)
  BY <1>1, OwedSame
<1>3. w \notin Serving(c)
  BY <1>1 DEF Serving
<1>4. \A v \in Worker \ {w} : worker'[v] = worker[v] /\ serves'[v] = serves[v]
  BY <1>1 DEF WorkerTests
<1>5. Places(c)' = Occurs(c, backlog) + Occurs(c, requests') + Cardinality(Serving(c))'
  BY <1>1 DEF Places, Serving, Occurs
<1>6. CASE running /\ requests # <<>>
  <2>1. /\ worker'[w] = "serve" /\ serves'[w] = Head(requests) /\ requests' = Tail(requests)
    BY <1>1, <1>6 DEF WorkerTests, Popped
  <2>2. Occurs(c, requests) = Occurs(c, requests') + Is(Head(requests), c)
    BY <1>1, <1>6, <2>1, OccursTail
  <2>3. Occurs(c, requests') \in Nat
    BY <1>1, <1>6, <2>1, QueueOps, AtFinite
  <2>4. w \in Serving(c)' <=> Head(requests) = c
    BY <2>1 DEF Serving
  <2>5. Cardinality(Serving(c))' = Cardinality(Serving(c)) + Is(Head(requests), c)
    <3>1. CASE Head(requests) = c
      BY <1>1, <1>3, <1>4, <2>4, <3>1, ServingChange DEF Is
    <3>2. CASE Head(requests) # c
      <4>1. Cardinality(Serving(c))' = Cardinality(Serving(c))
        BY <1>1, <1>3, <1>4, <2>4, <3>2, ServingChange
      <4> QED
        BY <1>1, <3>2, <4>1, PlacesNat DEF Is
    <3> QED
      BY <3>1, <3>2
  <2> QED
    BY <1>1, <1>2, <1>5, <2>2, <2>3, <2>5, PlacesNat DEF Is
<1>7. CASE ~running \/ requests = <<>>
  <2>1. worker'[w] # "serve" /\ requests' = requests
    BY <1>1, <1>7 DEF WorkerTests
  <2>2. w \notin Serving(c)'
    BY <2>1 DEF Serving
  <2>3. Cardinality(Serving(c))' = Cardinality(Serving(c))
    BY <1>1, <1>3, <1>4, <2>2, ServingChange
  <2> QED
    BY <1>1, <1>2, <1>5, <2>1, <2>3, PlacesNat
<1> QED
  BY <1>6, <1>7

(* A worker answers a request of its connection, and keeps it unless it is *)
(* the final one; or drops it.                                             *)
LEMMA ServesPlaces ==
    ASSUME IInv, NEW w \in Worker, WorkerServes(w), NEW c \in Conn, PlaceInv(c)
    PROVE  PlaceInv(c)'
<1> SUFFICES ASSUME stopping # "done" PROVE Places(c)' = Owed(c)'
  BY DEF PlaceInv, WorkerServes
<1>1. PICK d \in Conn : d = serves[w]
  BY DEF IInv, SelfInv, WorkerServes
<1>2. /\ Typed /\ FlightInv(d)
      /\ worker \in [Worker -> WorkerAt]
      /\ conn \in [Conn -> ConnAt] /\ reply \in [Conn -> Mail] /\ sent \in [Conn -> Mail]
      /\ Places(c) = Owed(c) /\ UNCHANGED <<backlog, requests, serves>>
      /\ worker[w] = "serve" /\ sent[d] # <<>>
  BY <1>1 DEF IInv, Typed, PlaceInv, WorkerServes
<1>3. \A v \in Worker \ {w} : worker'[v] = worker[v] /\ serves'[v] = serves[v]
  BY <1>2 DEF WorkerServes
<1>4. Places(c)' = Occurs(c, backlog) + Occurs(c, requests) + Cardinality(Serving(c))'
  BY <1>2 DEF Places, Serving, Occurs
<1>5. CASE c # d
  <2>1. conn'[c] = conn[c] /\ reply'[c] = reply[c]
    BY <1>1, <1>2, <1>5 DEF WorkerServes
  <2>2. w \notin Serving(c) /\ w \notin Serving(c)'
    BY <1>1, <1>2, <1>5 DEF Serving
  <2>3. Cardinality(Serving(c))' = Cardinality(Serving(c))
    BY <1>2, <1>3, <2>2, ServingChange
  <2> QED
    BY <1>2, <1>4, <2>1, <2>3, OwedSame, PlacesNat
<1>6. CASE c = d
  <2>1. w \in Serving(c) /\ reply[c] = <<>>
    BY <1>1, <1>2, <1>6 DEF Serving, FlightInv
  <2>2. Places(c) = 1 /\ Owed(c) = 1 /\ conn[c] = "open"
    <3>1. Cardinality(Serving(c)) # 0
      BY <2>1, ServingFinite, FS_EmptySet
    <3>2. Owed(c) \in {0, 1} /\ (Owed(c) = 1 => conn[c] = "open")
      BY DEF Owed
    <3> QED
      BY <1>2, <3>1, <3>2, PlacesNat
  <2>3. CASE running /\ ~Final(Head(sent[d]))
    <3>1. reply'[c] = <<Head(sent[d])>> /\ conn'[c] = conn[c] /\ worker'[w] = "serve"
      BY <1>1, <1>2, <1>6, <2>1, <2>3, OneMessage DEF WorkerServes
    <3>2. Owed(c)' = 1
      BY <2>2, <2>3, <3>1, OneMessage DEF Owed
    <3>3. w \in Serving(c)'
      BY <1>1, <1>2, <1>6, <3>1 DEF Serving
    <3>4. Cardinality(Serving(c))' = Cardinality(Serving(c))
      BY <1>2, <1>3, <2>1, <3>3, ServingChange
    <3> QED
      BY <1>2, <1>4, <2>2, <3>2, <3>4, PlacesNat
  <2>4. CASE ~running \/ Final(Head(sent[d]))
    <3>1. worker'[w] = "test"
      BY <1>1, <1>2, <2>4 DEF WorkerServes
    <3>2. \/ reply'[c] = <<Head(sent[d])>> /\ Final(Head(sent[d]))
          \/ conn'[c] = "dead"
      BY <1>1, <1>2, <1>6, <2>1, <2>4, OneMessage DEF WorkerServes
    <3>3. Owed(c)' = 0
      BY <3>2, OneMessage DEF Owed
    <3>4. w \notin Serving(c)'
      BY <3>1 DEF Serving
    <3>5. Cardinality(Serving(c))' = Cardinality(Serving(c)) - 1
      BY <1>2, <1>3, <2>1, <3>4, ServingChange
    <3> QED
      BY <1>2, <1>4, <2>2, <3>3, <3>5, PlacesNat
  <2> QED
    BY <2>3, <2>4
<1> QED
  BY <1>5, <1>6

(* stop() moves no connection of a client until it returns.                *)
LEMMA StopPlaces ==
    ASSUME IInv, StopNext, NEW c \in Conn, PlaceInv(c)
    PROVE  PlaceInv(c)'
<1>1. CASE StopReturns
  BY <1>1 DEF StopReturns, StopStep, PlaceInv
<1>2. CASE StopSetsRunning \/ StopConnects \/ StopNotifies
  <2>1. /\ stopping # "done" /\ UNCHANGED <<conn, reply, requests, serves>>
        /\ \A w \in Worker : worker'[w] = "serve" <=> worker[w] = "serve"
    BY <1>2 DEF StopSetsRunning, StopConnects, StopNotifies, StopStep, Wake
  <2>2. Owed(c)' = Owed(c) /\ Places(c) = Owed(c)
    BY <2>1, OwedSame DEF PlaceInv
  <2>3. CASE backlog' = backlog
    BY <2>1, <2>2, <2>3, PlacesSame DEF PlaceInv
  <2>4. CASE StopConnects
    <3>1. backlog \in Queue(Conn \cup {SelfConn}) /\ backlog' = Append(backlog, SelfConn)
      BY <2>4 DEF StopConnects, IInv, Typed
    <3>2. Occurs(c, Append(backlog, SelfConn)) = Occurs(c, backlog) + Is(SelfConn, c)
      BY <3>1, OccursAppend
    <3>3. SelfConn # c
      BY SelfIsNone
    <3>4. Occurs(c, backlog') = Occurs(c, backlog)
      BY <3>1, <3>2, <3>3, PlacesNat DEF Is, IInv
    <3>5. Places(c)' = Places(c)
      BY <2>1, <3>4 DEF Places, Occurs
    <3> QED
      BY <2>2, <3>5 DEF PlaceInv
  <2> QED
    BY <1>2, <2>3, <2>4 DEF StopSetsRunning, StopNotifies
<1> QED
  BY <1>1, <1>2 DEF StopNext

(* While the server lives, every open connection is in exactly one place:  *)
(* never forgotten, never read by two workers, and given back by its       *)
(* worker exactly when its final request is answered or it is dropped.     *)
THEOREM ChannelsPlaces == Spec => []OnePlacePerConnection
<1> DEFINE AllPlaced == \A c \in Conn : PlaceInv(c)
<1>1. Init => AllPlaced
  <2> SUFFICES ASSUME Init, NEW c \in Conn PROVE Places(c) = 0 /\ Owed(c) = 0
    BY DEF PlaceInv
  <2>1. At(c, backlog) = {} /\ At(c, requests) = {} /\ Serving(c) = {}
    BY DEF Init, At, Serving
  <2>2. Places(c) = Cardinality({}) + Cardinality({}) + Cardinality({})
    BY <2>1, PlacesSum DEF Occurs, At
  <2> QED
    BY <2>2, FS_EmptySet DEF Init, Owed
<1>2. IInv /\ AllPlaced /\ [Next]_vars => AllPlaced'
  <2> SUFFICES ASSUME IInv, [Next]_vars, NEW c \in Conn, PlaceInv(c) PROVE PlaceInv(c)'
    OBVIOUS
  <2>1. ASSUME UNCHANGED vars \/ \E w \in Worker : WorkerSleeps(w) \/ SpuriousWakeup(w)
        PROVE  PlaceInv(c)'
    <3>1. /\ UNCHANGED <<conn, reply, backlog, requests, serves, stopping>>
          /\ \A w \in Worker : worker'[w] = "serve" <=> worker[w] = "serve"
      BY <2>1 DEF WorkerSleeps, SpuriousWakeup, vars, wireVars, serverVars, IInv, Typed
    <3> QED
      BY <3>1, PlacesSame, OwedSame DEF PlaceInv
  <2> QED
    BY <2>1, ClientPlaces, AcceptPlaces, TestsPlaces, ServesPlaces, StopPlaces DEF Next, WorkerNext
<1>3. AllPlaced => OnePlacePerConnection
  BY DEF PlaceInv, OnePlacePerConnection, Owed
<1> QED
  <2> HIDE DEF AllPlaced
  <2> QED
    BY <1>1, <1>2, <1>3, ChannelsInvariant, PTL DEF Spec
=============================================================================
