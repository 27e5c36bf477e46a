-------------------------- MODULE ClientFlowProofs --------------------------
(***************************************************************************)
(* Proofs about ClientFlow for every number of senders, every maximum of   *)
(* attempts and every size of the queue.                                   *)
(***************************************************************************)
EXTENDS ClientFlow, FiniteSetTheorems, TLAPS

----------------------------------------------------------------------------
(* The inductive invariant.                                                *)

At == {"unborn", "top", "get", "block", "asleep", "check", "acquire", "run", "await", "done",
       "failed", "left"}
MainAt == {"auth", "spawn", "test", "decided", "asleep", "stop", "stop_queue", "notify_queue",
           "join_watcher", "close", "try_nop", "nop", "join", "exited"}
WatcherAt == {"unborn", "sync", "watch", "scan", "add", "block", "asleep", "left"}

(* The types; of pending that it is a number. *)
Typed ==
    /\ keep_going \in BOOLEAN /\ oq_going \in BOOLEAN /\ running \in BOOLEAN
    /\ attempt_count \in 0 .. MaxAttempts + 1
    /\ at \in [Sender -> At]
    /\ last \in [Sender -> BOOLEAN]
    /\ pc \in [Sender -> {"none", "open", "closed"}]
    /\ pending \in Nat
    /\ watcher \in WatcherAt
    /\ main \in MainAt
    /\ joining \in Sender
    /\ interrupted \in BOOLEAN /\ died \in BOOLEAN

(* Senders that hold an operation they may give back. *)
Held == {"check", "acquire", "run", "await", "done", "failed"}
Holders == {s \in Sender : at[s] \in Held}

(* An operation given back takes a place that is not the watcher's. *)
PendingBound == pending + Cardinality(Holders) <= MaxPending + Senders

IInv == Typed /\ PendingBound /\ ChannelNotTaken

(* The senders are finitely many, and so are those that hold something. *)
LEMMA HoldersCount ==
    ASSUME NEW S, S \subseteq Sender
    PROVE  IsFiniteSet(S) /\ Cardinality(S) \in 0 .. Senders
<1>1. IsFiniteSet(Sender) /\ Cardinality(Sender) = Senders
  BY FS_Interval, FlowAssumption DEF Sender
<1>2. IsFiniteSet(S) /\ Cardinality(S) <= Cardinality(Sender)
  BY <1>1, FS_Subset
<1>3. Cardinality(S) \in Nat
  BY <1>2, FS_CardinalityType
<1> QED
  BY <1>1, <1>2, <1>3, FlowAssumption

----------------------------------------------------------------------------
(* The invariant holds initially. *)
LEMMA FlowInit == Init => IInv
<1> SUFFICES ASSUME Init PROVE IInv
  OBVIOUS
<1>1. Typed
  <2>1. /\ at \in [Sender -> At] /\ last \in [Sender -> BOOLEAN]
        /\ pc \in [Sender -> {"none", "open", "closed"}]
    BY DEF Init, At
  <2>2. attempt_count \in 0 .. MaxAttempts + 1 /\ pending \in Nat /\ joining \in Sender
    BY FlowAssumption DEF Init, Sender
  <2>3. watcher \in WatcherAt /\ main \in MainAt
    BY DEF Init, WatcherAt, MainAt
  <2> QED
    BY <2>1, <2>2, <2>3 DEF Init, Typed
<1>2. Holders = {}
  BY DEF Init, Holders, Held
<1>3. PendingBound
  BY <1>2, FS_EmptySet, FlowAssumption DEF Init, PendingBound
<1> QED
  BY <1>1, <1>3 DEF Init, IInv, ChannelNotTaken

(* Every step of a sender keeps the types. *)
LEMMA SenderTyped ==
    ASSUME Typed, NEW s \in Sender, SenderStep(s) \/ GetWakes(s)
    PROVE  Typed'
<1>1. ASSUME Top(s) PROVE Typed'
  BY <1>1 DEF Typed, Top, Stop, Goes, At, MainAt
<1>2. ASSUME Get(s) \/ GetSleeps(s) \/ GetWakes(s) PROVE Typed'
  BY <1>2 DEF Typed, Get, GetSleeps, GetWakes, Goes, At, mainVars
<1>3. ASSUME Check(s) \/ Acquire(s) \/ Run(s) \/ Answer(s) PROVE Typed'
  BY <1>3 DEF Typed, Check, Acquire, Run, Answer, Continues, Ends, Goes, At, mainVars
<1>4. ASSUME Done(s) \/ Failed(s) PROVE Typed'
  BY <1>4, FlowAssumption DEF Typed, Done, Failed, Counted, Goes, At, mainVars
<1> QED
  BY <1>1, <1>2, <1>3, <1>4 DEF SenderStep

(* Every step keeps the types. *)
LEMMA TypedStep == Typed /\ [Next]_vars => Typed'
<1> SUFFICES ASSUME Typed, [Next]_vars PROVE Typed'
  OBVIOUS
<1>1. ASSUME WatcherStep \/ AddWakes PROVE Typed'
  <2>1. /\ UNCHANGED <<keep_going, attempt_count, at, last, pc, mainVars, interrupted>>
        /\ watcher' \in WatcherAt
    BY <1>1 DEF WatcherStep, WatcherSyncs, WatcherScans, WatcherFinds, WatcherAdds, AddSleeps,
       AddWakes, WatcherGoes, WatcherAt
  <2>2. pending' \in Nat
    BY <1>1 DEF Typed, WatcherStep, WatcherSyncs, WatcherScans, WatcherFinds, WatcherAdds, AddSleeps,
       AddWakes
  <2>3. died' \in BOOLEAN
    <3>1. died' = died \/ died' = TRUE
      BY <1>1 DEF WatcherStep, WatcherSyncs, WatcherScans, WatcherFinds, WatcherAdds, AddSleeps,
         AddWakes
    <3> QED
      BY <3>1 DEF Typed
  <2> QED
    BY <2>1, <2>2, <2>3 DEF Typed, mainVars
<1>2. ASSUME Authenticates \/ MainTests \/ MainSleeps \/ MainWakes \/ StopsMonitoring
             \/ StopsQueue \/ JoinsWatcher
      PROVE  Typed'
  <2>1. /\ UNCHANGED <<keep_going, senderVars, watcher, interrupted, joining>>
        /\ main' \in MainAt
    BY <1>2 DEF Authenticates, MainTests, MainSleeps, MainWakes, StopsMonitoring, StopsQueue,
       JoinsWatcher, MainGoes, MainAt
  <2>2. oq_going' \in BOOLEAN
    BY <1>2 DEF Typed, Authenticates, MainTests, MainSleeps, MainWakes, StopsMonitoring, StopsQueue,
       JoinsWatcher, QueueStopped
  <2>3. running' \in BOOLEAN
    BY <1>2 DEF Typed, Authenticates, MainTests, MainSleeps, MainWakes, StopsMonitoring, StopsQueue,
       JoinsWatcher
  <2>4. died' \in BOOLEAN
    <3>1. CASE StopsMonitoring
      <4>1. died' = FALSE \/ died' = (watcher \in {"scan", "add"})
        BY <3>1 DEF StopsMonitoring
      <4>2. (watcher \in {"scan", "add"}) = TRUE \/ (watcher \in {"scan", "add"}) = FALSE
        OBVIOUS
      <4> QED
        BY <4>1, <4>2
    <3>2. CASE ~StopsMonitoring
      <4>1. died' = died
        BY <1>2, <3>2 DEF Authenticates, MainTests, MainSleeps, MainWakes, StopsQueue, JoinsWatcher
      <4> QED
        BY <4>1 DEF Typed
    <3> QED
      BY <3>1, <3>2
  <2> QED
    BY <2>1, <2>2, <2>3, <2>4 DEF Typed, senderVars
<1>3. ASSUME Spawns PROVE Typed'
  BY <1>3 DEF Typed, Spawns, Goes, At, MainAt, WatcherAt
<1>4. ASSUME NotifiesQueue PROVE Typed'
  <2>1. at' \in [Sender -> At]
    BY <1>4 DEF Typed, NotifiesQueue, At
  <2> QED
    BY <1>4, <2>1 DEF Typed, NotifiesQueue, MainAt, WatcherAt
<1>5. ASSUME ClosesChannel \/ TriesNop \/ EndsNop \/ JoinsSender PROVE Typed'
  <2>1. main' \in MainAt /\ joining' \in Sender
    BY <1>5, FlowAssumption DEF Typed, ClosesChannel, TriesNop, EndsNop, JoinsSender, NextSender,
       MainAt, Sender
  <2>2. pc' \in [Sender -> {"none", "open", "closed"}]
    BY <1>5 DEF Typed, ClosesChannel, TriesNop, EndsNop, JoinsSender, senderVars
  <2>3. UNCHANGED <<keep_going, attempt_count, at, last, pending, watcher, oq_going, running,
                    interrupted, died>>
    BY <1>5 DEF ClosesChannel, TriesNop, EndsNop, JoinsSender, senderVars
  <2> QED
    BY <2>1, <2>2, <2>3 DEF Typed
<1>6. ASSUME WatchdogRaces PROVE Typed'
  BY <1>6 DEF Typed, WatchdogRaces, senderVars, mainVars
<1>7. ASSUME Interrupt PROVE Typed'
  BY <1>7 DEF Typed, Interrupt, Stop, MainAt, senderVars
<1>8. ASSUME UNCHANGED vars PROVE Typed'
  BY <1>8 DEF Typed, vars, senderVars, mainVars
<1> QED
  BY <1>1, <1>2, <1>3, <1>4, <1>5, <1>6, <1>7, <1>8, SenderTyped DEF Next, MainStep, Wakeup

(* An operation is taken out of the queue before it can be given back, and *)
(* the watcher adds one only below the limit.                              *)
LEMMA BoundStep == IInv /\ [Next]_vars => PendingBound'
<1> SUFFICES ASSUME IInv, [Next]_vars PROVE PendingBound'
  OBVIOUS
<1>1. Typed /\ PendingBound /\ pending \in Nat
  BY DEF IInv, Typed
<1>2. IsFiniteSet(Holders) /\ Cardinality(Holders) \in 0 .. Senders
  BY HoldersCount DEF Holders
<1>3. ASSUME pending' = pending, Holders' = Holders PROVE PendingBound'
  BY <1>1, <1>3 DEF PendingBound
<1>4. ASSUME NEW s \in Sender, SenderStep(s) \/ GetWakes(s) PROVE PendingBound'
  <2>1. \A x \in Sender \ {s} : at'[x] = at[x]
    BY <1>1, <1>4 DEF Typed, SenderStep, Top, Get, GetSleeps, GetWakes, Check, Acquire, Run, Answer,
       Done, Failed, Continues, Ends, Goes
  <2>2. CASE at[s] \in Held /\ at'[s] \in Held
    <3>1. Holders' = Holders
      BY <2>1, <2>2 DEF Holders
    <3>2. pending' = pending
      BY <1>1, <1>4, <2>2 DEF Typed, SenderStep, Top, Get, GetSleeps, GetWakes, Check, Acquire, Run,
         Answer, Done, Failed, Goes, Held
    <3> QED
      BY <1>3, <3>1, <3>2
  <2>3. CASE at[s] \in Held /\ at'[s] \notin Held
    <3>1. Holders' = Holders \ {s} /\ s \in Holders
      BY <2>1, <2>3 DEF Holders
    <3>2. Cardinality(Holders') = Cardinality(Holders) - 1
      BY <1>2, <3>1, FS_RemoveElement
    <3>3. pending' \in {pending, pending + 1}
      BY <1>4, <2>3 DEF SenderStep, Top, Get, GetSleeps, GetWakes, Check, Acquire, Run, Answer, Done,
         Failed, Held
    <3> QED
      BY <1>1, <1>2, <3>2, <3>3, FlowAssumption DEF PendingBound
  <2>4. CASE at[s] \notin Held /\ at'[s] \in Held
    <3>1. Holders' = Holders \cup {s} /\ s \notin Holders
      BY <2>1, <2>4 DEF Holders
    <3>2. Cardinality(Holders') = Cardinality(Holders) + 1
      BY <1>2, <3>1, FS_AddElement
    <3>3. pending' = pending - 1
      BY <1>1, <1>4, <2>4 DEF Typed, SenderStep, Top, Get, GetSleeps, GetWakes, Check, Acquire, Run,
         Answer, Done, Failed, Goes, Held
    <3> QED
      BY <1>1, <1>2, <3>2, <3>3, FlowAssumption DEF PendingBound
  <2>5. CASE at[s] \notin Held /\ at'[s] \notin Held
    <3>1. Holders' = Holders
      BY <2>1, <2>5 DEF Holders
    <3>2. pending' = pending
      BY <1>1, <1>4, <2>5 DEF Typed, SenderStep, Top, Get, GetSleeps, GetWakes, Check, Acquire, Run,
         Answer, Done, Failed, Goes, Held
    <3> QED
      BY <1>3, <3>1, <3>2
  <2> QED
    BY <2>2, <2>3, <2>4, <2>5
<1>5. ASSUME WatcherStep \/ AddWakes PROVE PendingBound'
  <2>1. at' = at
    BY <1>5 DEF WatcherStep, WatcherSyncs, WatcherScans, WatcherFinds, WatcherAdds, AddSleeps,
       AddWakes, WatcherGoes
  <2>2. Holders' = Holders
    BY <2>1 DEF Holders
  <2>3. pending' = pending \/ (pending' = pending + 1 /\ pending < MaxPending)
    BY <1>5 DEF WatcherStep, WatcherSyncs, WatcherScans, WatcherFinds, WatcherAdds, AddSleeps,
       AddWakes, WatcherGoes
  <2> QED
    BY <1>1, <1>2, <2>2, <2>3, FlowAssumption DEF PendingBound
<1>6. ASSUME MainStep \/ MainWakes \/ WatchdogRaces \/ Interrupt \/ UNCHANGED vars
      PROVE  PendingBound'
  <2>1. pending' = pending
    BY <1>6 DEF MainStep, Authenticates, Spawns, MainTests, MainSleeps, MainWakes, StopsMonitoring,
       StopsQueue, NotifiesQueue, JoinsWatcher, ClosesChannel, TriesNop, EndsNop, JoinsSender,
       MainGoes, WatchdogRaces, Interrupt, vars, senderVars
  <2>2. \A x \in Sender : at'[x] \in Held <=> at[x] \in Held
    <3>1. CASE at' = at
      BY <3>1
    <3>2. CASE Spawns
      BY <1>1, <3>2 DEF Spawns, Unborn, Goes, Held, Typed
    <3>3. CASE NotifiesQueue
      BY <3>3 DEF NotifiesQueue, Held
    <3> QED
      BY <1>6, <3>1, <3>2, <3>3 DEF MainStep, Authenticates, MainTests, MainSleeps, MainWakes,
         StopsMonitoring, StopsQueue, JoinsWatcher, ClosesChannel, TriesNop, EndsNop, JoinsSender,
         MainGoes, WatchdogRaces, Interrupt, vars, senderVars
  <2>3. Holders' = Holders
    BY <2>2 DEF Holders
  <2> QED
    BY <1>3, <2>1, <2>3
<1> QED
  BY <1>4, <1>5, <1>6 DEF Next, Wakeup

(* A sender writes only to an open channel whose mutex is free, and start() *)
(* closes only the channel whose mutex it holds.                           *)
LEMMA ChannelStep == IInv /\ [Next]_vars => ChannelNotTaken'
<1> SUFFICES ASSUME IInv, [Next]_vars, NEW t \in Sender, at'[t] = "await"
             PROVE  pc'[t] = "open" /\ ~(main' = "nop" /\ joining' = t)
  BY DEF ChannelNotTaken
<1>1. /\ at \in [Sender -> At] /\ pc \in [Sender -> {"none", "open", "closed"}]
      /\ joining \in Sender
      /\ at[t] = "await" => pc[t] = "open" /\ ~(main = "nop" /\ joining = t)
  BY DEF IInv, Typed, ChannelNotTaken
<1>2. ASSUME NEW s \in Sender, SenderStep(s) \/ GetWakes(s)
      PROVE  pc'[t] = "open" /\ ~(main' = "nop" /\ joining' = t)
  <2>1. /\ main' = main \/ main' = "test"
        /\ joining' = joining
    BY <1>2 DEF SenderStep, Top, Stop, Get, GetSleeps, GetWakes, Check, Acquire, Run, Answer, Done,
       Failed, mainVars
  <2>2. CASE Run(s)
    BY <1>1, <2>2 DEF Run, Goes, Ends, Lockable, mainVars
  <2>3. CASE ~Run(s)
    <3>1. at[t] = "await"
      BY <1>1, <1>2, <2>3 DEF SenderStep, Top, Get, GetSleeps, GetWakes, Check, Acquire, Answer, Done,
         Failed, Continues, Ends, Goes
    <3>2. pc[t] = "open" => pc'[t] = "open"
      BY <1>1, <1>2, <2>3 DEF SenderStep, Top, Get, GetSleeps, GetWakes, Check, Acquire, Answer, Done,
         Failed, Continues, Ends
    <3> QED
      BY <1>1, <2>1, <3>1, <3>2
  <2> QED
    BY <2>2, <2>3
<1>3. ASSUME ~ \E s \in Sender : SenderStep(s) \/ GetWakes(s) PROVE at[t] = "await"
  BY <1>1, <1>3 DEF Next, Wakeup, WatcherStep, WatcherSyncs, WatcherScans, WatcherFinds, WatcherAdds,
     AddSleeps, AddWakes, WatcherGoes, MainStep, Authenticates, Spawns, MainTests, MainSleeps,
     MainWakes, StopsMonitoring, StopsQueue, NotifiesQueue, JoinsWatcher, ClosesChannel, TriesNop,
     EndsNop, JoinsSender, MainGoes, WatchdogRaces, Interrupt, vars, senderVars, Goes
<1>4. ASSUME ClosesChannel \/ TriesNop \/ EndsNop \/ JoinsSender, at[t] = "await"
      PROVE  pc'[t] = "open" /\ ~(main' = "nop" /\ joining' = t)
  BY <1>1, <1>4 DEF ClosesChannel, TriesNop, EndsNop, JoinsSender, NextSender, senderVars
<1>5. ASSUME WatcherStep \/ AddWakes \/ Authenticates \/ Spawns \/ MainTests \/ MainSleeps
             \/ MainWakes \/ StopsMonitoring \/ StopsQueue \/ NotifiesQueue \/ JoinsWatcher
             \/ WatchdogRaces \/ Interrupt \/ UNCHANGED vars,
             at[t] = "await"
      PROVE  pc'[t] = "open" /\ ~(main' = "nop" /\ joining' = t)
  <2>1. pc' = pc /\ joining' = joining /\ (main' = main \/ main' # "nop")
    BY <1>5 DEF WatcherStep, WatcherSyncs, WatcherScans, WatcherFinds, WatcherAdds, AddSleeps,
       AddWakes, WatcherGoes, Authenticates, Spawns, MainTests, MainSleeps, MainWakes,
       StopsMonitoring, StopsQueue, NotifiesQueue, JoinsWatcher, MainGoes, WatchdogRaces, Interrupt,
       Stop, vars, senderVars, mainVars
  <2> QED
    BY <1>1, <1>5, <2>1
<1> QED
  BY <1>2, <1>3, <1>4, <1>5 DEF Next, Wakeup, MainStep

(* The invariant. *)
THEOREM FlowInvariant == Spec => []IInv
<1>1. IInv /\ [Next]_vars => IInv'
  BY TypedStep, BoundStep, ChannelStep DEF IInv
<1> QED
  BY <1>1, FlowInit, PTL DEF Spec

(* Types; the queue never holds more than its limit and one operation per  *)
(* sender, given back after the watcher filled its place.                  *)
THEOREM FlowTypeCorrect == Spec => []TypeOK
<1>1. IInv => TypeOK
  <2> SUFFICES ASSUME IInv PROVE TypeOK
    OBVIOUS
  <2>1. Cardinality(Holders) \in 0 .. Senders
    BY HoldersCount DEF Holders
  <2>2. pending \in 0 .. MaxPending + Senders
    BY <2>1, FlowAssumption DEF IInv, Typed, PendingBound
  <2> QED
    BY <2>2 DEF IInv, Typed, TypeOK, At, MainAt, WatcherAt
<1> QED
  BY <1>1, FlowInvariant, PTL

(* start() closes no channel under a request of its sender, and the two    *)
(* never wait for an answer on it at once.                                 *)
THEOREM FlowKeepsChannels == Spec => []ChannelNotTaken
<1>1. IInv => ChannelNotTaken
  BY DEF IInv
<1> QED
  BY <1>1, FlowInvariant, PTL
=============================================================================
