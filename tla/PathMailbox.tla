---------------------------- MODULE PathMailbox ----------------------------
(***************************************************************************)
(* What the client's output queue promises, path by path and without       *)
(* threads: each path has a backlog of operations, at most one of them is  *)
(* being sent and that is the oldest, a new operation replaces whatever is *)
(* not being sent, and nothing is taken or accepted once the box is        *)
(* closed.  OutputQueue is shown to implement this module.                 *)
(***************************************************************************)
EXTENDS Integers

CONSTANT Path

VARIABLES
    backlog,   \* path -> ids accepted and neither done nor replaced
    sending,   \* path -> the id being sent, as a set of at most one
    next_id,   \* id of the next operation
    open       \* not stopped

mailboxVars == <<backlog, sending, next_id, open>>

Init ==
    /\ backlog = [p \in Path |-> {}]
    /\ sending = [p \in Path |-> {}]
    /\ next_id = 0
    /\ open = TRUE

(* A new operation on p supersedes every one that is not being sent. *)
Put(p) ==
    /\ open
    /\ backlog' = [backlog EXCEPT ![p] = sending[p] \cup {next_id}]
    /\ next_id' = next_id + 1
    /\ UNCHANGED <<sending, open>>

(* The oldest operation on an idle path is sent. *)
Take(p) ==
    /\ open
    /\ sending[p] = {}
    /\ \E i \in backlog[p] :
         /\ \A j \in backlog[p] : i <= j
         /\ sending' = [sending EXCEPT ![p] = {i}]
    /\ UNCHANGED <<backlog, next_id, open>>

Done(p) ==
    /\ sending[p] # {}
    /\ backlog' = [backlog EXCEPT ![p] = @ \ sending[p]]
    /\ sending' = [sending EXCEPT ![p] = {}]
    /\ UNCHANGED <<next_id, open>>

Retry(p) ==
    /\ sending[p] # {}
    /\ sending' = [sending EXCEPT ![p] = {}]
    /\ UNCHANGED <<backlog, next_id, open>>

Close ==
    /\ open
    /\ open' = FALSE
    /\ UNCHANGED <<backlog, sending, next_id>>

Next ==
    \/ \E p \in Path : Put(p) \/ Take(p) \/ Done(p) \/ Retry(p)
    \/ Close

Spec == Init /\ [][Next]_mailboxVars
=============================================================================
