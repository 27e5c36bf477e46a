--------------------------- MODULE SessionsProofs ---------------------------
(***************************************************************************)
(* Proofs about Sessions for every set of users, clients and workers and   *)
(* any number of seconds: its types, and, when no two tokens are generated *)
(* in one second, that requests are executed for their sender, that        *)
(* nothing but a login to the same account or a clear ends a session, and  *)
(* that a token refused once is never accepted.                            *)
(***************************************************************************)
EXTENDS Sessions, TLAPS

----------------------------------------------------------------------------
(* The inductive invariant.                                                *)

LoginPlaces == {"password", "generate", "store", "answer"}

(* A login is for the account of its client; the row it found stays, as    *)
(* the database is cleared only when the workers have been joined.         *)
Served(r) ==
    /\ r.at # "idle" => r.client \in Client
    /\ r.at \in LoginPlaces => r.user = Account[r.client]
    /\ r.at \in {"generate", "store", "answer"} => users[r.user] # NoUser

LoginsServed == \A w \in Worker : Served(workers[w])

(* Every token anywhere was generated. *)
TokensKnown ==
    /\ \A u \in User : TokenOf(u) \in generated \cup {NoToken}
    /\ \A c \in Client : clients[c].at = "in" => clients[c].token \in generated
    /\ \A w \in Worker :
         workers[w].at \in {"store", "answer", "check"} =>
             workers[w].token \in generated
    /\ replaced \subseteq generated /\ refused \subseteq generated

(* A token that is not stored yet is nowhere else. *)
FreshTokens ==
    \A w \in Worker : workers[w].at = "store" =>
        /\ \A u \in User : TokenOf(u) # workers[w].token
        /\ \A c \in Client : clients[c].at = "in" => clients[c].token # workers[w].token
        /\ \A x \in Worker \ {w} :
             workers[x].at \in {"store", "answer", "check"} =>
                 workers[x].token # workers[w].token
        /\ workers[w].token \notin replaced \cup refused

(* No row but that of the account of c has the token t. *)
Owned(t, c) == \A u \in User : TokenOf(u) = t => u = Account[c]

OwnTokens ==
    /\ \A c \in Client : clients[c].at = "in" => Owned(clients[c].token, c)
    /\ \A w \in Worker :
         workers[w].at \in {"answer", "check"} =>
             Owned(workers[w].token, workers[w].client)

(* A login that is about to be answered has left its token in the row, or  *)
(* a later one has replaced it.                                            *)
LoginsStored ==
    \A w \in Worker : workers[w].at = "answer" =>
        \/ TokenOf(workers[w].user) = workers[w].token
        \/ workers[w].token \in replaced

RefusedNowhere == \A u \in User : TokenOf(u) \notin refused

TokensApart ==
    TokensKnown /\ FreshTokens /\ OwnTokens /\ LoginsStored /\ RefusedNowhere

Promises == ServedAsOneself /\ StaysLoggedIn

IInv ==
    /\ TypeOK /\ LoginsServed /\ TokensApart /\ Promises

----------------------------------------------------------------------------
(* Types.                                                                  *)

(* Types and LoginsServed hold of new tables and idle workers. *)
LEMMA TypesInit == Init => TypeOK /\ LoginsServed
BY SessionsAssumption
   DEF Init, TypeOK, LoginsServed, Served, OffClient, IdleWorker, LoginPlaces, Token

(* What a worker keeps of the request it serves. *)
WorkerState ==
    [at : {"idle", "password", "generate", "store", "answer", "check", "execute"},
     client : Client \cup {NoClient}, user : User \cup {NoUser},
     token : Token \cup {NoToken}]

(* A step of one worker keeps the types and LoginsServed when its new      *)
(* record does and no row disappears.                                      *)
LEMMA OneWorker ==
    ASSUME TypeOK, LoginsServed, NEW w \in Worker, NEW r \in WorkerState,
           workers' = [workers EXCEPT ![w] = r],
           \A u \in User : users[u] # NoUser => users'[u] # NoUser,
           r.at # "idle" => r.client \in Client,
           r.at \in LoginPlaces => r.user = Account[r.client],
           r.at \in {"generate", "store", "answer"} => users'[r.user] # NoUser
    PROVE  workers' \in [Worker -> WorkerState] /\ LoginsServed'
<1>1. workers \in [Worker -> WorkerState]
  BY DEF TypeOK, WorkerState
<1>2. workers' \in [Worker -> WorkerState]
  BY <1>1
<1>3. ASSUME NEW x \in Worker PROVE Served(workers[x])'
  <2>1. CASE x = w
    BY <1>1, <2>1 DEF Served
  <2>2. CASE x # w
    <3>1. workers'[x] = workers[x] /\ Served(workers[x])
      BY <1>1, <2>2 DEF LoginsServed
    <3>2. workers[x].at \in LoginPlaces => workers[x].user \in User
      BY <3>1, SessionsAssumption DEF Served, LoginPlaces
    <3> QED
      BY <3>1, <3>2 DEF Served, LoginPlaces
  <2> QED
    BY <2>1, <2>2
<1> QED
  BY <1>2, <1>3 DEF LoginsServed

(* What a client does keeps them. *)
LEMMA TypesClient ==
    ASSUME TypeOK, LoginsServed, NEW c \in Client, ClientStep(c)
    PROVE  TypeOK' /\ LoginsServed'
<1> USE SessionsAssumption DEF TypeOK, Token
<1>1. CASE Leaves(c)
  BY <1>1 DEF Leaves, OffClient, history, LoginsServed, Served
<1>2. ASSUME NEW w \in Worker, Authenticates(c, w) PROVE TypeOK' /\ LoginsServed'
  <2>1. TypeOK'
    BY <1>2 DEF Authenticates, Receives, history
  <2>2. LoginsServed'
    BY <1>2 DEF Authenticates, Receives, history, LoginsServed, Served, LoginPlaces
  <2> QED
    BY <2>1, <2>2
<1>3. ASSUME NEW w \in Worker, Asks(c, w) PROVE TypeOK' /\ LoginsServed'
  <2>1. TypeOK'
    BY <1>3 DEF Asks, Receives, history
  <2>2. LoginsServed'
    BY <1>3 DEF Asks, Receives, history, LoginsServed, Served, LoginPlaces
  <2> QED
    BY <2>1, <2>2
<1> QED
  BY <1>1, <1>2, <1>3 DEF ClientStep

(* What a worker does keeps them. *)
LEMMA TypesWorker ==
    ASSUME TypeOK, LoginsServed, NEW w \in Worker, WorkerStep(w)
    PROVE  TypeOK' /\ LoginsServed'
<1> DEFINE W == workers[w]
           AtPlace(p) == [W EXCEPT !.at = p]
<1>0. /\ W \in WorkerState /\ Served(W) /\ IdleWorker \in WorkerState
      /\ AtPlace("generate") \in WorkerState /\ AtPlace("answer") \in WorkerState
  <2>1. W \in WorkerState /\ Served(W)
    BY DEF TypeOK, LoginsServed, WorkerState
  <2>2. IdleWorker \in WorkerState
    BY DEF WorkerState, IdleWorker
  <2> QED
    BY <2>1, <2>2 DEF WorkerState
<1>1. CASE ChecksPassword(w)
  <2>1. CASE RightPassword(w) /\ Goes(w, "generate") /\ UNCHANGED clients
    <3>1. workers' = [workers EXCEPT ![w] = AtPlace("generate")]
      BY <2>1 DEF Goes
    <3>2. /\ W.at = "password" /\ users' = users
          /\ AtPlace("generate").at = "generate"
          /\ AtPlace("generate").client = W.client /\ AtPlace("generate").user = W.user
      BY <1>0, <1>1 DEF ChecksPassword, WorkerState
    <3>3. users[W.user] # NoUser
      BY <2>1 DEF RightPassword
    <3>4. workers' \in [Worker -> WorkerState] /\ LoginsServed'
      BY <1>0, <3>1, <3>2, <3>3, OneWorker DEF Served, LoginPlaces
    <3> QED
      BY <1>1, <2>1, <3>4 DEF ChecksPassword, TypeOK, WorkerState, history
  <2>2. CASE ~RightPassword(w)
    <3>1. workers' = [workers EXCEPT ![w] = IdleWorker] /\ users' = users
      BY <1>1, <2>2 DEF ChecksPassword, Ends
    <3>2. workers' \in [Worker -> WorkerState] /\ LoginsServed'
      BY <1>0, <3>1, OneWorker DEF IdleWorker, LoginPlaces
    <3> QED
      BY <1>1, <2>2, <3>2 DEF ChecksPassword, TypeOK, WorkerState, OffClient, history
  <2> QED
    BY <1>1, <2>1, <2>2 DEF ChecksPassword
<1>2. CASE Generates(w)
  <2> DEFINE r == [W EXCEPT !.at = "store", !.token = clock]
  <2>1. workers' = [workers EXCEPT ![w] = r] /\ W.at = "generate" /\ users' = users
    BY <1>2 DEF Generates, Seed
  <2>2. /\ r \in WorkerState /\ r.at = "store"
        /\ r.client = W.client /\ r.user = W.user
    BY <1>0 DEF WorkerState, TypeOK, Token
  <2> HIDE DEF r
  <2>3. workers' \in [Worker -> WorkerState] /\ LoginsServed'
    BY <1>0, <2>1, <2>2, OneWorker DEF Served, LoginPlaces
  <2> QED
    BY <1>2, <2>3 DEF Generates, TypeOK, WorkerState, Token
<1>3. CASE StoresToken(w)
  <2> DEFINE u == W.user
             t == W.token
  <2>1. W.at = "store" /\ u \in User /\ users[u] # NoUser /\ t \in Token \cup {NoToken}
    BY <1>0, <1>3, SessionsAssumption
       DEF StoresToken, Served, LoginPlaces, WorkerState
  <2>2. users' = [users EXCEPT ![u].token = t]
    BY <1>3, <2>1 DEF StoresToken, Updated
  <2>3. /\ users' \in [User -> [password : Password, token : Token \cup {NoToken}]
                               \cup {NoUser}]
        /\ \A v \in User : users[v] # NoUser => users'[v] # NoUser
    BY <2>1, <2>2, SessionsAssumption DEF TypeOK, Token
  <2>4. TokenOf(u) \in Token \cup {NoToken}
    BY <2>1 DEF TokenOf, TypeOK
  <2>5. workers' = [workers EXCEPT ![w] = AtPlace("answer")]
    BY <1>3 DEF StoresToken, Goes
  <2>6. /\ AtPlace("answer").at = "answer" /\ AtPlace("answer").client = W.client
        /\ AtPlace("answer").user = u
    BY <1>0 DEF WorkerState
  <2>7. workers' \in [Worker -> WorkerState] /\ LoginsServed'
    BY <1>0, <2>1, <2>3, <2>5, <2>6, OneWorker DEF Served, LoginPlaces
  <2> QED
    BY <1>3, <2>1, <2>3, <2>4, <2>7 DEF StoresToken, TypeOK, WorkerState
<1>4. CASE AnswersLogin(w)
  <2>1. workers' = [workers EXCEPT ![w] = IdleWorker] /\ users' = users
    BY <1>4 DEF AnswersLogin, Ends
  <2>2. workers' \in [Worker -> WorkerState] /\ LoginsServed'
    BY <1>0, <2>1, OneWorker DEF IdleWorker, LoginPlaces
  <2>3. clients' \in [Client -> [at : {"off", "login", "in"}, token : Token \cup {NoToken}]]
    BY <1>0, <1>4 DEF AnswersLogin, TypeOK, WorkerState
  <2> QED
    BY <1>4, <2>2, <2>3 DEF AnswersLogin, TypeOK, WorkerState, history
<1>5. CASE ChecksToken(w)
  <2>1. users' = users /\ UNCHANGED <<clock, clients, running, generated, replaced>>
    BY <1>5 DEF ChecksToken
  <2>2. ASSUME NEW u \in User,
               workers' = [workers EXCEPT ![w].at = "execute", ![w].user = u],
               refused' = refused, W.at = "check"
        PROVE  TypeOK' /\ LoginsServed'
    <3> DEFINE r == [W EXCEPT !.at = "execute", !.user = u]
    <3>1. workers' = [workers EXCEPT ![w] = r]
      BY <2>2
    <3>2. r \in WorkerState /\ r.at = "execute" /\ r.client = W.client
      BY <1>0 DEF WorkerState
    <3> HIDE DEF r
    <3>3. workers' \in [Worker -> WorkerState] /\ LoginsServed'
      BY <1>0, <2>1, <2>2, <3>1, <3>2, OneWorker DEF Served, LoginPlaces
    <3> QED
      BY <2>1, <2>2, <3>3 DEF TypeOK, WorkerState
  <2>3. CASE Ends(w) /\ refused' = refused \cup {W.token}
    <3>1. workers' = [workers EXCEPT ![w] = IdleWorker]
      BY <2>3 DEF Ends
    <3>2. workers' \in [Worker -> WorkerState] /\ LoginsServed'
      BY <1>0, <2>1, <3>1, OneWorker DEF IdleWorker, LoginPlaces
    <3> QED
      BY <1>0, <2>1, <2>3, <3>2 DEF TypeOK, WorkerState
  <2> QED
    BY <1>5, <2>2, <2>3 DEF ChecksToken, RowsWith
<1>6. CASE Executes(w)
  <2>1. workers' = [workers EXCEPT ![w] = IdleWorker] /\ users' = users
    BY <1>6 DEF Executes, Ends
  <2>2. workers' \in [Worker -> WorkerState] /\ LoginsServed'
    BY <1>0, <2>1, OneWorker DEF IdleWorker, LoginPlaces
  <2> QED
    BY <1>6, <2>2 DEF Executes, TypeOK, WorkerState, history
<1> QED
  BY <1>1, <1>2, <1>3, <1>4, <1>5, <1>6 DEF WorkerStep

(* What the console does, and the time that passes, keeps them. *)
LEMMA TypesConsole ==
    TypeOK /\ LoginsServed /\ (Tick \/ Console) => TypeOK' /\ LoginsServed'
<1> SUFFICES ASSUME TypeOK, LoginsServed, Tick \/ Console
             PROVE  TypeOK' /\ LoginsServed'
  OBVIOUS
<1> USE SessionsAssumption DEF TypeOK, Token
<1>1. CASE Tick
  BY <1>1 DEF Tick, history, LoginsServed, Served
<1>2. ASSUME NEW u \in User, NEW p \in Password, AddUser(u, p)
      PROVE  TypeOK' /\ LoginsServed'
  <2>1. TypeOK'
    BY <1>2 DEF AddUser, history
  <2>2. \A v \in User : users[v] # NoUser => users'[v] # NoUser
    BY <1>2 DEF AddUser
  <2>3. LoginsServed'
    BY <1>2, <2>2 DEF AddUser, LoginsServed, Served, LoginPlaces
  <2> QED
    BY <2>1, <2>3
<1>3. CASE Stop
  BY <1>3 DEF Stop, history, LoginsServed, Served
<1>4. CASE Clear
  <2>1. \A u \in User : TokenOf(u) \in Token \cup {NoToken}
    BY DEF TokenOf
  <2>2. users' \in [User -> {NoUser}] /\ replaced' \subseteq Token
    <3>1. users' \in [User -> {NoUser}]
      BY <1>4 DEF Clear
    <3>2. {TokenOf(u) : u \in User} \subseteq Token \cup {NoToken}
      BY <2>1
    <3>3. replaced' \subseteq Token
      BY <1>4, <3>2 DEF Clear
    <3> QED
      BY <3>1, <3>3
  <2>3. TypeOK'
    BY <1>4, <2>2 DEF Clear
  <2>4. LoginsServed'
    BY <1>4 DEF Clear, WorkersJoined, AllIdle, IdleWorker, LoginsServed, Served, LoginPlaces
  <2> QED
    BY <2>3, <2>4
<1>5. CASE StartsAgain
  <2>1. TypeOK'
    BY <1>5 DEF StartsAgain, IdleWorker, OffClient, history
  <2>2. LoginsServed'
    BY <1>5 DEF StartsAgain, IdleWorker, LoginsServed, Served, LoginPlaces
  <2> QED
    BY <2>1, <2>2
<1> QED
  BY <1>1, <1>2, <1>3, <1>4, <1>5 DEF Console

(* Every step keeps them. *)
LEMMA TypesNext ==
    TypeOK /\ LoginsServed /\ [Next]_vars => TypeOK' /\ LoginsServed'
<1> SUFFICES ASSUME TypeOK, LoginsServed, [Next]_vars
             PROVE  TypeOK' /\ LoginsServed'
  OBVIOUS
<1>1. CASE UNCHANGED vars
  BY <1>1 DEF vars, history, TypeOK, LoginsServed, Served
<1>2. CASE Next
  BY <1>2, TypesClient, TypesWorker, TypesConsole DEF Next
<1> QED
  BY <1>1, <1>2

(* Users, tokens and requests keep their types, whoever logs in when.      *)
THEOREM SessionsTypeCorrect == Spec => []TypeOK
<1>1. Spec => [](TypeOK /\ LoginsServed)
  BY TypesInit, TypesNext, PTL DEF Spec
<1> QED
  BY <1>1, PTL
----------------------------------------------------------------------------
(* Sessions, when no two tokens are generated in one second.               *)

(* A client goes on, leaves, or gets the token of its login. *)
ClientGoesOn(c) ==
    \/ clients'[c] = clients[c]
    \/ clients'[c].at # "in"
    \/ \E w \in Worker :
         /\ workers[w].at = "answer" /\ workers[w].client = c
         /\ clients'[c].token = workers[w].token

(* A worker goes on, serves something without a token, takes a request     *)
(* with the token of its client, or has found its client's account.        *)
WorkerGoesOn(w) ==
    \/ workers'[w] = workers[w]
    \/ workers'[w].at \in {"idle", "password", "generate"}
    \/ /\ workers'[w].at = "check"
       /\ workers'[w].client \in Client /\ clients[workers'[w].client].at = "in"
       /\ workers'[w].token = clients[workers'[w].client].token
    \/ /\ workers'[w].at = "execute"
       /\ workers'[w].user = Account[workers'[w].client]

SameRows == \A u \in User : TokenOf(u)' = TokenOf(u)

(* While no token is generated, stored or refused, the invariant stays. *)
LEMMA GoingOn ==
    ASSUME TypeOK, LoginsServed, TokensApart, Promises, SameRows, UNCHANGED history,
           \A c \in Client : ClientGoesOn(c), \A w \in Worker : WorkerGoesOn(w)
    PROVE  TokensApart' /\ Promises'
<1>1. UNCHANGED <<generated, replaced, refused>>
  BY DEF history
<1>2. ASSUME NEW c \in Client, clients'[c].at = "in"
      PROVE  /\ clients'[c].token \in generated
             /\ Owned(clients'[c].token, c)
             /\ TokenOf(Account[c]) = clients'[c].token \/ clients'[c].token \in replaced
             /\ \A w \in Worker : workers[w].at = "store" =>
                  clients'[c].token # workers[w].token
  <2>1. CASE clients'[c] = clients[c]
    BY <1>2, <2>1 DEF TokensApart, Promises, TokensKnown, OwnTokens, StaysLoggedIn, FreshTokens
  <2>2. ASSUME NEW x \in Worker, workers[x].at = "answer", workers[x].client = c,
               clients'[c].token = workers[x].token
        PROVE  /\ clients'[c].token \in generated
               /\ Owned(clients'[c].token, c)
               /\ \/ TokenOf(Account[c]) = clients'[c].token
                  \/ clients'[c].token \in replaced
               /\ \A w \in Worker : workers[w].at = "store" =>
                    clients'[c].token # workers[w].token
    <3>1. workers[x].user = Account[c]
      BY <2>2 DEF LoginsServed, Served, LoginPlaces
    <3> QED
      BY <2>2, <3>1 DEF TokensApart, TokensKnown, OwnTokens, LoginsStored, FreshTokens
  <2> QED
    BY <1>2, <2>1, <2>2 DEF ClientGoesOn
<1>3. ASSUME NEW w \in Worker, workers'[w].at = "store"
      PROVE  workers'[w] = workers[w]
  BY <1>3 DEF WorkerGoesOn
<1>4. ASSUME NEW w \in Worker, workers'[w].at = "answer"
      PROVE  workers'[w] = workers[w]
  BY <1>4 DEF WorkerGoesOn
<1>5. ASSUME NEW w \in Worker, workers'[w].at = "check"
      PROVE  /\ workers'[w].token \in generated
             /\ Owned(workers'[w].token, workers'[w].client)
             /\ \A x \in Worker \ {w} : workers[x].at = "store" =>
                  workers'[w].token # workers[x].token
  <2>1. CASE workers'[w] = workers[w]
    BY <1>5, <2>1 DEF TokensApart, TokensKnown, OwnTokens, FreshTokens
  <2>2. CASE /\ workers'[w].client \in Client /\ clients[workers'[w].client].at = "in"
             /\ workers'[w].token = clients[workers'[w].client].token
    BY <2>2 DEF TokensApart, TokensKnown, OwnTokens, FreshTokens
  <2> QED
    BY <1>5, <2>1, <2>2 DEF WorkerGoesOn
<1>6. TokensKnown'
  BY <1>1, <1>2, <1>3, <1>4, <1>5 DEF SameRows, TokensApart, TokensKnown
<1>7. FreshTokens'
  <2> SUFFICES ASSUME NEW w \in Worker, workers'[w].at = "store"
               PROVE  /\ \A u \in User : TokenOf(u)' # workers'[w].token
                      /\ \A c \in Client : clients'[c].at = "in" =>
                           clients'[c].token # workers'[w].token
                      /\ \A x \in Worker \ {w} :
                           workers'[x].at \in {"store", "answer", "check"} =>
                             workers'[x].token # workers'[w].token
                      /\ workers'[w].token \notin replaced' \cup refused'
    BY DEF FreshTokens
  <2>1. workers'[w] = workers[w] /\ workers[w].at = "store"
    BY <1>3
  <2>2. ASSUME NEW x \in Worker \ {w}, workers'[x].at \in {"store", "answer", "check"}
        PROVE  workers'[x].token # workers'[w].token
    BY <1>3, <1>4, <1>5, <2>1, <2>2 DEF TokensApart, FreshTokens
  <2> QED
    BY <1>1, <1>2, <2>1, <2>2 DEF SameRows, TokensApart, FreshTokens
<1>8. OwnTokens'
  BY <1>2, <1>4, <1>5 DEF SameRows, TokensApart, OwnTokens, Owned
<1>9. LoginsStored'
  <2> SUFFICES ASSUME NEW w \in Worker, workers'[w].at = "answer"
               PROVE  \/ TokenOf(workers[w].user)' = workers'[w].token
                      \/ workers'[w].token \in replaced'
    BY DEF LoginsStored
  <2>1. workers'[w] = workers[w] /\ workers[w].user \in User
    BY <1>4, SessionsAssumption DEF LoginsServed, Served, LoginPlaces
  <2>2. ASSUME NEW u \in User, u = workers[w].user
        PROVE  TokenOf(workers[w].user)' = TokenOf(u)
    BY <2>1, <2>2 DEF SameRows, TokenOf
  <2> QED
    BY <1>1, <2>1, <2>2 DEF TokensApart, LoginsStored
<1>10. RefusedNowhere'
  BY <1>1 DEF SameRows, TokensApart, RefusedNowhere
<1>11. ServedAsOneself'
  BY DEF WorkerGoesOn, Promises, ServedAsOneself
<1>12. StaysLoggedIn'
  <2>1. \A c \in Client : Account[c] \in User
    BY SessionsAssumption
  <2> QED
    BY <1>1, <1>2, <2>1 DEF SameRows, StaysLoggedIn
<1> QED
  BY <1>6, <1>7, <1>8, <1>9, <1>10, <1>11, <1>12 DEF TokensApart, Promises
(* A new token differs from every token there is. *)
LEMMA Generating ==
    ASSUME LoginsApart, TypeOK, LoginsServed, TokensApart, Promises,
           NEW w \in Worker, Generates(w)
    PROVE  TokensApart' /\ Promises'
<1>1. /\ generated' = generated \cup {clock} /\ clock \notin generated
      /\ clock \in Nat /\ generated \subseteq Nat
      /\ UNCHANGED <<users, clients, replaced, refused>>
      /\ \A u \in User : TokenOf(u)' = TokenOf(u)
  BY DEF Generates, TypeOK, Token, TokenOf
<1>2. /\ workers'[w].at = "store" /\ workers'[w].token = clock
      /\ \A x \in Worker \ {w} : workers'[x] = workers[x]
  BY DEF Generates, Seed, TypeOK
<1>3. TokensKnown'
  BY <1>1, <1>2 DEF TokensApart, TokensKnown
<1>4. /\ \A u \in User : TokenOf(u) # clock
      /\ \A c \in Client : clients[c].at = "in" => clients[c].token # clock
      /\ \A x \in Worker : workers[x].at \in {"store", "answer", "check"} =>
           workers[x].token # clock
      /\ clock \notin replaced \cup refused
  BY <1>1, SessionsAssumption DEF TokensApart, TokensKnown
<1>5. FreshTokens'
  <2> SUFFICES ASSUME NEW x \in Worker, workers'[x].at = "store"
               PROVE  /\ \A u \in User : TokenOf(u)' # workers'[x].token
                      /\ \A c \in Client : clients'[c].at = "in" =>
                           clients'[c].token # workers'[x].token
                      /\ \A y \in Worker \ {x} :
                           workers'[y].at \in {"store", "answer", "check"} =>
                             workers'[y].token # workers'[x].token
                      /\ workers'[x].token \notin replaced' \cup refused'
    BY DEF FreshTokens
  <2>1. CASE x = w
    BY <1>1, <1>2, <1>4, <2>1
  <2>2. CASE x # w
    BY <1>1, <1>2, <1>4, <2>2 DEF TokensApart, FreshTokens
  <2> QED
    BY <2>1, <2>2
<1>6. OwnTokens'
  BY <1>1, <1>2 DEF TokensApart, OwnTokens, Owned
<1>7. LoginsStored'
  <2> SUFFICES ASSUME NEW x \in Worker, workers'[x].at = "answer"
               PROVE  \/ TokenOf(workers[x].user)' = workers[x].token
                      \/ workers[x].token \in replaced'
    BY <1>2 DEF LoginsStored, TokenOf
  <2>1. workers'[x] = workers[x] /\ workers[x].user \in User
    BY <1>2, SessionsAssumption DEF LoginsServed, Served, LoginPlaces
  <2> QED
    BY <1>1, <2>1 DEF TokensApart, LoginsStored
<1>8. RefusedNowhere'
  BY <1>1 DEF TokensApart, RefusedNowhere
<1>9. Promises'
  BY <1>1, <1>2, SessionsAssumption DEF Promises, ServedAsOneself, StaysLoggedIn
<1> QED
  BY <1>3, <1>5, <1>6, <1>7, <1>8, <1>9 DEF TokensApart

(* A stored token is in one row only; the one it replaces was there alone. *)
LEMMA Storing ==
    ASSUME TypeOK, LoginsServed, TokensApart, Promises,
           NEW w \in Worker, StoresToken(w)
    PROVE  TokensApart' /\ Promises'
<1>0. /\ workers[w].at = "store"
      /\ workers[w].user = Account[workers[w].client] /\ workers[w].user \in User
      /\ users[workers[w].user] # NoUser /\ workers[w].token \in generated
  <2>1. workers[w].at = "store"
    BY DEF StoresToken
  <2>2. /\ workers[w].user = Account[workers[w].client] /\ workers[w].user \in User
        /\ users[workers[w].user] # NoUser
    BY <2>1, SessionsAssumption DEF LoginsServed, Served, LoginPlaces
  <2> QED
    BY <2>1, <2>2 DEF TokensApart, TokensKnown
<1>1. PICK u \in User, t \in generated :
        /\ u = workers[w].user /\ t = workers[w].token
        /\ u = Account[workers[w].client] /\ users[u] # NoUser
        /\ t \in Token /\ t # NoToken
  BY <1>0, SessionsAssumption DEF TypeOK, Token
<1>2. TokenOf(u)' = t /\ \A v \in User \ {u} : TokenOf(v)' = TokenOf(v)
  <2>1. users' = [users EXCEPT ![u].token = t]
    BY <1>1 DEF StoresToken, Updated
  <2>2. users[u] \in [password : Password, token : Token \cup {NoToken}]
    BY <1>1 DEF TypeOK
  <2>3. users'[u] # NoUser /\ users'[u].token = t
    BY <1>1, <2>1, <2>2, SessionsAssumption DEF TypeOK, Token
  <2>4. \A v \in User \ {u} : users'[v] = users[v]
    BY <2>1 DEF TypeOK
  <2> QED
    BY <1>1, <2>3, <2>4 DEF TokenOf
<1>3. /\ replaced' = (replaced \cup {TokenOf(u)}) \ {t, NoToken}
      /\ UNCHANGED <<clients, generated, refused>>
  BY <1>1 DEF StoresToken
<1>4. /\ workers'[w].at = "answer" /\ workers'[w].token = t
      /\ workers'[w].user = u /\ workers'[w].client = workers[w].client
      /\ \A x \in Worker \ {w} : workers'[x] = workers[x]
  BY <1>1 DEF StoresToken, Goes, TypeOK
<1>5. /\ \A v \in User : TokenOf(v) # t
      /\ \A c \in Client : clients[c].at = "in" => clients[c].token # t
      /\ \A x \in Worker \ {w} : workers[x].at \in {"store", "answer", "check"} =>
           workers[x].token # t
      /\ t \notin replaced \cup refused
  BY <1>0, <1>1 DEF TokensApart, FreshTokens
<1>6. NoToken \notin generated
  BY SessionsAssumption DEF TypeOK, Token
<1>7. replaced \subseteq replaced' /\ replaced' \subseteq replaced \cup {TokenOf(u)}
  BY <1>3, <1>5, <1>6 DEF TokensApart, TokensKnown
<1>8. ASSUME NEW v \in User, TokenOf(v) \in generated
      PROVE  TokenOf(v)' = TokenOf(v) \/ TokenOf(v) \in replaced'
  BY <1>2, <1>3, <1>5, <1>6, <1>8
<1>9. TokensKnown'
  <2>1. \A v \in User : TokenOf(v)' \in generated' \cup {NoToken}
    BY <1>1, <1>2, <1>3 DEF TokensApart, TokensKnown
  <2>2. replaced' \subseteq generated'
    BY <1>1, <1>3 DEF TokensApart, TokensKnown
  <2> QED
    BY <1>1, <1>3, <1>4, <2>1, <2>2 DEF TokensApart, TokensKnown
<1>10. FreshTokens'
  <2> SUFFICES ASSUME NEW x \in Worker, workers'[x].at = "store"
               PROVE  /\ \A v \in User : TokenOf(v)' # workers'[x].token
                      /\ \A c \in Client : clients'[c].at = "in" =>
                           clients'[c].token # workers'[x].token
                      /\ \A y \in Worker \ {x} :
                           workers'[y].at \in {"store", "answer", "check"} =>
                             workers'[y].token # workers'[x].token
                      /\ workers'[x].token \notin replaced' \cup refused'
    BY DEF FreshTokens
  <2>1. x # w /\ workers'[x] = workers[x] /\ workers[x].at = "store"
    BY <1>4
  <2>2. /\ \A v \in User : TokenOf(v) # workers[x].token
        /\ workers[x].token # t /\ workers[x].token \notin replaced \cup refused
    BY <1>5, <2>1 DEF TokensApart, FreshTokens
  <2>3. \A y \in Worker \ {x} :
          workers'[y].at \in {"store", "answer", "check"} =>
            workers'[y].token # workers[x].token
    BY <1>4, <2>1, <2>2 DEF TokensApart, FreshTokens
  <2>4. \A v \in User : TokenOf(v)' # workers[x].token
    BY <1>2, <2>2
  <2>5. workers[x].token \notin replaced' \cup refused'
    BY <1>1, <1>3, <1>7, <2>2
  <2> QED
    BY <1>3, <2>1, <2>3, <2>4, <2>5 DEF TokensApart, FreshTokens
<1>11. OwnTokens'
  <2>1. ASSUME NEW k \in generated, NEW c \in Client, k # t, Owned(k, c),
               NEW v \in User, TokenOf(v)' = k
        PROVE  v = Account[c]
    BY <1>2, <2>1 DEF Owned
  <2>2. ASSUME NEW v \in User, TokenOf(v)' = t PROVE v = u
    BY <1>2, <1>5, <2>2
  <2>3. \A c \in Client : clients'[c].at = "in" => Owned(clients[c].token, c)'
    <3> SUFFICES ASSUME NEW c \in Client, clients'[c].at = "in",
                        NEW v \in User, TokenOf(v)' = clients'[c].token
                 PROVE  v = Account[c]
      BY DEF Owned
    <3>1. /\ clients[c].at = "in" /\ TokenOf(v)' = clients[c].token
          /\ clients[c].token \in generated /\ clients[c].token # t
          /\ Owned(clients[c].token, c)
      BY <1>3, <1>5 DEF TokensApart, TokensKnown, OwnTokens
    <3> QED
      BY <2>1, <3>1
  <2>4. ASSUME NEW x \in Worker, workers'[x].at \in {"answer", "check"},
               NEW v \in User, TokenOf(v)' = workers'[x].token
        PROVE  v = Account[workers'[x].client]
    <3>1. CASE x = w
      BY <1>1, <1>4, <2>2, <2>4, <3>1
    <3>2. CASE x # w
      <4>1. /\ workers'[x] = workers[x] /\ workers[x].client \in Client
            /\ workers[x].token \in generated /\ workers[x].token # t
            /\ Owned(workers[x].token, workers[x].client)
        BY <1>4, <1>5, <2>4, <3>2
           DEF TokensApart, TokensKnown, OwnTokens, LoginsServed, Served
      <4> QED
        BY <2>1, <2>4, <4>1
    <3> QED
      BY <3>1, <3>2
  <2> QED
    BY <2>3, <2>4 DEF OwnTokens, Owned
<1>12. LoginsStored'
  <2> SUFFICES ASSUME NEW x \in Worker, workers'[x].at = "answer",
                      NEW v, v = workers'[x].user
               PROVE  TokenOf(v)' = workers'[x].token \/ workers'[x].token \in replaced'
    BY DEF LoginsStored, TokenOf
  <2>1. CASE x = w
    BY <1>2, <1>4, <2>1
  <2>2. CASE x # w
    <3>1. workers'[x] = workers[x] /\ v \in User /\ workers[x].token \in generated
      BY <1>4, <2>2, SessionsAssumption
         DEF LoginsServed, Served, LoginPlaces, TokensApart, TokensKnown
    <3> QED
      BY <1>7, <1>8, <3>1 DEF TokensApart, LoginsStored
  <2> QED
    BY <2>1, <2>2
<1>13. RefusedNowhere'
  BY <1>2, <1>3, <1>5 DEF TokensApart, RefusedNowhere
<1>14. ServedAsOneself'
  BY <1>4 DEF Promises, ServedAsOneself
<1>15. StaysLoggedIn'
  <2> SUFFICES ASSUME NEW c \in Client, clients'[c].at = "in"
               PROVE  \/ TokenOf(Account[c])' = clients'[c].token
                      \/ clients'[c].token \in replaced'
    BY DEF StaysLoggedIn
  <2>1. clients[c].at = "in" /\ clients'[c] = clients[c] /\ Account[c] \in User
        /\ clients[c].token \in generated
    BY <1>3, SessionsAssumption DEF TokensApart, TokensKnown
  <2> QED
    BY <1>7, <1>8, <2>1 DEF Promises, StaysLoggedIn
<1> QED
  BY <1>9, <1>10, <1>11, <1>12, <1>13, <1>14, <1>15 DEF TokensApart, Promises
(* A token that is refused is in no row. *)
LEMMA Refusing ==
    ASSUME TypeOK, LoginsServed, TokensApart, Promises,
           NEW w \in Worker, ChecksToken(w), RowsWith(workers[w].token) = {}, Ends(w),
           refused' = refused \cup {workers[w].token}
    PROVE  TokensApart' /\ Promises'
<1>1. /\ workers[w].at = "check" /\ workers[w].token \in generated
      /\ UNCHANGED <<users, clients, generated, replaced>>
      /\ \A u \in User : TokenOf(u)' = TokenOf(u)
  BY DEF ChecksToken, TokensApart, TokensKnown, TokenOf
<1>2. /\ workers'[w].at = "idle"
      /\ \A x \in Worker \ {w} : workers'[x] = workers[x]
  BY DEF Ends, IdleWorker, TypeOK
<1>3. \A u \in User : TokenOf(u) # workers[w].token
  <2>1. workers[w].token # NoToken
    BY <1>1, SessionsAssumption DEF TypeOK, Token
  <2> QED
    BY <2>1 DEF RowsWith, TokenOf
<1>4. TokensKnown'
  BY <1>1, <1>2 DEF TokensApart, TokensKnown
<1>5. FreshTokens'
  <2> SUFFICES ASSUME NEW x \in Worker, workers'[x].at = "store"
               PROVE  /\ \A u \in User : TokenOf(u)' # workers'[x].token
                      /\ \A c \in Client : clients'[c].at = "in" =>
                           clients'[c].token # workers'[x].token
                      /\ \A y \in Worker \ {x} :
                           workers'[y].at \in {"store", "answer", "check"} =>
                             workers'[y].token # workers'[x].token
                      /\ workers'[x].token \notin replaced' \cup refused'
    BY DEF FreshTokens
  <2>1. x # w /\ workers'[x] = workers[x] /\ workers[x].at = "store"
    BY <1>2
  <2> QED
    BY <1>1, <1>2, <2>1 DEF TokensApart, FreshTokens
<1>6. OwnTokens'
  BY <1>1, <1>2 DEF TokensApart, OwnTokens, Owned
<1>7. LoginsStored'
  BY <1>1, <1>2 DEF TokensApart, LoginsStored, TokenOf
<1>8. RefusedNowhere'
  BY <1>1, <1>3 DEF TokensApart, RefusedNowhere
<1>9. Promises'
  BY <1>1, <1>2, SessionsAssumption DEF Promises, ServedAsOneself, StaysLoggedIn
<1> QED
  BY <1>4, <1>5, <1>6, <1>7, <1>8, <1>9 DEF TokensApart

(* When the database is cleared no worker has a request. *)
LEMMA Clearing ==
    ASSUME TypeOK, TokensApart, Promises, Clear
    PROVE  TokensApart' /\ Promises'
<1>1. /\ \A w \in Worker : workers'[w].at = "idle"
      /\ UNCHANGED <<clients, generated, refused>>
      /\ \A u \in User : TokenOf(u)' = NoToken
      /\ replaced' = (replaced \cup {TokenOf(u) : u \in User}) \ {NoToken}
  BY DEF Clear, WorkersJoined, AllIdle, IdleWorker, TokenOf
<1>2. NoToken \notin generated
  BY SessionsAssumption DEF TypeOK, Token
<1>3. replaced \subseteq replaced' /\ replaced' \subseteq generated
  <2>1. {TokenOf(u) : u \in User} \subseteq generated \cup {NoToken}
    BY DEF TokensApart, TokensKnown
  <2> QED
    BY <1>1, <1>2, <2>1 DEF TokensApart, TokensKnown
<1>4. TokensKnown'
  BY <1>1, <1>3 DEF TokensApart, TokensKnown
<1>5. FreshTokens' /\ LoginsStored' /\ ServedAsOneself'
  BY <1>1 DEF FreshTokens, LoginsStored, ServedAsOneself
<1>6. OwnTokens'
  BY <1>1, <1>2 DEF TokensApart, TokensKnown, OwnTokens, Owned
<1>7. RefusedNowhere'
  BY <1>1, <1>2 DEF TokensApart, TokensKnown, RefusedNowhere
<1>8. StaysLoggedIn'
  <2> SUFFICES ASSUME NEW c \in Client, clients'[c].at = "in"
               PROVE  clients'[c].token \in replaced'
    BY DEF StaysLoggedIn
  <2>1. clients'[c] = clients[c] /\ clients[c].token \in generated /\ Account[c] \in User
    BY <1>1, SessionsAssumption DEF TokensApart, TokensKnown
  <2> QED
    BY <1>1, <1>2, <1>3, <2>1 DEF Promises, StaysLoggedIn
<1> QED
  BY <1>4, <1>5, <1>6, <1>7, <1>8 DEF TokensApart, Promises

(* The invariant holds before anybody logs in. *)
LEMMA InvInit == Init => IInv
<1> SUFFICES ASSUME Init PROVE IInv
  OBVIOUS
<1>1. TypeOK /\ LoginsServed
  BY TypesInit
<1>2. /\ \A w \in Worker : workers[w].at = "idle"
      /\ \A c \in Client : clients[c].at = "off"
      /\ \A u \in User : TokenOf(u) = NoToken
      /\ generated = {} /\ replaced = {} /\ refused = {}
  BY DEF Init, IdleWorker, OffClient, TokenOf
<1> QED
  BY <1>1, <1>2 DEF IInv, TokensApart, Promises, TokensKnown, FreshTokens, OwnTokens,
                    LoginsStored, RefusedNowhere, ServedAsOneself, StaysLoggedIn

(* Every step keeps the invariant. *)
LEMMA InvNext == LoginsApart /\ IInv /\ [Next]_vars => IInv'
<1> SUFFICES ASSUME LoginsApart, IInv, [Next]_vars PROVE IInv'
  OBVIOUS
<1>0. /\ TypeOK /\ LoginsServed /\ TokensApart /\ Promises
      /\ TypeOK' /\ LoginsServed'
  BY TypesNext DEF IInv
<1> SUFFICES TokensApart' /\ Promises'
  BY <1>0 DEF IInv
<1>1. ASSUME \A u \in User : TokenOf(u)' = TokenOf(u), UNCHANGED history,
             \A c \in Client : ClientGoesOn(c), \A w \in Worker : WorkerGoesOn(w)
      PROVE  TokensApart' /\ Promises'
  BY <1>0, <1>1, GoingOn DEF SameRows
<1>2. users' = users => \A u \in User : TokenOf(u)' = TokenOf(u)
  BY DEF TokenOf
<1>3. CASE UNCHANGED vars \/ Tick \/ Stop
  <2>1. UNCHANGED <<users, clients, workers>> /\ UNCHANGED history
    BY <1>3 DEF vars, Tick, Stop
  <2>2. /\ \A c \in Client : ClientGoesOn(c)
        /\ \A w \in Worker : WorkerGoesOn(w)
    BY <2>1 DEF ClientGoesOn, WorkerGoesOn
  <2> QED
    BY <1>1, <1>2, <2>1, <2>2
<1>4. ASSUME NEW c \in Client, Leaves(c) PROVE TokensApart' /\ Promises'
  <2>1. \A d \in Client : ClientGoesOn(d)
    BY <1>0, <1>4 DEF Leaves, OffClient, ClientGoesOn, TypeOK
  <2> QED
    BY <1>1, <1>2, <1>4, <2>1 DEF Leaves, WorkerGoesOn
<1>5. ASSUME NEW c \in Client, NEW w \in Worker, Authenticates(c, w)
      PROVE  TokensApart' /\ Promises'
  <2>1. \A d \in Client : ClientGoesOn(d)
    BY <1>0, <1>5 DEF Authenticates, ClientGoesOn, TypeOK
  <2>2. \A x \in Worker : WorkerGoesOn(x)
    BY <1>0, <1>5 DEF Authenticates, Receives, WorkerGoesOn, TypeOK
  <2> QED
    BY <1>1, <1>2, <1>5, <2>1, <2>2 DEF Authenticates
<1>6. ASSUME NEW c \in Client, NEW w \in Worker, Asks(c, w)
      PROVE  TokensApart' /\ Promises'
  <2>1. \A x \in Worker : WorkerGoesOn(x)
    BY <1>0, <1>6 DEF Asks, Receives, WorkerGoesOn, TypeOK
  <2> QED
    BY <1>1, <1>2, <1>6, <2>1 DEF Asks, ClientGoesOn
<1>7. ASSUME NEW w \in Worker, ChecksPassword(w) PROVE TokensApart' /\ Promises'
  <2>1. \A c \in Client : ClientGoesOn(c)
    BY <1>7 DEF ChecksPassword, OffClient, ClientGoesOn
  <2>2. \A x \in Worker : WorkerGoesOn(x)
    BY <1>0, <1>7 DEF ChecksPassword, Goes, Ends, IdleWorker, WorkerGoesOn, TypeOK
  <2> QED
    BY <1>1, <1>2, <1>7, <2>1, <2>2 DEF ChecksPassword
<1>8. ASSUME NEW w \in Worker, AnswersLogin(w) PROVE TokensApart' /\ Promises'
  <2>1. \A c \in Client : ClientGoesOn(c)
    BY <1>8 DEF AnswersLogin, Waiting, ClientGoesOn
  <2>2. \A x \in Worker : WorkerGoesOn(x)
    BY <1>0, <1>8 DEF AnswersLogin, Ends, IdleWorker, WorkerGoesOn, TypeOK
  <2> QED
    BY <1>1, <1>2, <1>8, <2>1, <2>2 DEF AnswersLogin
<1>9. ASSUME NEW w \in Worker, ChecksToken(w) PROVE TokensApart' /\ Promises'
  <2>1. ASSUME NEW u \in RowsWith(workers[w].token),
               workers' = [workers EXCEPT ![w].at = "execute", ![w].user = u],
               UNCHANGED refused
        PROVE  TokensApart' /\ Promises'
    <3>1. u \in User /\ TokenOf(u) = workers[w].token
      BY DEF RowsWith, TokenOf
    <3>2. u = Account[workers[w].client]
      BY <1>0, <1>9, <3>1 DEF ChecksToken, TokensApart, OwnTokens, Owned
    <3>3. \A x \in Worker : WorkerGoesOn(x)
      BY <1>0, <2>1, <3>2 DEF WorkerGoesOn, TypeOK
    <3> QED
      BY <1>1, <1>2, <1>9, <2>1, <3>3 DEF ChecksToken, ClientGoesOn, history
  <2> QED
    BY <1>0, <1>9, <2>1, Refusing DEF ChecksToken
<1>10. ASSUME NEW w \in Worker, Executes(w) PROVE TokensApart' /\ Promises'
  <2>1. \A x \in Worker : WorkerGoesOn(x)
    BY <1>0, <1>10 DEF Executes, Ends, IdleWorker, WorkerGoesOn, TypeOK
  <2> QED
    BY <1>1, <1>2, <1>10, <2>1 DEF Executes, ClientGoesOn
<1>11. ASSUME NEW u \in User, NEW p \in Password, AddUser(u, p)
       PROVE  TokensApart' /\ Promises'
  <2>1. \A v \in User : TokenOf(v)' = TokenOf(v)
    <3>1. users[u] = NoUser /\ \A v \in User \ {u} : users'[v] = users[v]
      BY <1>0, <1>11 DEF AddUser, TypeOK
    <3>2. users'[u].token = NoToken
      BY <1>0, <1>11 DEF AddUser, TypeOK
    <3> QED
      BY <3>1, <3>2 DEF TokenOf
  <2> QED
    BY <1>1, <1>11, <2>1 DEF AddUser, ClientGoesOn, WorkerGoesOn
<1>12. CASE StartsAgain
  <2>1. \A c \in Client : ClientGoesOn(c)
    BY <1>12 DEF StartsAgain, OffClient, ClientGoesOn
  <2>2. \A w \in Worker : WorkerGoesOn(w)
    BY <1>12 DEF StartsAgain, IdleWorker, WorkerGoesOn
  <2>3. UNCHANGED users /\ UNCHANGED history
    BY <1>12 DEF StartsAgain
  <2> QED
    BY <1>1, <1>2, <2>1, <2>2, <2>3
<1>13. ASSUME NEW w \in Worker, WorkerStep(w) PROVE TokensApart' /\ Promises'
  <2>1. CASE Generates(w)
    BY <1>0, <2>1, Generating
  <2>2. CASE StoresToken(w)
    BY <1>0, <2>2, Storing
  <2> QED
    BY <1>7, <1>8, <1>9, <1>10, <1>13, <2>1, <2>2 DEF WorkerStep
<1>14. CASE Clear
  BY <1>0, <1>14, Clearing
<1>15. ASSUME NEW c \in Client, ClientStep(c) PROVE TokensApart' /\ Promises'
  BY <1>4, <1>5, <1>6, <1>15 DEF ClientStep
<1>16. CASE Console
  BY <1>3, <1>11, <1>12, <1>14, <1>16 DEF Console
<1> QED
  BY <1>3, <1>13, <1>15, <1>16 DEF Next

(* Nothing that is executed was refused before. *)
LEMMA RefusedNever ==
    ASSUME IInv, [Next]_vars, NEW w \in Worker,
           workers[w].at = "check", workers'[w].at = "execute"
    PROVE  workers[w].token \notin refused
<1>0. TypeOK /\ RefusedNowhere
  BY DEF IInv, TokensApart
<1>1. ChecksToken(w)
  <2>1. \A x \in Worker : workers'[x].at = "execute" /\ workers[x].at # "execute" =>
          ~(Tick \/ Console \/ UNCHANGED vars \/ \E c \in Client : ClientStep(c))
    <3>1. UNCHANGED workers \/ (\A x \in Worker : workers'[x] = IdleWorker) =>
            \A x \in Worker : workers'[x].at = "execute" => workers[x].at = "execute"
      BY DEF IdleWorker
    <3>2. Tick \/ Console \/ UNCHANGED vars =>
            UNCHANGED workers \/ (\A x \in Worker : workers'[x] = IdleWorker)
      BY DEF Tick, Console, AddUser, Stop, Clear, StartsAgain, vars
    <3>3. ASSUME NEW c \in Client, ClientStep(c), NEW x \in Worker,
                 workers'[x].at = "execute"
          PROVE  workers[x].at = "execute"
      BY <1>0, <3>3 DEF ClientStep, Leaves, Authenticates, Asks, Receives, TypeOK
    <3> QED
      BY <3>1, <3>2, <3>3
  <2>2. PICK x \in Worker : WorkerStep(x)
    BY <2>1 DEF Next
  <2>3. \A y \in Worker \ {x} : workers'[y] = workers[y]
    BY <1>0, <2>2 DEF WorkerStep, ChecksPassword, Goes, Ends, Generates, StoresToken,
                      AnswersLogin, ChecksToken, Executes, TypeOK
  <2>4. x = w
    BY <2>3
  <2> QED
    BY <1>0, <2>2, <2>4 DEF WorkerStep, ChecksPassword, Generates, StoresToken,
                            AnswersLogin, Executes
<1>2. RowsWith(workers[w].token) # {}
  BY <1>0, <1>1 DEF ChecksToken, Ends, IdleWorker, TypeOK
<1> QED
  BY <1>0, <1>2 DEF RowsWith, RefusedNowhere, TokenOf

(* If no two tokens are generated in one second, a request is executed for *)
(* the user its client logged in as, for any users, clients and workers.   *)
THEOREM RequestsAreTheSenders ==
    ASSUME LoginsApart
    PROVE  Spec => []ServedAsOneself
<1>1. IInv /\ [Next]_vars => IInv'
  BY InvNext
<1>2. IInv => ServedAsOneself
  BY DEF IInv, Promises
<1> QED
  BY InvInit, <1>1, <1>2, PTL DEF Spec

(* If no two tokens are generated in one second, only a login to the same  *)
(* account or a clear of the server takes a client's token away.           *)
THEOREM SessionsStay ==
    ASSUME LoginsApart
    PROVE  Spec => []StaysLoggedIn
<1>1. IInv /\ [Next]_vars => IInv'
  BY InvNext
<1>2. IInv => StaysLoggedIn
  BY DEF IInv, Promises
<1> QED
  BY InvInit, <1>1, <1>2, PTL DEF Spec

(* If no two tokens are generated in one second, a token that was refused  *)
(* once ("unauthenticated") is never accepted again.                       *)
THEOREM RefusalsStand ==
    ASSUME LoginsApart
    PROVE  Spec => RefusedForGood
<1>1. IInv /\ [Next]_vars => IInv'
  BY InvNext
<1>2. IInv /\ [Next]_vars =>
        [\A w \in Worker :
           workers[w].at = "check" /\ workers'[w].at = "execute"
             => workers[w].token \notin refused]_vars
  BY RefusedNever
<1> QED
  BY InvInit, <1>1, <1>2, PTL DEF Spec, RefusedForGood
=============================================================================
