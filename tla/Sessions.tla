------------------------------ MODULE Sessions ------------------------------
(***************************************************************************)
(* Who a request is executed for: users and their tokens (AuthController,  *)
(* table users), the AUTH request of a client that starts                  *)
(* (Client::authenticate), the check of the token in front of every other  *)
(* request (ServerFlow::flow), and the server's console (adduser, clear,   *)
(* stop).  A user has one token, the newest login's; it is generated from  *)
(* the second of the login, and stored by a statement of its own.          *)
(*                                                                         *)
(* Several clients may use one account.  A token is the second it was      *)
(* generated in; what a request does to the files is FileStore's business. *)
(***************************************************************************)
EXTENDS Naturals

CONSTANTS
    User,           \* user names
    Password,       \* passwords (of which the table has the hash)
    Client,         \* client programs
    Worker,         \* the server's worker threads
    Account,        \* the user name in each client's rbclient.conf
    Secret,         \* and the password
    NoUser,         \* no row in table users
    NoToken,        \* the token is NULL, or not known
    NoClient,       \* the worker serves nobody
    LoginsApart,    \* whether no two tokens are generated in one second
    MaxTime         \* bound: seconds

ASSUME SessionsAssumption ==
    /\ Account \in [Client -> User] /\ Secret \in [Client -> Password]
    /\ NoUser \notin [password : Password, token : Nat \cup {NoToken}]
    /\ NoToken \notin Nat /\ NoClient \notin Client
    /\ LoginsApart \in BOOLEAN /\ MaxTime \in Nat

VARIABLES
    clock,      \* the server's time in seconds
    users,      \* table users: name -> [password, token], or NoUser
    clients,    \* client -> [at, token]
    workers,    \* worker -> [at, client, user, token] of the request it serves
    running,    \* Server::running
    generated,  \* history: the tokens generated
    replaced,   \* history: tokens that stood in a row and do no more
    refused     \* history: tokens a request was refused with

history == <<generated, replaced, refused>>
vars == <<clock, users, clients, workers, running, history>>

Token == Nat
IdleWorker == [at |-> "idle", client |-> NoClient, user |-> NoUser, token |-> NoToken]
OffClient == [at |-> "off", token |-> NoToken]

AllIdle == \A w \in Worker : workers[w] = IdleWorker

(* Tables are created if they do not exist. *)
Init ==
    /\ clock = 1
    /\ users = [u \in User |-> NoUser]
    /\ clients = [c \in Client |-> OffClient]
    /\ workers = [w \in Worker |-> IdleWorker]
    /\ running = TRUE
    /\ generated = {} /\ replaced = {} /\ refused = {}

Tick ==
    /\ clock < MaxTime
    /\ clock' = clock + 1
    /\ UNCHANGED <<users, clients, workers, running, history>>

----------------------------------------------------------------------------
(* The clients.                                                            *)

(* A worker takes the request of c. *)
Receives(w, c, where) ==
    /\ running /\ workers[w] = IdleWorker
    /\ workers' = [workers EXCEPT ![w] =
                     [at |-> where, client |-> c, user |-> Account[c],
                      token |-> clients[c].token]]

(* start(): the client's first request is AUTH. *)
Authenticates(c, w) ==
    /\ clients[c].at = "off"
    /\ clients' = [clients EXCEPT ![c].at = "login"]
    /\ Receives(w, c, "password")
    /\ UNCHANGED <<clock, users, running, history>>

(* Any other request; watcher and senders may have several under way.      *)
Asks(c, w) ==
    /\ clients[c].at = "in"
    /\ Receives(w, c, "check")
    /\ UNCHANGED <<clock, users, clients, running, history>>

(* The client ends or loses the connection of its login: what it asked for *)
(* is executed all the same.                                               *)
Leaves(c) ==
    /\ clients[c].at # "off"
    /\ clients' = [clients EXCEPT ![c] = OffClient]
    /\ UNCHANGED <<clock, users, workers, running, history>>

----------------------------------------------------------------------------
(* AUTH: auth_by_credentials, then generate_token: the time, the UPDATE.   *)

Goes(w, where) == workers' = [workers EXCEPT ![w].at = where]
Ends(w) == workers' = [workers EXCEPT ![w] = IdleWorker]

(* The client that waits for the login w serves, if it still does. *)
Waiting(w, c) ==
    /\ c = workers[w].client /\ clients[c].at = "login"
    /\ \A x \in Worker \ {w} : workers[x].client # c

RightPassword(w) ==
    LET c == workers[w].client IN
    /\ users[workers[w].user] # NoUser
    /\ users[workers[w].user].password = Secret[c]

(* "login_failed_wrong_credentials" ends the client. *)
ChecksPassword(w) ==
    /\ workers[w].at = "password"
    /\ \/ RightPassword(w) /\ Goes(w, "generate") /\ UNCHANGED clients
       \/ /\ ~RightPassword(w)
          /\ Ends(w)
          /\ clients' = [c \in Client |-> IF Waiting(w, c) THEN OffClient ELSE clients[c]]
    /\ UNCHANGED <<clock, users, running, history>>

(* The generator is seeded with the second. *)
SeedConstant == 0                   \* mutant: not seeded
Seed == clock

Generates(w) ==
    /\ workers[w].at = "generate"
    /\ LoginsApart => clock \notin generated
    /\ workers' = [workers EXCEPT ![w].at = "store", ![w].token = Seed]
    /\ generated' = generated \cup {clock}
    /\ UNCHANGED <<clock, users, clients, running, replaced, refused>>

(* UPDATE users SET token = ? WHERE username = ?; no row may have the name *)
(* any more.                                                               *)
UpdatedReplace(u, t) ==             \* mutant: REPLACE INTO, without password
    [users EXCEPT ![u] = [password |-> NoUser, token |-> t]]
UpdatedAll(u, t) ==                 \* mutant: the WHERE is missing
    [v \in User |-> IF users[v] = NoUser THEN NoUser ELSE [users[v] EXCEPT !.token = t]]
Updated(u, t) ==
    IF users[u] = NoUser THEN users ELSE [users EXCEPT ![u].token = t]

(* The token in the row of u. *)
TokenOf(u) == IF users[u] = NoUser THEN NoToken ELSE users[u].token

StoresToken(w) ==
    LET u == workers[w].user
        t == workers[w].token
    IN  /\ workers[w].at = "store"
        /\ users' = Updated(u, t)
        /\ replaced' = (replaced \cup {TokenOf(u)}) \ {t, NoToken}
        /\ Goes(w, "answer")
        /\ UNCHANGED <<clock, clients, running, generated, refused>>

(* The client has its token. *)
AnswersLogin(w) ==
    /\ workers[w].at = "answer"
    /\ clients' = [c \in Client |-> IF Waiting(w, c)
                                    THEN [at |-> "in", token |-> workers[w].token]
                                    ELSE clients[c]]
    /\ Ends(w)
    /\ UNCHANGED <<clock, users, running, history>>

----------------------------------------------------------------------------
(* The other requests: auth_get_user_by_token, then the work for that      *)
(* user.  Of several rows with the token any may come first.               *)

RowsWith(t) == {u \in User : users[u] # NoUser /\ users[u].token = t}

ChecksToken(w) ==
    /\ workers[w].at = "check"
    /\ \/ \E u \in RowsWith(workers[w].token) :
            /\ workers' = [workers EXCEPT ![w].at = "execute", ![w].user = u]
            /\ UNCHANGED refused
       \/ /\ RowsWith(workers[w].token) = {}            \* "unauthenticated"
          /\ refused' = refused \cup {workers[w].token}
          /\ Ends(w)
    /\ UNCHANGED <<clock, users, clients, running, generated, replaced>>

Executes(w) ==
    /\ workers[w].at = "execute"
    /\ Ends(w)
    /\ UNCHANGED <<clock, users, clients, running, history>>

----------------------------------------------------------------------------
(* The console.                                                            *)

(* adduser: UNIQUE(username) refuses a second row. *)
AddUser(u, p) ==
    /\ running /\ users[u] = NoUser
    /\ users' = [users EXCEPT ![u] = [password |-> p, token |-> NoToken]]
    /\ UNCHANGED <<clock, clients, workers, running, history>>

(* stop, SIGINT: no further request is served. *)
Stop ==
    /\ running
    /\ running' = FALSE
    /\ UNCHANGED <<clock, users, clients, workers, history>>

(* clear: after the workers have been joined the database is deleted. *)
WorkersJoined == AllIdle

Clear ==
    /\ ~running /\ WorkersJoined
    /\ users' = [u \in User |-> NoUser]
    /\ replaced' = (replaced \cup {TokenOf(u) : u \in User}) \ {NoToken}
    /\ UNCHANGED <<clock, clients, workers, running, generated, refused>>

(* The server is started again, after a stop or a crash.  Who was logging  *)
(* in exits; who was logged in goes on.                                    *)
StartsAgain ==
    /\ running' = TRUE
    /\ workers' = [w \in Worker |-> IdleWorker]
    /\ clients' = [c \in Client |-> IF clients[c].at = "login" THEN OffClient
                                                                ELSE clients[c]]
    /\ UNCHANGED <<clock, users, history>>

----------------------------------------------------------------------------
ClientStep(c) == Leaves(c) \/ \E w \in Worker : Authenticates(c, w) \/ Asks(c, w)

WorkerStep(w) ==
    \/ ChecksPassword(w) \/ Generates(w) \/ StoresToken(w) \/ AnswersLogin(w)
    \/ ChecksToken(w) \/ Executes(w)

Console ==
    \/ \E u \in User, p \in Password : AddUser(u, p)
    \/ Stop \/ Clear \/ StartsAgain

Next ==
    \/ Tick
    \/ \E c \in Client : ClientStep(c)
    \/ \E w \in Worker : WorkerStep(w)
    \/ Console

Spec == Init /\ [][Next]_vars

----------------------------------------------------------------------------
(* Properties.                                                             *)

(* Types. *)
TypeOK ==
    /\ clock \in Nat
    /\ users \in [User -> [password : Password, token : Token \cup {NoToken}]
                            \cup {NoUser}]
    /\ clients \in [Client -> [at : {"off", "login", "in"},
                               token : Token \cup {NoToken}]]
    /\ workers \in [Worker -> [at : {"idle", "password", "generate", "store",
                                     "answer", "check", "execute"},
                               client : Client \cup {NoClient},
                               user : User \cup {NoUser},
                               token : Token \cup {NoToken}]]
    /\ running \in BOOLEAN
    /\ generated \subseteq Token /\ replaced \subseteq Token
    /\ refused \subseteq Token \cup {NoToken}

(* A request is executed for the user its client logged in as, whoever     *)
(* else logs in, leaves, or comes back meanwhile: no file of one user is   *)
(* stored with another's.                                                  *)
ServedAsOneself ==
    \A w \in Worker :
        workers[w].at = "execute" => workers[w].user = Account[workers[w].client]

(* A client that has logged in can work until somebody else logs in to the *)
(* same account or the server is cleared: no other login, no restart takes *)
(* its token away.                                                         *)
StaysLoggedIn ==
    \A c \in Client :
        clients[c].at = "in" =>
            \/ TokenOf(Account[c]) = clients[c].token
            \/ clients[c].token \in replaced

(* Once a client has been told "unauthenticated" its token never works     *)
(* again: of two clients of one account the one that is pushed out does    *)
(* not take turns with the other.                                          *)
RefusedForGood ==
    [][\A w \in Worker :
         workers[w].at = "check" /\ workers'[w].at = "execute"
             => workers[w].token \notin refused]_vars
=============================================================================
