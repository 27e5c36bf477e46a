# remotebackup: verification development

TLA+ models of *remotebackup*, a client that watches a directory and keeps a
copy of it on a server, with TLC runs and TLAPS proofs. Paths below are
relative to the repository's root (`src/` is left out where it is obvious).

1. [The system](#1-the-system)
2. [Modules and how they correspond to the code](#2-modules-and-how-they-correspond-to-the-code)
3. [Runs](#3-runs)
4. [Proofs](#4-proofs)
5. [What disagrees with the repository's own words](#5-what-disagrees-with-the-repositorys-own-words)
6. [Plan](#6-plan)
7. [Not modelled, and why](#7-not-modelled-and-why)

## 1. The system

### Parts

| Part | State | Operations |
|---|---|---|
| **Output queue** (`rb_client/OutputQueue`) | list of operations (path, command, `processing`, `abort`), `processing_files`, `id_counter`, mutex `m`, one condition variable for everybody, `keep_going` | `add_file_operation` (watcher; waits at 100 entries), `get_file_operation` (senders; waits), `free_file_operation` (failed), `remove_file_operation` (done), `stop`, watchdog (notifies every 3 s) |
| **Client channels** (`Client`, `ClientFlowConsumer`) | per sender: a `ProtoChannel` with a socket and a mutex, `last_use`, a mutex `m` | `get_protochannel`, `run`, `is_open`, `clean_protochannel` (watchdog, idle for 5 s), `Client::run` (a connection for one request) |
| **Client life** (`ClientFlow`, `main`) | `keep_going`, `attempt_count`, `waiter`/`waiter_cv`, the threads, `senders_pool` | `authenticate`, `start`, `stop`, `sender_loop`, `watcher_loop`, SIGINT |
| **File watcher** (`FileManager`) | `files` (path to time, size, checksum), `running` | `initial_scan`, `file_system_compare`, `start_monitoring`, `stop_monitoring` |
| **Transfer** (`ClientFlow::upload_file`, `remove_file`) | segment number, running checksum | UPLOAD per segment of 1 MiB, REMOVE, ABORT after an exception |
| **Restore** (`get_server_state`, `get_server_files`) | - | PROBE, RESTORE per segment |
| **Acceptor and workers** (`rb_server/Server`) | `requests`, `req_mutex`, `req_cv`, `running` | `run` (accept), worker loop, `stop` |
| **Dispatch** (`ServerFlow::flow`) | `svc_map` (`atomic_map`): the files being written | AUTH, UPLOAD, REMOVE, ABORT, PROBE, RESTORE, NOP |
| **File store** (`FileSystemManager`, `Database`) | files under the root, table `fs` (`last_segment`, hash, time, size), a shared mutex | `write_file`, `remove_file`, `get_files`, `read_file_segment`, `cleanup_empty_folders`, `clear` |
| **Sessions** (`AuthController`) | table `users` (password hash, one token) | `auth_by_credentials`, `generate_token`, `auth_get_user_by_token`, `add_user` |
| **Segmentation** (`RBHelpers`, `upload_file`, `get_server_files`, `read_file_segment`) | positions, lengths and segment numbers, some of them `int` | `count_segments`, `calculate_checksum` |
| **Console** (`rb_server/main`) | - | `adduser`, `stop`, `clear`, SIGINT |

The watcher thread puts changes in the queue; sender threads take them and
send requests, each on a channel of its own that stays open between
operations. On the server an accepted connection is queued, and one worker
serves it until a request says `final`. A request is executed by `flow`, which
guards the file with `atomic_map` and calls the file store. `keep_going`
(client, queue), `running` (server, watcher) are the flags that stop the
threads; watchdog threads (`make_watchdog`) tick every few seconds.

### What is hard here

* Flags are changed, and condition variables notified, *without* the mutex of
  the wait (`OutputQueue.h:64`, `ClientFlow.cpp:465`, `Server.cpp:80,94`).
* One condition variable for senders and watcher, and a `remove` that notifies
  only below a mark (`OutputQueue.cpp:73`).
* A newer change to a path whose operation is being sent, failed, retried.
* Three users of a channel: its sender, the watchdog, `join`.
* Workers held by idle connections, and the watchdog that must free them.
* A file and its row in two stores, changed by several statements, under a
  guard that tests and then inserts, by a process that may die in between.
* Database statements whose errors are logged and not reported.
* A shared attempt counter; threads joined in an order that may deadlock.
* Tokens that a second login replaces, generated from a time in seconds.
* Lengths and positions of files in an `int`; files that are read for a
  restore while another client writes them.

* Files read piece by piece, by the watcher for their checksum and by a sender,
  while the user writes them.

`PROJECT.json` lists every such hazard with its line and the properties that
would catch it going wrong, or the reason why none would: it is an outcome the
models have and the properties accept, or one an assumption of the run excludes.

### What correctness means, component by component

* Queue: no change is lost, the newest wins, one path is never sent twice at
  once nor out of order, nobody sleeps while there is work.
* Channels and workers: an answer is read by the thread that asked, each
  connection has exactly one owner, every request is answered, idle workers
  come back, shutdown ends.
* Client life: the client stops when told to and after too many failures; it
  stops completely.
* File store: what a row says of a file is true, also after crashes and lost
  statements once the file is sent or removed again; an answered upload is
  stored; the guard is always released.
* Watcher and restore: every change reaches the queue; a restored file equals
  the one backed up, byte for byte.
* Sessions: a request is executed for the user who sent it; who is logged in
  stays so until somebody logs in to the same account.

## 2. Modules and how they correspond to the code

`PROJECT.json` ("map") gives the source lines of every definition. In every
module an action is one critical section, or one step between two points where
another thread can act.

### OutputQueue, PathMailbox

`OutputQueue` has one action per outcome of each method. Methods run with `m`
held, so a method that does not sleep is one action; where it sleeps, the test
(`...DecidesToWait`, which keeps `m`) and the sleep (`Waits`) are two actions,
because `stop` and the watchdog notify without `m`. The list is a function from
the ids queued to the operations; since entries are only appended, with
increasing ids, list order is id order. `AddCrashes` is the second outcome of
the undefined behaviour of `erase(it)` followed by `it++`. `newest` and
`completed` are history variables. A sender whose `get_file_operation` throws "stop"
has "exited" (`Stopped`).

`PathMailbox` is what the queue promises, path by path and without threads: a
backlog, at most the oldest of it being sent, replacement of what is not being
sent. `ImplementsMailbox` is the refinement; TLC checks it and TLAPS proves it.

### Channels

The client's senders and watchdog together with the server's acceptor, request
list, workers and `Server::stop`. A connection is named by its owner and its
use (`Pool(s)`, the persistent one, `Once(s)`, the connection of an ABORT).
`sent` and `reply` are the two directions of the TCP stream; `backlog` is the
listening socket's. A worker at "serve" reads its connection until a final
request; a worker between test and sleep holds `req_m`. `stale` abstracts the
wall clock: the channel was last taken more than 5 s ago. An exception in the
watchdog ends the process (`died`).

### FileStore, RemoteStore

The files and the rows of one user, with one action per statement of
`write_file`, `remove_file` and `atomic_map::guard`: test and insertion of the
guard, the check of `last_segment`, creation of the directory, opening,
writing, the row, the checksum, the metadata, unlinking and deleting the row.
The data of segment *i* of version *v* is `<<v, i>>`; a checksum is the content
it was computed from. An open file that is unlinked takes its data along
(`fd`). `keep_going` of the cleanup thread is read uninitialised:
`cleaner \in BOOLEAN`. Three things may go wrong:

* `Crash`, between any two statements; what a worker did so far stays.
* The database refuses a statement. `StepFails` is an error of `sqlite3_step`,
  which `Statement::step` logs: a SELECT has found nothing, any other statement
  has changed nothing, and the request goes on to a success. `PrepareFails` is
  an error the code throws.
* `clear()`, which stops the server, removes the files one after the other and
  then the database, cut short by a crash.

`damaged` and `erred` are history: the paths whose two stores these left apart,
and the transfers one of whose statements was refused.

`RemoteStore` is what a client may count on for the paths it alone writes:
nothing, the first segments of one version, all of them and then reported as
whole, or torn. Its steps relate what is kept of one path before and after;
several paths may step at once, as a crash does. `ImplementsStore` is the
refinement (`Stored` the mapping): a file that is being sent over an older
version is no longer reported as whole once segment 0 has truncated it, though
its row still says so until the INSERT.

### ClientFlow

The life of the client with the queue reduced to a number and a request to one
step. `main` is where `start()` is: the login (`Authenticates`), the threads it
creates one by one (`Spawns`), its wait (test and sleep apart), the stop
sequence, and for each sender `clear_protochannel` (the test, the `try_lock`,
the NOP) and `join`. A sender goes through the statements of `sender_loop`;
`last` tells the last request of an operation, since only before the others
`upload_file` tests `keep_going`. Senders and watcher wait on the queue in two
steps, with its mutex held from the test to the sleep; `NotifiesQueue` needs no
mutex and may come in between. `WatchdogRaces` is the data race on
`senders_pool`: as long as `start()` adds to it, a tick of the watchdog may end
the process.

### Sessions

Table `users`, the clients' logins and the token test in front of every
request, with the statements of a login apart: the password, the token
generated from the second (`Generates`), the UPDATE (`StoresToken`), the answer.
A request in flight outlives its client and the token it was checked with. The
console adds users, stops, clears and starts the server again.
`LoginsApart` is the assumption that no two tokens are generated in one second;
statements of the database are carried out here.

### Segments

The loops that cut a file and put it together, on bytes: `upload_file` (chunks
of a segment, the length of the last one), `write_file` (`last_segment`, the
last segment by `count_segments`, the checksum), `read_file_segment` (position,
length in an `int` of `IntWidth` bits), `get_server_files` and
`calculate_checksum`. One client uploads; another one of the same account may
start a restore at any moment, which shuts the first one out (`Sessions`) except
for the request a worker has already let in: that is how a file comes to be
read while it is written, `read_file_segment` taking neither lock nor guard.

### Backup

One client's files from its disk to the store and back, the user editing them
all the while. It composes the other parts by their promises: the queue is
`PathMailbox` (`Mailbox == INSTANCE PathMailbox`), and an answered request is
one step of the store, which is what `FileStore` shows for one transfer per
path.

* The contents of a file are a sequence of pieces. A piece is what is read at
  once: the 2048 bytes of `upload_file`, the 1,000,000 of `calculate_checksum`. A
  segment is some pieces (`SegmentSize`), and the user may write between any two.
* The watcher is at `at`, a loop of `watcher_loop` over the paths in `todo`.
  Looking at a file is several steps (`look.step`): its time, for a known file
  its time *again*, its size, then `calculate_checksum` opening it (`OpenSum`),
  reading its length (`ReadLength`) and piece after piece (`ReadSum`), which
  throws if the file has become shorter (`ReadFails`), and *note*, where
  `initial_scan` stores the metadata and `start_monitoring` reports it.
* The sender of path *p* is `up[p]`: `UploadOpens` compares size and time with
  those of the operation, `UploadReads` takes a piece and, after the last,
  compares the checksum, `UploadSends` has a segment stored, `RemoveSends` is
  REMOVE or ABORT. A file that is removed while it is open is read on (`source`,
  the sender's and the watcher's).
* A restore fetches segment after segment (`RestoreSegment`) and then computes
  the checksum with the steps above (`RestoreChecks`). Nothing catches an
  exception of the watcher thread before it monitors, so each ends the process,
  and the places `Ended` say why: *stopped*, the test of `keep_going` before
  each segment, *lost*, a PROBE or RESTORE that fails (`WatcherRequestFails`),
  *refused*, a segment the server does not have, *mismatch*, another checksum,
  and *dead*, a file that could not be read.
* `RequestFails` has the outcomes a lost or refused request of a sender can have:
  executed or not, answered by an ABORT (`RBException`) or given back.
* `StartsAgain` is any end of the client followed by a new start: what it
  remembered and had queued is gone. Edits while the client is at "probe" are
  the edits made while it was off.
* `CarefulUser` restricts the user to what the watcher is able to tell: a new
  second for each write and each start of the client, no write between two looks
  at one file or during a restore, and none that brings back the contents the
  watcher remembers.

Left out of it: the capacity of the queue and the maximum of attempts
(`OutputQueue`, `ClientFlow`), fewer senders than paths, a crash of the server
(`FileStore`), and a request of a dead client executed only after the next one
has started. A write of the user replaces the contents at once. `upload_file`
opens a file and reads its size and time in one step. A segment of a restore is
requested, answered and appended in one step. A checksum is the pieces it was
computed from.

### MC modules

`MCOutputQueue`, `MCFileStore`, `MCBackup`, `MCSessions` and `MCSegments` add
the symmetry sets and the constants that need a definition; `MCChannels` and
`MCClientFlow` add nothing. Symmetry is used in runs without liveness only, and
for sets no definition orders: the senders of the queue, the store's workers and
paths, the sessions' workers and the clients of one account. Senders of
`Channels` and `ClientFlow` are visited in order and are numbers.

## 3. Runs

`CHECK_DEADLOCK FALSE` everywhere: all these systems stop legitimately (the
bound on operations is reached, or the client or server has been stopped);
deadlocks that matter are the liveness properties.

| Run | Instance | Shows |
|---|---|---|
| `queue_safety` | 3 senders, 2 paths, capacity 3, mark 2, 5 operations | `HeldOpStaysQueued`, `OneSenderPerPath`, `ReservedPathsExact`, `AbortIffSuperseded`, `NewestSurvives`, `WakeupsSuffice`, `WatcherNotForgotten`, `CompletedInOrder`, and the refinement `ImplementsMailbox` |
| `queue_liveness` | 2 senders, 2 paths, 4 operations | every accepted operation is done or replaced; a watcher blocked on a full queue gets in; after a stop every sender ends but one that missed the notification (`StopReleasesAwake`) |
| `channels_safety` | 2 senders, 1 worker, pauses, the server stopped at any moment | no answer crosses and no connection is lost, whatever the clock and the server do |
| `channels_liveness` | 2 senders, 2 workers, no pauses | every request is answered, idle channels are closed, two workers never share a connection, and without pauses the watchdog never finds a channel in use |
| `store_single` | 2 paths, 2 versions, 2 workers, 3 transfers, 1 crash, 1 refused statement, `clear()`, one transfer per path | `RowDescribesFile`, `RowCountsSegments`, `UploadedIsStored`, and the refinement `ImplementsStore` |
| `store_shared` | 2 paths, 2 workers, 3 transfers, any number per path | the directory stays under its writer, the guard is always released, every request served is answered |
| `flow_safety` | 2 senders, queue of 1, 1 attempt, SIGINT | `start()` never talks on a channel its sender waits on; the stop sequence ends unless a thread missed the queue's notification (`StopCompletes`) |
| `backup_careful` | 1 path, segments of 1 piece, versions of 1 and 2 pieces, 3 edits, 3 starts, a careful user, no failures, a stop at any moment | what the watcher remembers and nobody is to send is stored (`RecordedIsStored`), a restore brings back every whole file and nothing else ends it but a stop or an upload that never ended (`RestoresComplete`), the server catches up (`CatchesUp`) |
| `backup_any` | 1 path, segments of 2 pieces, versions of 0, 2 and 3 pieces, 2 edits at any moment, 2 starts, 1 failure | what the server holds as complete was on the client's disk with that time, or was put together of files of that second or later if the file was written twice in it (`StoredWasOnDisk`) |
| `backup_failure` | 1 path, 1 edit, 1 failure | violation, see 5 |
| `sessions_apart` | 2 users, 3 clients (two of one account), 2 workers, 3 seconds, console and restarts | a request is executed for its sender (`ServedAsOneself`), only a login to the same account or a clear ends a session (`StaysLoggedIn`), and then for good (`RefusedForGood`) |
| `segments_loops` | segments of 4 bytes, chunks of 3 and 5, an `int` of 5 bits, 12 sizes, 2 uploads | segments add up (`SegmentsAddUp`), a restore that succeeds is genuine (`RestoredIsGenuine`), and one fails only beyond the `int` or because of a writer (`RestoresWhatFits`) |

The type invariants of `Channels`, `ClientFlow` and `Backup` hold in these
instances as well; they are not listed as properties of the runs.

### Bounds

* Queue: `Capacity = 3`, `NotifyBelow = 2` stand for 100 and 75: add blocks, a
  removal above the mark does not notify, one below does; five operations fill
  the queue and overwrite, abort and retry on both paths. `MaxOps` bounds the
  operations ever accepted. Each path has at most two entries, so 2 paths can
  exceed a capacity of 3 and do block the watcher.
* Channels: `Failing` are the senders that may be answered with an error (and
  so open a second connection), `Pauses` whether five seconds may pass between
  two statements, `ServerMayStop` whether the server stops. The safety run turns
  all of it on with one worker; two workers, who could take the same connection,
  are in the liveness run. (Everything at once, with two workers, holds as well:
  4.5 million states.) Message streams are bounded by the protocol: one request
  at a time.
* FileStore: `MaxJobs` transfers or removals, `MaxCrashes` crashes, `MaxErrors`
  refused statements. Versions of one and two segments reach the first, a
  following and the last segment; three transfers are a version, what goes wrong
  with the next one, and the one that repairs it. (Without errors four transfers
  and two crashes hold as well.) An empty version is left to `backup_any` and
  `segments_loops`: in `FileStore` `UploadedIsStored` fails for it (see 5).
  `RequestsAnswered` is checked without crashes, which would answer it
  trivially; with one refused statement `store_shared` holds too (1.0 million
  states).
* ClientFlow: `attempt_count` stops growing at `MaxAttempts + 1`, beyond which
  all values behave alike (the code tests equality only; the wrap-around of an
  `int` is ignored). `MaxPending` is the size at which the queue is full: with
  one entry senders and watcher both come to wait. (`MaxAttempts = 2` and
  `MaxPending = 2` hold as well: 1.0 million states.)
* Sessions: a third second lets a client that was pushed out log in again; two
  workers interleave two logins, or a login and a request. Tokens are the
  seconds they are generated in.
* Segments: the sizes are nothing, less than a segment, one, one and a byte,
  several with and without a rest, the largest of an `int` (15), the first
  beyond it (16, 17) and two that wrap around to a small positive length (33,
  38). Segment numbers fit the `int` (`SegmentsAssumption`), as those of files
  under 2 PiB do.
* Backup: the paths share only the watcher's loops, so one path is enough to
  meet each race of watcher, sender and user, and the invariants are proved for
  any number of paths. Two and three pieces are one segment and two of different
  length, and let an edit fall inside a segment and inside a checksum.
  (`StoredWasOnDisk` holds as well with three edits and one start, 4.1 million
  states, `RestoresComplete` with a failed request and two starts.) Three edits are a file, its
  replacement during the upload, and one more or a removal; three starts reach a
  restore of what a client left that died in an upload, killed midway, and the
  comparison after it. `MaxRuns`, `MaxEdits` and `MaxFailures` bound the history,
  `clock` follows the edits and, for a careful user, the starts.

`store_single` sets `SingleWriter`: one transfer per path at a time. That is
what the queue guarantees within one client (`OneSenderPerPath`), and what two
clients of one user do not; `store_shared` is without it.

### Fairness

Threads of both programs are scheduled (weak fairness of every thread's steps).
A thread that finds a mutex free again and again gets it: strong fairness where
a lock is contended, which is `m` of the queue, and in `Channels` the mutex of a
channel its sender keeps using (watchdog) and `req_mutex` (acceptor). The
watchdogs' own timers are weakly fair. In `Backup` the watcher and each sender
are weakly fair, failures, restarts and the user are not; senders never wait for
each other there, because the queue hands them different paths. Nothing is
assumed about spurious wakeups, new changes, SIGINT or `stop`; nor about
anybody in `Sessions` and `Segments`, whose properties are safety.
`QueuedIsServed` also assumes that a sender that keeps retrying
succeeds in the end (the server is up): `free_file_operation` may otherwise
repeat for ever, as it does in the code until the maximum of attempts.

## 4. Proofs

Every invariant a run checks is also proved, as is every action property and
both refinements: TLC shows them on the instances of section 3, the theorems for
every value of the constants, the bounds on operations, edits, crashes and
restarts included. The proofs are in a module of their own for each component.
A theorem has one invariant, preserved by each action; where a step below names
an invariant it is the definition of that name in the proof module.

The assumptions on the constants are the `ASSUME`s of the modules, which TLC
evaluates in every run. They say what kind of value a constant is, that the
senders and workers are finitely many (the code creates a fixed number of
threads), and that the values standing for "none" (`NoFile`, `NoRow`, `NoMeta`,
`NoThread`, `Free`) are none of the values they are told from. Whatever a theorem
assumes beyond that is in its `ASSUME` and named below.

### OutputQueueProofs

`OutputQueueProofs` proves, for any paths, senders, capacity, mark and bound on
the operations:

| Theorem | Statement |
|---|---|
| `TypeCorrect` | `Spec => []TypeOK` |
| `HeldOpsStay` | `Spec => []HeldOpStaysQueued` |
| `SendersApart` | `Spec => []OneSenderPerPath` |
| `ReservationsExact` | `Spec => []ReservedPathsExact` |
| `AbortsSuperseded` | `Spec => []AbortIffSuperseded` |
| `NewestNeverLost` | `Spec => []NewestSurvives` |
| `CompletionInOrder` | `Spec => CompletedInOrder` |
| `QueueImplementsMailbox` | `Spec => ImplementsMailbox` |
| `WatcherWoken` | `Spec => []WatcherNotForgotten` |
| `EnoughAwake` | `Spec => []WakeupsSuffice` |

None of the safety properties is inductive alone. That no path is sent twice
rests on `processing_files` being exact; that rests on marked entries and busy
senders matching one to one (`HeldOpStaysQueued`, `SentByOne`); that add sets
the abort flag on the right entry rests on the entry being sent being the
oldest on its path (`SentIsOldest`); that completions come in order rests on
the ids of a path lying between its last completed and its newest one
(`IdsInOrder`). `IInv` is their conjunction. `InvNext` has one step per action;
the four actions that move operations (`InvAddAccepts`, `InvGetTakes`,
`InvFree`, `InvRemove`) have a lemma each, all others change nothing the
invariant speaks of (`InvUnmoved`). The refinement maps `AddAccepts` to `Put`,
`GetTakes` to `Take`, `RemoveFileOperation` to `Done`, `FreeFileOperation` to
`Retry`, `StopSetsFlag` to `Close` and everything else to a stutter.

The last two say that a drained queue has woken its watcher, and that the awake
senders are enough for the operations ready to be sent. They are proved together
(`WakeInv`), because of the gap between a test and the sleep that follows it: a
thread in that gap holds `m`, so what it saw still stands when it falls asleep
(`Settled`). Otherwise they compare two numbers, the awake senders and the paths
that are ready; a step changes each by at most one, or wakes everybody
(`WakeNotified`), and `Settled` excludes the steps that would change the wrong
one.

### SessionsProofs

`SessionsProofs` proves, for any users, clients, accounts and workers and any
number of seconds, from `SessionsAssumption`:

| Theorem | Statement |
|---|---|
| `SessionsTypeCorrect` | `Spec => []TypeOK` |
| `RequestsAreTheSenders` | `ASSUME LoginsApart PROVE Spec => []ServedAsOneself` |
| `SessionsStay` | `ASSUME LoginsApart PROVE Spec => []StaysLoggedIn` |
| `RefusalsStand` | `ASSUME LoginsApart PROVE Spec => RefusedForGood` |

`LoginsApart` (no two tokens in one second) is an assumption about the users,
not about the code; the types do not need it. The types hold together with
`LoginsServed`: the row a login has found is still there when its token is
stored, as the console clears the database only after it has joined the
workers. The rest follows a token from its generation on. It is generated in a
second of its own, so it is nowhere else until it is stored (`FreshTokens`,
with `TokensKnown`); the statement that stores it puts it into one row, that of
the account that logged in (`OwnTokens`), which the login is then told of
(`LoginsStored`) and every request is looked up by; the token it replaces goes
from that row into none, so a refused one never comes back (`RefusedNowhere`).
`IInv` is the conjunction; `Generating`, `Storing`, `Refusing` and `Clearing`
treat the steps that move tokens, `GoingOn` all others.

### FileStoreProofs

For any paths, versions, workers, crashes and refused statements:

| Theorem | Assumes | Statement |
|---|---|---|
| `StoreTypeCorrect` | | `Spec => []TypeOK` |
| `StoreReleasesGuards` | | `Spec => []GuardsReleased` |
| `StoreKeepsDirectory` | | `Spec => []WriterKeepsDirectory` |
| `StoreDescribesFiles` | `SingleWriter` | `Spec => []RowDescribesFile` |
| `StoreCountsSegments` | `SingleWriter`, `NonEmpty` | `Spec => []RowCountsSegments` |
| `StoreKeepsUploads` | `SingleWriter`, `NonEmpty` | `Spec => []UploadedIsStored` |
| `StoreImplementsRemote` | `SingleWriter`, `NonEmpty` | `Spec => ImplementsStore` |

`SingleWriter` is what `SendersApart` proves of the queue of one client;
`NonEmpty` says that every version has a segment, as the three statements are
false of an empty file (section 5).

The first three hold whoever writes. `Common` is their invariant: a key in the
guard belongs to a worker that has still to remove it (`KeysHeld`), an open file
is the one at its path (`FilesOpen`), `clear()` has nobody beside it.

With one transfer per path, `Single` says where file and row of a path are at
each statement of its worker (`Stands`), and that they agree when nobody is at
work (`Agree`): both absent, or the file holds the segments up to the one the row
counts, and all of them if the row has metadata. Both except what an error or a
crash has left apart, until an upload from segment 0 or a removal goes through
(`Tracked`, `damaged`). Every step is local to one path (`Local`), so the
invariant is proved path by path. In the refinement the steps of a request that
change nothing a client can count on are stutters; the steps are sorted by what
they do to the one path they concern (`RemoteStep`).

### ChannelsProofs

For any number of senders and workers, with the server stopped at any moment:

| Theorem | Assumes | Statement |
|---|---|---|
| `ChannelsTypeCorrect` | | `Spec => []TypeOK` |
| `ChannelsAnswer` | | `Spec => []AnswersGoToAsker` |
| `ChannelsPlaces` | | `Spec => []OnePlacePerConnection` |
| `ChannelsWatchdog` | `~Pauses` | `Spec => []WatchdogNeverCollides` |

That an answer goes to the thread that asked follows from one conversation at a
time on each connection: what was asked is on its way, or its answer is, or the
connection was dropped (`FlightInv`). Who asked follows from the mutexes
(`LocksInv`), and a one-shot connection from its request (`OnceInv`). That an
open connection is in the listening socket's queue, in `requests` or with one
worker, and only there, is counted: `PlaceInv` equates the places a connection
has with those it is owed, and each step that moves it takes it from one place
and puts it into the next. Without pauses (no five seconds between two
statements of a sender) the watchdog touches only channels out of use
(`DogInv`); with pauses it does not hold, as the code compares a time.

### ClientFlowProofs

For any number of senders, maximum of attempts and size of the queue:
`FlowTypeCorrect` (`Spec => []TypeOK`) and `FlowKeepsChannels`
(`Spec => []ChannelNotTaken`). The bound on `pending` is part of the types and
needs `PendingBound`: an operation given back takes a place beyond the watcher's,
so the operations queued and those in the hands of a sender are bounded
together.

### BackupProofs, BackupCarefulProofs

For any paths and contents of files, size of a segment, edits, starts and
failures:

| Theorem | Assumes | Statement |
|---|---|---|
| `BackupInvariant` | | `Spec => []IInv` |
| `BackupStored` | | `Spec => []StoredWasOnDisk` |
| `BackupRestores` | `CarefulUser` | `Spec => []RestoresComplete` |
| `BackupRecords` | `CarefulUser`, `NonEmpty`, `MaxFailures = 0` | `Spec => []RecordedIsStored` |

`BackupStored` is about a user who edits at any moment, also between two pieces
of one checksum. The watcher may then put together a checksum no file ever had,
and nothing in the watcher notices. What saves the server is the time, which was
read first. A time *t* is `Live` at *p* as long as somebody may still find a
file of that time there, and only one was written in that second. As long as it
is, nothing has been written over that file, so what has been read so far is the
beginning of it (`LookSum`), and the checksum remembered or queued is that file's
(`Sampled`); when it no longer is, no sender will take it, because size and time
are compared first. A sender that goes ahead has found the time, and what it
reads, at whatever moments, is made of pieces of files no older than that
(`SourceInv`, `Placed`); in the end its checksum is the one it was given, so it is
the file of that time. Every segment it sends follows the ones the server has
(`Follows`), so the row that gets the metadata describes the whole (`RowInv`).
If two files were written in that second, watcher and sender can read the same
mixture of them, and all that is left is `Placed`: `StoredWasOnDisk` promises no
more of that case, and could not (section 5).

`CarefulUser` is needed where the watcher compares what it remembers with what is
there: section 5 lists the edits it cannot tell. `RestoreInv` is about a restore:
the server's rows do not change while it runs, since nothing is queued and no
sender of the earlier run is left; a file fetched halfway is the beginning of the
one stored (`Fetched`), no request for a segment goes beyond its end, and a file
that has come is either what the server reported or the rest of an upload
(`Came`). No edit falls inside a look, so the checksum it is compared with is
that of the file (`ReadInv`). An order to stop or a request without an answer
ends it all the same, between two segments, and `RestoresComplete` says so.

`RecordsInv` says, for each path and each place of the watcher, that a file it
remembers as it is on disk is either stored or the subject of the newest operation
queued, and that one it does not remember is absent or to be removed
(`PresentInv`, `AbsentInv`, once the comparison has passed the path), and that
this newest operation is not an upload about to be abandoned. The sender's
side of it is that what it has read of an unchanged file is the beginning of that
file (`SenderInv`); the comparison's, that a row with the time of the file has
its checksum (`SameAsDisk`), for which a start needs a second of its own
(`Older`). `NonEmpty` and `MaxFailures = 0` cannot be dropped:
the upload of an empty file never gets its metadata, and `backup_failure` shows
what one failed request does.

### SegmentsProofs

For any sizes of segments, of the two chunks and of files, and any width of an
`int` that the numbers of segments fit: `SegmentsAdd`
(`Spec => []SegmentsAddUp`), `RestoreGenuine` (`Spec => []RestoredIsGenuine`) and
`RestoreFits` (`Spec => []RestoresWhatFits`). Underneath are the arithmetic of the
code, that the segments of `count_segments` cover a file and the last one is
what is left (`SegmentsCover`, `SegmentLies`), that pieces of a file side by side
are a piece of it (`CutsJoin`), and that the loop of `calculate_checksum` reads
the file to its end whatever the size of its buffer (`ChecksumReadsAll`). That
lemma is about a recursive function: it names the function the recursion
defines and shows, from the furthest position at which it might differ, that
there is none. `IInv` adds where the upload and the restore are: what the client
has read is the version up to there, and what the server has are the segments
before (`UpInv`, `DownInv`).

### Only model-checked

Liveness: `QueuedIsServed`, `AddReturns`, `StopReleasesAwake`,
`RequestsAnswered` (twice), `IdleChannelsClosed`, `StopCompletes`, `CatchesUp`.
It rests on fairness, that is on ENABLED, which the prover does not treat.

## 5. What disagrees with the repository's own words

One of them has a run that exhibits it; `PROJECT.json` ("findings") quotes the
line.

| Run | What happens |
|---|---|
| `backup_failure` | one failed request of an upload: the ABORT removes the server's copy, the operation counts as completed, the watcher has nothing to report, and the file stays without a backup |

The models also contain, without a run of their own:

* `OutputQueue::stop` between a sender's test and its sleep
  (`OutputQueue.h:64`): the only notification is missed, the watchdog has ended,
  the sender never wakes, and `start()` waits for it in `join`.
  `StopReleasesAwake` and `StopCompletes` (`MissedStop`) leave out that case,
  and fail if they do not;
* the same lost notification in `Server::stop` (`Server.cpp:94`,
  `WorkerTests`/`WorkerSleeps`/`StopNotifies`) and in `ClientFlow::stop`
  (`ClientFlow.cpp:466`, `MainTests`/`MainSleeps`);
* two requests for one file that both pass `has()` before either calls `add()`
  (`AtomicMap.hpp:16`, `GuardTests`/`GuardAdds`): both write, where
  `ServerFlow.h:130` means to refuse the second with `concurrent_write`, and the
  first to leave removes the key of the other;
* two users who log in within one second get the same token
  (`AuthController.cpp:62`): with `LoginsApart = FALSE` `ServedAsOneself` fails,
  a request of one is executed for the other;
* a refused INSERT or UPDATE answered with success (`Database.cpp:134`,
  `StepFails`): `UploadedIsStored` fails without its exception `erred`;
* a file whose length does not fit an `int` cannot be restored
  (`FileSystemManager.cpp:205`, `TooFar`): without its exception `Fits`
  `RestoresWhatFits` fails;
* the watchdog of the channels, ticking while `start()` fills `senders_pool`
  (`ClientFlow.cpp:64`, `WatchdogRaces`);
* fewer workers than client channels: the watchdog waits for the channel whose
  request waits for the worker of an idle channel (`Channels` with one worker,
  where `RequestsAnswered` fails);
* two failures that carry `attempt_count` past the maximum, which is compared
  with `==` (`ClientFlow.cpp:362`);
* an empty file that never gets its metadata although its upload is answered
  with success (`FileStore` with an empty version, where `UploadedIsStored`
  fails); where the row is what an upload of an earlier version, cut short, left,
  PROBE reports it like that of an empty file and nothing repairs it;
* edits the watcher cannot tell (`Backup` without `CarefulUser`, where
  `RecordedIsStored` and `CatchesUp` fail): a file rewritten with the same
  contents before it was sent is skipped by `upload_file`, since its time
  differs, and ignored by the watcher, since its checksum does not; the same
  goes for one removed and written again within a second;
* two files of one second taken for the same (`FileManager.cpp:107`, which
  compares times before checksums): a restore killed midway leaves part of a
  file, and if the client is started again within the second the server has for
  it, the part passes for the whole. `RecordedIsStored` therefore has the client
  start in a second of its own (`StartsAgain`), and fails in three starts without
  that;
* a restore ended by the row of an upload that never ended: PROBE reports it
  with zeros, the checksum of what arrives is another, and the exception ends
  the process (`RestoreChecks`, *mismatch* in `RestoresComplete`);
* a client told to stop during a restore (`ClientFlow.cpp:212`): the exception
  leaves the watcher thread, where nothing catches it, and ends the process
  whether or not every file the server has is whole (`RestoreThrows`, *stopped*);
  a request that fails does the same (*lost*);
* a checksum computed while the file is written twice within one second
  (`RBHelpers.cpp:61`): it may be that of a mixture no file ever was, and a sender
  that reads the same mixture, of the same size and second, stores it as complete.
  `StoredWasOnDisk` makes an exception of that second (`OneFileAt`), and fails
  without it with three edits in one second and no failed request;
* the overwrite of a pending operation, which increments an erased iterator
  (`OutputQueue.cpp:22`, `AddCrashes`);
* `join` skipped when the NOP on a sender's channel throws
  (`ClientFlow.cpp:459`, `TriesNop`/`EndsNop`): `start()` returns with the
  sender at work;
* segment 1 accepted for a path without a row (`FileSystemManager.cpp:84`,
  `Allowed`), after another client removed the file.

## 6. Plan

Done: all modules and runs, and the proofs of every invariant, action property
and refinement the runs check.

Left:

1. Parts of the inductive invariants that say more about the code than the
   property resting on them (`KeysHeld`, `FlightInv`, `Sampled`), as properties
   and theorems of their own.
2. An action property of `Channels`: a worker gives a connection up only when it
   was told to, or when the connection broke.
3. Proofs whose steps for two actions are alike, to be shortened by lemmas.

## 7. Not modelled, and why

* Protobuf encoding and the asio streams: a message is one value that arrives
  whole or not at all. Partial writes (`AsioAdapting.h:40`) are outside, as is
  `validateRBProto`, which throws on messages neither program sends.
* A full disk (`ofs << datum` is not tested) and I/O errors of the server's
  files after they were opened. Of a SELECT that fails after some rows, which
  goes on with those it has, only "none" is taken (`StepFails`); in `Sessions`
  and `Backup` statements of the database are carried out. (A refused SELECT of
  a login reads the first row of an empty result, `AuthController.cpp:21`: the
  server may crash of it.)
* CRC-32 collisions: a checksum stands for the content.
* Construction order in `ClientFlowConsumer` (its thread is its first member),
  races on the `shared_ptr` itself.
* `attempt_count` carried past its maximum is in `ClientFlow`, without a
  property: the client then never gives up.
* Configuration, logging, the self-tests in `ServerFlow.h` (`test_*`), `md5` and
  the getters nothing calls: no state, or unused.
* Renaming and nesting of directories, symbolic links and file permissions on
  the client: a file is a path, its contents and its time.
