# GridDAaM: models, model checking and proofs

GridDAaM is a pair of C programs (build lists in `src/src/Makefile.am`):

- **griddaamfs**, a FUSE driver that shows a web server's directory tree as a file
  system (`fuse-driver/`, `proto/`, `common/`, `logging/mylog.c`);
- **griddaamfsd**, a TCP daemon, "mini FTS", that answers commands with one
  thread per client (`miniFTS/fts_main.c`, `network/`, `logging/scar_log.c`).

Some files of `src/src/network` (`net_messenger.c`, `net_client.c`, `nslookup.c`) and
`proto/net.c`, `main.c` are in the tree and in neither build list. The first two are part
of the network library the daemon is growing, and are treated here as library code: what
they promise any program that calls them.

All paths below are under `src/src/`. All definitions were read off the code; the
repository's own README is empty.

## 1. Inventory

### Thread-per-client server (`network/net_threader.c`, accept loop of `net_server.c`)
- *State*: locals of `threadingDaemonStart` (listening socket, `net_thread_pool_node`,
  `net_thread_pool`, `net_thread_looper`, `active_thread_counter`), heap nodes
  `net_thread_pool_t`, the process's descriptor table, one handler thread per client.
- *Operations*: accept a client; malloc and fill a node; `pthread_create`; register the
  node in the pool by walking it; in the handler: fetch the argument, serve, close, clear
  the node's descriptor.
- *Hard*: the handler's argument is the address of the acceptor's local variable (line
  283), read at line 7 after any number of further steps of the acceptor; descriptor
  numbers are used again; the failure path of `pthread_create` frees a node and then
  registers it (lines 284-306); `malloc`'s null is followed (263), a failed accept is
  logged with `%S` and no argument (258), and a handler may end the whole process.
- *Correct when*: a handler works on its own client's descriptor, somebody will close
  each accepted connection, the pool is a list, a client that has left frees its
  descriptor, and a waiting client is accepted.

### Client handler (`threadingDaemonClientHandler`, `network/net_buffer.c`, `net_common.c`)
- *State*: two buffers with their counters, the program's state object, the socket.
- *Operations*: allocations, `select` with a one second time-out, read, parse callback
  (repeated over the rest of the buffer), idle callback, two write loops, teardown.
- *Hard*: `read()`'s -1 becomes the largest `size_t` (line 77); the counters are shared by
  callback and loops and must be reset on each path; six ways into the teardown; short
  writes; a write that waits for a client that does not read (the socket is made blocking,
  `net_server.c:445`); SIGPIPE at its default; signals during `select`; the rest of what a
  client sent before it left.
- *Correct when*: each reply is sent once, the callback is entered only with input left,
  nothing leaks, and the thread ends once its client has gone.

### Message queue (`network/net_messenger.c`, lines 1-214)
- *State*: singly linked list and its mutex, messages on the heap.
- *Operations*: `net_msg_create`, `_delete_msg`, `net_msg_push_on_queue`,
  `net_msg_pop_from_queue`, `net_msg_queue_clean`, `net_msg_queue_delete`.
- *Hard*: peeks and a final store without the lock; a fresh message's `next` field is not
  initialised; its buffer may be null (line 71), which deleting it follows (159); delete
  calls clean, whose pop takes the mutex delete holds.
- *Correct when*: messages come out in order, each once, to one owner.

### Post office (`network/net_messenger.c`, lines 216-493)
- *State*: the list of places, the mailboxes with an inbox and an outbox each, the
  owner_id of each; handles hold an owner_id only.
- *Operations*: create a mailbox (in the first empty place, or a new one at the end),
  search, push to outbox or inbox, pop from either, remove one, clean up all.
- *Hard*: the list is walked place by place without a lock while others add, take and free
  places; mailboxes are found and then used; memory is used again; owner_id is a product
  and not unique; `push_to_inbox` pushes to the outbox (line 468); removing a mailbox with
  a message in it never returns.
- *Correct when*: it is a directory with one queue for each owner (the outbox, since the
  inbox is never filled): each owner has its own messages, in order, and no walk misses a
  mailbox that was there all the time.

### Connecting client (`network/net_client.c`)
- *State*: the descriptor table, shared by all calls; per call the socket, the place in the
  list of addresses and the list's memory.
- *Operations*: `firstTCPSocketConnectingCorrectly` (non-blocking connect to the addresses
  in turn), `net_create_client_socket` (blocking connect to the first one).
- *Hard*: many exits, few of which clean up; two `continue`s that try the same address
  again, one of them with the old socket open; an address that is given up for good once
  its connection is under way; a return value of 1 for errors, which is a descriptor.
- *Correct when*: it returns a socket connected to the first address that answers, leaves
  nothing else open, and returns.

### Log (`logging/scar_log.c`)
- *State*: the stream and whether it is the log's to close, which logs are on, the extra
  string in front of each line; no lock.
- *Operations*: open, log a line, log with the time, set the time indicator, close.
- *Hard*: flags outlive the stream they are about; an open may fail half way; the string of
  the time indicator is not terminated; every thread of the server logs; a line is itself
  used as a format (269, 353, 403, 582); `malloc` is not tested (540, 551, 558, 614).
- *Correct when*: it follows no bad pointer, never closes the program's own stream and
  loses nothing of its own, up to what the three properties name.

### Prefork server (`network/net_server.c`, `net_server()`)
- *State*: the listening socket shared by the boss and its worker, their descriptor
  tables, the process forked for each client, the kernel's backlog.
- *Operations*: set-up, forking the workers, select, accept, host name, fork per client,
  close in the parent, callback and shutdown in the child, which then returns from
  `net_server()` to whoever called it.
- *Hard*: a herd of listeners on one client; each fork copies the descriptors; forks that
  fail; listeners that return for good when `select` fails.
- *Correct when*: one process per client, nobody else has its connection open, and every
  client is dealt with. (`fts_main.c` starts the threaded server; nothing in the tree
  calls `net_server()`.)

### Document cache and transfers (`proto/cache.c`, `proto/curl-getinmemory.c`)
- *State*: a list of cached documents that never has more than one node; per call the
  chunk being downloaded.
- *Operations*: `cache_fetch`, `cache_add`, `download`, `upload`.
- *Hard*: no locks although FUSE calls from several threads; the block is replaced before
  it is filled in; curl's result is not looked at and no time is set for it; an empty
  transfer leaves `strdup(NULL)`; no `malloc` or `strdup` is tested; the time to live is
  written and never read.
- *Correct when*: what is returned is a document of the URL asked for, and the cache is a
  cache of one entry.

### FUSE operations (`fuse-driver/griddaam_*.c`)
- *State*: none but the cache; the server's tree belongs to the server.
- *Operations*: getattr, readdir, mkdir, create, read, open.
- *Hard*: documents are cached, cut off, or changed on the server between two requests;
  an upload may fail silently, or wait for the standard input; `dirname` changes its
  argument, so that getattr looks for the directory's own name in it; open writes an `int`
  into a pointer.
- *Correct when*: answers are true of a tree the server had, and later answers are not
  older than earlier ones.

### The rest
- *Buffers and strings* (`net_buffer.c`, `unsigned_string.c`): init and free of a buffer
  are steps of ClientHandler; `copy_buffer_to_buffer` is called nowhere and the string
  functions are pure.
- *Network helpers* (`net_common.c`): name look-up and sleeping change no shared state;
  `select_and_wait_for_activity_loop` is called nowhere.
- *Mini FTS daemon* (`fts_main.c`): its callbacks are instances of those ClientHandler
  leaves open. `miniFTS_commands.h`, with the commands they parse for, is not in the tree.
- *File copies* (`vlet.c`), *settings and debug log* (`common.c`, `mylog.c`), *code outside
  the build* (`nslookup.c`, `proto/net.c`, `main.c`): not modelled, see section 8.

### How they interact `fts_main.c` calls `threadingDaemonStart` with its callbacks; that
thread starts one handler per client (shared: descriptor table, the acceptor's variable, the
nodes); the handler calls back into `fts_main.c`. A network program would exchange messages
between handlers over the post office, whose mailboxes are pairs of message queues, and
connect to others with `net_client.c`. All of them log through `scar_log.c`. In the other
program FUSE calls the operations from its threads; they call `download()` and `upload()`,
which share the cache and talk to the web server.

## 2. Modules and the code they stand for

| module | models | built on |
|---|---|---|
| `NetThreader` | acceptor, nodes, pool, lives of the handlers | |
| `ClientHandler` | one handler thread in detail | |
| `ThreadedServerProofs` | theorems about the two | `NetThreader`, `ClientHandler` |
| `FifoQueue` | abstract: what the message queue promises | |
| `MsgQueue` | the queue, step by step | implements `FifoQueue` |
| `MsgQueueProofs` | its theorems | `MsgQueue` |
| `Directory` | abstract: what the post office is for | |
| `PostOffice` | mailboxes and handles, place by place | implements `Directory` |
| `PostOfficeProofs` | its theorems | `PostOffice` |
| `Prefork` | `net_server()` and the processes it forks | |
| `PreforkProofs` | its theorems | `Prefork` |
| `PageCache` | abstract: a cache of one entry | |
| `UrlCache` | `download()` over `cache.c`, access by access | implements `PageCache` |
| `UrlCacheProofs` | its theorems | `UrlCache` |
| `GridFs` | the FUSE operations and the server's tree | extends `PageCache` |
| `GridFsProofs` | its theorems | `GridFs` |
| `Dial` | the connecting client, system call by system call | |
| `DialProofs` | its theorems | `Dial` |
| `ScarLog` | the log, access by access | |
| `ScarLogProofs` | its theorems | `ScarLog` |
| `MC*` | symmetry sets and constraints for TLC | the module of that name |

NetThreader and ClientHandler split one thread at the call of the callback loop: in
NetThreader a handler "serves" its descriptor until it decides to close it, in
ClientHandler one handler's every step up to that close is modelled. GridFs runs over the
abstract cache, and UrlCache shows when the code keeps to that abstraction.
PostOffice treats the two queues of a mailbox as sequences, as MsgQueue/FifoQueue allow.

**NetThreader.** `apc` is the point the acceptor is at: `Accept`/`AcceptAborted`
(net_server.c, accept and its failure), `MallocNode` (262), `Fill` (264-280),
`SpawnOk`/`SpawnFail` (283-292), `RegisterFirst`, `StartWalk`, `WalkOn`, `RegisterLast`
(295-306). `hpc` is the point of a handler: `Deref` (line 7: the read through the
acceptor's variable), `LoadFd` (8), `PeerGone`/`HangUp` (leaves the loop), `Close` (193),
`Clear` (the node's field). `MallocNode` leaves an arbitrary descriptor in the new node's
`client_fd`, which is what reading it before line 264 yields. `SpawnFail` closes the
descriptor and frees the node, whose first word, `next`, then belongs to the allocator:
null or `Wild`. The node is registered all the same, as in the code. The process dies with
all its threads (`apc` is "crashed") in `MallocFails` (263), `LogFailedAccept` (258), in a
walk that follows a freed node, and by a handler: `DieOfSigpipe` (124, 167) and
`DieFreeing` (198).

**ClientHandler.** `pc` names the loops of the source. The program's callbacks are
unknown: `Answer` lets each one change the counters and answer anything the loops tell
apart, but for its side of the agreement at line 99 (it never moves the count back to a
byte it has handled; it may move it past the end). A reply is the sequence of its byte
positions, so that `sent` shows what the client got. A client that has ended may leave bytes
`unread`: `Read` gives these first (`ReadBytes`), then the end or the error (`ReadEnd`).
`WriteBlocks` is a write to a client that has stopped reading: it waits (`stalled`) for
`PeerReads`, `PeerEnds` or a signal, `WriteInterrupted`. `WriteError` on a broken
connection is SIGPIPE: `pc` becomes "killed", the end of the process. `Free` follows the
pointer of each buffer, allocated or not.

**MsgQueue.** `pc` goes through `PopPeek` (82), `PopLock`, `PopTake`, `PopUnlink`,
`PopUnlock`; `PushLock`, `PushFirst`, `PushStart`/`PushWalk`, `PushAttach`, `PushUnlock`;
`CleanCheck`, `CleanWipe` (189, without the lock); `DeleteLock`, `DeleteFree`. `op` is the
outermost call, since clean calls pop and delete calls clean. `FreshNext` is what may be
in a message's `next` field when `net_msg_create` returns; `bare` are the messages it
returns without a buffer, at whose deletion (`DisposeBare`) the process dies.

**PostOffice.** The list is the code's: `central_postoffice`, and of each allocated place its
`mailbox` and `next`; fresh memory holds `Wild`. A thread's `cpo` is the place it is at.
`Create` makes the mailbox and its queues, then `First`, `Make`/`MakeBox`/`MakeNext` (no
post office yet), or `Scan` to an empty place and `Take`, or `Last` and
`Extend`/`AppendBox`/`AppendNext`. `Search`, `Visit` (one place a step) and `Miss` are the
look-up of every other call, followed by `PushToInbox`, `PushToOutbox`, `Pop`,
`PopFromInbox` (told apart when the mailbox is found) or `RemoveDelete`/`RemoveHangs`/
`RemoveUnplace`. A letter is known by its owner and the box it was pushed for, so that it
shows when a letter for the inbox and one for the outbox change their order, and that both
come out of the same one (line 468). `CleanStart`, `CleanDelete`, `CleanUnlink`, `CleanEnd` are
the clean-up. `UseFreed` is the use of a mailbox that has gone since it was found. `Races`
names the pairs of threads the list cannot stand; the first race ends the behaviour.

**Dial.** `tab` is the table of descriptors with the socket behind each. The actions carry
the names of what the code calls: `Resolve`, `OpenSocket`, `GetTimeout`, `SetTimeout`
(`NoMemory`: the null of `malloc` at 82 or 275 is followed), `KeepAlive`, `NonBlock`,
`Connected`, `InProgress`, `Refusal`, `SelectReady`, `SelectFails`, `SoErrorClear`,
`SoErrorSet`, `FreeList`; `Settle` is the kernel's end of a connection under way. `fn` tells
the two functions apart where they differ.

**ScarLog.** One action per access to a static variable, to the extra string or to a
stream: `OpenFlags` to `OpenLogStr`; `LogText`, `LogErr`, `LogUsr`, `LogPrint` (scar_log) and
the `Time*` actions (scar_log_time); `CloseStr` to `CloseForget`; `IndicatorFree`,
`IndicatorSet`. A stream is open or closed, a string free, terminated or not. Using a
closed stream or a free string may kill the process or go unnoticed: `GotoIf` leaves both.
`pc` tells three deaths apart: "crashed" by a bad pointer, "nomemory" by an untested
`malloc`, and "format" by a line with conversions where the line is the format. `lost` is
set where `scar_log_time` returns with its line still in memory (572-575).

**Prefork.** `pc` for the listeners, `child` for the forked processes. `fds` and `kept` are
the descriptor tables; `ForkClient` copies the parent's. A child whose client is served
returns (`ChildReturns`) to the caller of `net_server()`, which is not in the repository:
what it does there is not followed.
Line numbers are in PROJECT.json.

**UrlCache.** `download()` is `Call`, `FetchStart`, `MatchHit`/`MatchMiss`/`MatchCrash`,
`CopyData`, `Transfer`, then `cache_add` as `AddStart`, `NewList`, `ClearCached`,
`ClearNext`, `FindTail`, `NewBlock`, `SetUrl`, `SetBuffer`, `SetData`, and `Return`. Every
access goes through the shared pointer again; a field not written yet is `Wild`, one whose
`strdup` failed is null. `NoMemory` is a `malloc` whose null the next statement follows.

**GridFs.** `Outside` changes the server's tree. An operation that looks is a `Begin`, then
`FetchStart` (into `cache_fetch`), `FetchCached`, `FetchMisses` or `FetchCrash`, after a miss
`Transfer` (whole, cut off, empty or an error page), `AddStart` and `AddEnd` (into and out of
`cache_add`), and the `...Returns` that derives the answer from the document. Calls that are
in the cache at once while one of them adds set `overlap`, and the behaviour is followed no
further: UrlCache shows what can happen then. `Sought` is the entry getattr looks for, of the
path as `dirname()` may have left it. `Touch` is the PUT of mkdir, create and read. `NoMemory`
and `Die` end the driver; `Refused` is the one allocation failure that is tested.

## 3. Runs

| run | question | bounds | states |
|---|---|---|---|
| `threader` | every interleaving of acceptor and handlers: `OwnDescriptor`, `NoOrphan`, `PoolIntegrity`, `GoneIsClosed`, `EveryClientAccepted` | 3 clients, 2 descriptors, 3 nodes, threads may fail to start | 232 000 |
| `threader_handoff` | finding 1 | 2 clients, 2 descriptors, 2 nodes, threads always start | violation |
| `handler` | `ReplySentOnce`, `CallbackHasInput`, `NothingLeaks`, `CrashNeedsFailedAlloc`, `EndsAfterHangUp`, `WriteEnds` | read buffer 3, write buffer 2, largest size_t 5, up to 4 bytes left unread | 458 000 |
| `handler_shortwrite` | finding 2 | as above | violation |
| `queue` | all operations: `Represents`, `Ownership`, `CrashNeedsBareMessage`, `FifoUntilSpoilt`, `LockReleased` | 2 threads, 3 messages, garbage in fresh ones, any of them without a buffer | 245 000 |
| `queue_delete` | finding 3 | 2 threads, 2 messages | violation |
| `postoffice` | `MessagesAtHome`, `PlacesReused`, `FindsWhatIsThere`, `IsDirectory` | 2 threads, 2 owners, 3 mailboxes, 2 places, 2 letters; symmetry | 2 017 000 |
| `prefork` | `OneProcessPerClient`, `NoStrayDescriptor`, `ClientIsDealtWith` | boss, 1 worker (as `AMOUNT_OF_WORKERS`), 3 clients | 186 000 |
| `cache` | `ChunkIsOfUrl`, `DeathIsExplained`, `IsOnePageCache`, `DownloadsReturn` | 2 threads, 2 URLs, 1 document of each or none | 436 000 |
| `driver` | `AnswersWereTrue`, `ReadsForward`, `CallsReturn` | 2 FUSE threads, a directory and two files in it, one of the directory's name; 1 change of the tree | 277 000 |
| `dial` | `FirstThatAnswers`, `LeaksExplained`, `CallsAdvance`, `CallsReturn` | 2 calls of either function, 2 descriptors, up to 2 addresses | 119 000 |
| `log` | `CrashExplained`, `CallerStreamKept`, `NothingLost` | 2 threads, any sequence of calls, 2 streams of the log's own, 2 strings; symmetry | 2 428 000 |

The states are the distinct ones. Five runs have a constraint:

- `InOrder` (threader) gives names in the order of their first use and lets accept take the
  oldest queued client, as the kernel does: it loses no behaviour but the renamed ones.
- `Followed` (queue): once the list is spoilt, which all three invariants and the refinement
  speak of no more, only queues of two messages, each with a buffer, are followed on.
- `Starts` (driver): the server's first tree is empty, or has the directory and the file of its
  name; the others come about by the change and by mkdir and create.
- `FewLetters` (postoffice): at most two letters wait in any two outboxes.
- `NoOverlap` (log) stops where an open, a close or the time indicator overlaps another call:
  all three properties are silent from there on.

What the bounds let happen:

- *threader*: 3 clients on 2 descriptors make `accept` fail for lack of descriptors and
  make numbers be used again while an old handler is still between its close and its
  clear; 3 nodes give a pool that must be walked, and a node that is freed and then
  allocated again. Allocations fail and handlers kill the process at any time.
- *handler*: with sizes 3 and 2 the rest of a buffer can be re-parsed, replies are longer
  than one write, the callback can move its count past the end, and the largest size_t is
  past both buffers, as -1 is in the code; 4 bytes left by a client that has gone are more
  than one read takes.
- *queue*: 3 messages make `push` walk over a list while another thread pops and frees;
  2 threads are enough for each pair of operations.
- *postoffice*: 3 mailboxes for 2 owners allow a second mailbox under the same owner_id,
  and memory used again for the other owner; two letters may come out in the wrong order,
  or into the wrong box; with 2 places the list has a first and a
  second, either may become empty before a walk, in front of it or behind it, and a
  third mailbox at once finds no memory.
- *prefork*: 3 clients for 2 listeners: both may hold a client while a third waits.
- *cache*: 2 URLs replace each other in the one entry, each with its document, with none, or
  with its URL or bytes lost for want of memory; 2 threads give each overlap of an add with
  another use. That two documents of one URL are not mixed up is proved for any number of
  them (`CacheIsOnePage`).
- *driver*: by the outside change or the driver's own mkdir and create the tree changes
  while 2 calls hold documents of different ages; the file of the directory's name is what
  getattr of the other file finds once `dirname` has cut its path.
- *dial*: 2 descriptors for 2 calls that may leak are soon used up, so that `socket` fails
  as well; 2 addresses are a first one that fails in every way and a next one.
- *log*: sequences of calls are not bounded, so that every flag is met in every state
  left by earlier opens and closes; 2 streams and 2 strings make the second one a loss.

`MaxChanges` (driver), `MaxMsgs` (postoffice) and `MaxUnread` (handler) bound counters the
code does not bound. Deadlock checking is off in runs where the system may really stop: the
process died (`threader`, `cache`, `driver`, `handler`, `queue`, `log`, `postoffice`, `dial`), a
thread waits for itself (`queue`, `postoffice`), a client never reads on (`handler`), every
call was made (`dial`), or every listener has ended (`prefork`).

### What the conditions in the properties mean
The code has faults that break nearly everything after them. A property is stated up to
that point and a history variable says whether it has been reached; it says that *nothing
else* can break it, and each such fault is itself reachable in its run:

- `overtaken` (NetThreader): the acceptor allocated a node while a new thread had not yet
  read its argument (finding 1);
- `spawnFailed` (NetThreader): some `pthread_create` failed, and a freed node was
  registered in the pool;
- `spoilt` (MsgQueue): "wiped": clean's unlocked store threw away a message pushed in
  between; "dirty": a message with garbage in `next` became the first of the list;
- `bare` (MsgQueue): a message whose buffer could not be allocated; only deleting one
  kills the process while the list is in order;
- `overlap` (UrlCache, GridFs): `cache_add` ran while another thread was in the cache;
- `together` (GridFs): two calls overlapped;
- `misuse` (PostOffice): "twice": two mailboxes had the same owner_id at once; "pulled": a
  mailbox was freed between being found and used; "raced": two threads were in the list in
  a way it cannot stand; "nomemory": the null of `malloc` for a place was followed;
- `mishaps` (Dial): which system calls failed in a way the code has no clean exit for:
  "option": the send time-out could not be set; "keepalive": SO_KEEPALIVE was refused;
  "nonblock": the socket could not be made non-blocking; "gaveup": a connection under way
  failed or took too long;
- `misuse` (ScarLog): "overlap"; "reopen": a second open without a close; "unpaired": a
  close without a successful open that named a stream; "indicator": the time indicator
  was set; "callerclosed": the program closed the stream it had passed in;
- `short` (ClientHandler): a write took part of what it was given;
- `stalled` (ClientHandler): a write waits for a client that has stopped reading.

Liveness has one more exception everywhere: the process may die (`~Alive` in NetThreader,
UrlCache and GridFs, "crashed" in Dial, "killed" and "crashed" among the ends of a handler).
Where it can die is modelled statement by statement, and section 7 says which deaths are
proved to be the only ones.

### What the runs taught us
- Until a thread is overtaken, the reuse of descriptor numbers, the missing join and the
  shared variable do no harm; the failure path of `pthread_create` breaks the pool but
  not the ownership of descriptors.
- A handler whose client has gone comes to its end, also if its callback never hangs up
  and whatever the client left unread: the -1 of `read` goes through the callback once and
  then ends at the reset connection, and a write that waited returns. But one of these ends
  is SIGPIPE, which ends the server with all its clients: `EndsAfterHangUp` counts it as an
  end, and NetThreader has it as `DieOfSigpipe`.
- A client that stays connected and stops reading keeps its handler in `write()` for ever
  (`WriteEnds` names this as the only exception), out of reach of the idle callback.
- After a `read()` that failed the callback is entered with no bytes at all and the largest
  `size_t` for their number; `CallbackHasInput` speaks of the other reads.
- The queue's double test in `pop` is needed and sufficient: a mutant without the test
  under the lock follows a null pointer.
- Without overlap the list walk of `cache.c` amounts to one entry: the second document
  replaces the first, and the old one is leaked. With memory, the only death is the
  `strdup` of a transfer that brought nothing; without, an entry whose URL or bytes were not
  duplicated is followed by a later fetch.
- getattr of a path below the root may answer from an entry of the name of the path's
  directory, which is what `basename` gives after `dirname` (`griddaam_getattr.c:37-39`): an
  answer true of another entry, which is why `AnswersWereTrue` speaks of `Sought`.
- The driver does not go back in time although nothing expires: it holds because the
  entry is the document transferred last. A larger cache, which `cache.c`'s list seems
  meant for, would lose it; the mutant `AddKeepsOld` shows that.
- The post office's list stands more than a list without a lock seems to: searches beside
  one another and beside a thread that fills an empty place, and one thread that adds
  beside others that remove. It is one queue for each owner, in order, but not two: what is
  pushed to the inbox comes out of the outbox among the rest, and the inbox is always
  empty. What the list cannot stand is a second thread that adds, a place
  half made (`malloc` has returned it, its fields are not set) or a mailbox just freed
  beside a search, and a clean-up beside anything in the list.
- `FindsWhatIsThere` holds up to a race: a walk cannot miss a mailbox, since places are
  only ever appended, or freed by a clean-up.
- The log kills the process after an unpaired close (the flag of line 477 is not reset),
  after the time indicator (lines 614-616 copy a string without its zero), or when its
  stream was closed under it; opening it again without a close only loses a stream. An
  open that fails on the level leaves flags and stream behind; one that fails on the
  stream leaves `logging_usrlog` set. Two deaths need no misuse: a `malloc` that fails in
  `scar_log_time` or the time indicator, and a line with conversions in it where the line is
  the format. And `scar_log_time` keeps its line in memory each time it finds no stream open
  (572-575), which is the case after every close.
- The connecting client gives up at the first address whose connection was under way, though
  others may answer; what it leaks is at most one socket a call, but for the sockets
  that cannot be made non-blocking, of which each try leaks one, until there are none.

## 4. Mutants
Next to a definition that a property watches, a module holds a variation of it under a
name of its own, commented "Mutant of ...": the guard that is missing, the field not
reset, the wrong order. TLC finds the property violated when the variation takes the place
of the definition. They document what each property is sensitive to, and are no part of
`Next`.

## 5. Fairness
- *NetThreader*: weak fairness of the acceptor and of each handler: runnable threads are
  scheduled. A client may stay for ever, so that a full descriptor table may stay full.
- *MsgQueue, UrlCache, GridFs*: weak fairness of each thread inside a call; nothing makes
  a thread start one. A transfer by curl or an upload need not end: no time is set for either,
  and the PUT reads the standard input. The liveness properties therefore lead to the return
  of the call or to its waiting for the transfer, and start again after it.
- *ClientHandler*: weak fairness of the thread, and strong fairness of a `select` that
  reports a client that has gone: signals, which the code takes for idle seconds, do not
  hit every single `select` for ever. Nothing makes a client read what it is sent
  (`PeerReads`), nor a signal end a write that waits for it.
- *Prefork*: listeners and returning children are scheduled, `select` returns while there is
  a client. Nothing is assumed of the callback in a child, of errors, or of clients.
- *Dial*: weak fairness of each call's steps: a thread in a call runs, and its `select` ends
  after thirty seconds whatever the network does. Nothing makes a connection settle.
- *PostOffice, ScarLog* have safety properties only.

## 6. Findings
1. **A new thread's argument is overwritten** (`net_threader.c:283`, run
   `threader_handoff`). `pthread_create` gets `&net_thread_pool_node`. The acceptor accepts
   the next client and overwrites the variable before the thread reads it; the thread then
   serves the other client's descriptor, or one that was never set. Line 292 says "All is
   well, client network thread launched".
2. **Short writes start again** (`net_threader.c:124` and 167, run `handler_shortwrite`).
   Line 120 promises to write until the number of bytes committed equals the number in the
   buffer; after a short write, the whole buffer is written again from its start and more
   is committed than there was.
3. **Deleting a queue with a message in it never returns** (`net_messenger.c:202`, run
   `queue_delete`). Delete holds the (default, not recursive) mutex when clean's pop locks
   it; line 204 says "Clean all messages from the queue".

Other faults met on the way are listed under "hazards" in PROJECT.json with the property
that shows them or the reason why none does. Two of them also contradict a line of the
repository, and have no run of their own: the comment at `net_client.c:30-31` says that the
function returns the socket of the first address that answers, or -1 when none does, but a
refusal or a time-out of a connection under way returns -1 with later addresses untried
(line 160 and its like), and a time-out that cannot be set returns 1 (line 90). The comment
of `FirstThatAnswers` states both, and the property the part that is kept.

## 7. Proofs
TLAPS checks these for all values of the constants that satisfy the assumption of the
module: null and garbage pointers are no addresses, descriptors are natural numbers, what
fresh memory may hold is an address, null or garbage (`ConstantsAssumption`); buffers are
not empty and a size_t holds more than their sizes (`SizesAssumption`); the boss is no
worker and null no connection (`PreforkAssumption`); the standard output is none of the
descriptors and a name has at least one address (`ConstantsAssumption` of Dial); null and
what is unwritten are no threads, URLs, documents or blocks (`CacheAssumption`); the
server's entries hang off its root, a document is a URL, a version and whether it is whole,
and null is none of these (`GridAssumption`); null and garbage are no owners, mailboxes,
places or sequences of letters, and there are finitely many threads (`OfficeAssumption`:
`PlacesReused` counts mailboxes, with those the threads are about to add); the program's own
stream is none of the log's and not null, and null is neither a stream nor memory for a string
(`ConstantsAssumption` of ScarLog). No other
module assumes finite sets of threads, clients, messages or addresses. The inductive
invariants stand in the component modules under "Why they hold", where TLC can be given
them as well.

`ThreadedServerProofs`, the acceptor (the module extends both models, so the definitions of
ClientHandler have names of their own: `HandlerInit`, `HandlerNext`, `HandlerSpec`,
`HandlerTypeOK`):
- `TypeCorrect`: types, and while the process lives, every pointer the acceptor or a handler
  is about to follow is a node's (`PointersOK`): of all of them only `malloc`'s result at line
  263 can be null, and that is where the process dies (`MallocFails`). Truth-valued flags are
  handled by a lemma of their own.
- `Handoff`: `HandoffInv` is `~overtaken => OneUserInv`. `OwnDescriptor` is not inductive:
  a thread that has not read its argument yet has nothing to show for itself. The
  strengthening follows the descriptor through all its places: in the acceptor's round
  (`RoundInv`), in the node it fills (`NewNodeInv`), from the variable or the node to the
  handler (`HandlerInv`), with no node shared by two handlers (`NodeInv`) and no thread for
  a client not yet accepted (`FreshInv`). One proof step per action; the step that needs
  `~overtaken'` is `MallocNode`, which changes the variable under a new thread.
- `OwnDescriptorHolds` and `NoOrphanHolds` follow, the latter with a lemma of its own on
  who minds a connection.
- `PoolIntegrityHolds`: the invariant is `PoolOK` with `WalkOK`, which says where the node
  being registered and the walk are: the node is not in the list yet and ends in null, and
  the walk is at a node of the list.

`MsgQueueProofs`:
- `TypeCorrect` (proved; it is in no run).
- `ListInvHolds`: `ListInv` for all four operations and whatever garbage fresh messages
  hold. `MutexInv` (whoever is between lock and unlock owns the mutex, and delete never
  gets past its own) does not depend on the data; `LocalInv` ties each thread's pointer
  into the list to the list as it is now, which is what makes the unlink of pop and the
  walk of push safe. It implies `Represents`, `Ownership` and `CrashNeedsBareMessage`
  (`RepresentsHolds`, `OwnershipHolds`, `CrashNeedsBareMessageHolds`): while the list is in
  order, the only bad pointer that is followed is the null buffer of a message (line 71) at
  its deletion (159).
- `FifoUntilSpoiltHolds`: for every operation and any garbage, each step is a step of the
  abstract queue or leaves it alone, up to the one that spoils the list. It rests on
  `StepIsFifo`: with the history of queued messages as the queue, each such step is one of
  the abstract queue or leaves it alone.

`ThreadedServerProofs`, the handler:
- `HandlerTypeCorrect`, with `ReadResult` on what the conversion of `read()`'s result yields.
- `NothingLeaksHolds` and `CrashNeedsFailedAllocHolds` rest on `OwnedInv`: which buffers
  exist at each point of the code, that both are freed at one point only, and that the
  socket is closed before it.
- `CallbackHasInputHolds` is inductive by itself, given the types: the first call comes
  after a `read()` that gave bytes, the others after the test of the parse loop, wherever the
  callback left its count, the end included. It says nothing of a `read()` that failed.
- `ReplySentOnceHolds` rests on `FreshCounterInv` (whichever loop ran last, and whatever
  the callback answered, the counter of a write loop is zero when the next begins) and
  `ReplyInv` (without a short write the reply is either untouched or complete).

`PreforkProofs`:
- `TypeCorrect`.
- `ServerInvHolds`: `ServerInv` says that each connection has one place (`OnePlace`), which
  needs that none is in the backlog twice (`NoTwin`), that a worker does nothing before
  it is forked (`NotForked`), and `NoStrayDescriptor` itself: a child has its client's
  socket open because the parent, which had it alone, was copied. The lemmas `TakenOff`,
  `WithoutOne` and `JoinsQueue` say what becomes of the backlog.
- `OneProcessPerClientHolds` and `NoStrayDescriptorHolds` follow.

`DialProofs`:
- `TypeCorrect`, with the socket and the address of a call that uses one.
- `DialInvHolds`: neither safety property is inductive. `DialInv` adds that the socket a call
  has is its own, made for the address it is at (`HeldInv`), that the addresses given up are
  those in front of it (`PassedInv`), and that no socket is made after a mishap that leaves
  one behind for good (`LeakInv`). The lemma `OthersKept` says that a step of one call does
  nothing to the others, since each descriptor is its maker's until it is closed.
- `FirstThatAnswersHolds` and `LeaksExplainedHolds` follow. The former is the part of the
  comment at lines 30-31 that the code keeps: it says nothing of a connection under way that
  fails or takes too long, nor of a time-out that cannot be set.
- `CallsAdvanceHolds` is the safety side of `CallsReturn`, which needs fairness and stays with
  TLC. It measures how far a call is by its address, then by the sockets it has left behind
  (`LeftBehind`, ordered by inclusion), then by its point in the code (`Point`).
  `StepOnward`: each step of the call but the close after a refused keep-alive moves
  that on; `OthersTakeNothing`: nothing else moves it. As there are finitely many
  addresses and descriptors, a call can go on for ever only by way of that close.

`UrlCacheProofs`:
- `TypeCorrect`, for every history of the cache: it needs that the list, once made, stays
  made (`ListStays`).
- `CacheInvHolds`: `CacheInv` is `~overlap => Orderly` beside the types. `ChunkIsOfUrl` is not
  inductive, since a chunk is copied out of whatever block the head of the list has.
  `Orderly` says that whoever adds is alone in the cache (`AdderAlone`), so that every
  `tmp_list` is the head (`LooksAtHead`), that the head has no block or a complete one of
  one URL except at the points of `cache_add` that fill it (`HeadFilled`), and that nothing
  hangs behind it (`HeadIsLast`, which ends the walks of `cache_fetch` and `cache_add`).
- `ChunkIsOfUrlHolds` and `DeathIsExplainedHolds` follow. The latter: without overlap, and
  with memory, the driver dies of an empty transfer only; without memory also at the
  `malloc` that failed, or later of a URL or of bytes that were not duplicated.
- `CacheIsOnePage`: until two uses of the cache meet, each step is a step of `PageCache` or
  leaves its page alone. The page is the head's block; while `cache_add` fills it, in steps
  nobody else sees, it is the document being added.

`GridFsProofs`:
- `TypeCorrect`.
- `DriverInvHolds`: `DriverInv` adds to `AnswersWereTrue` that every document, in the cache
  or in a call's hands, is of a version the server has had (`DocsOfLog`) and of the URL
  asked for (`DocsOfUrl`), also of calls that are under way at once: PageCache never mixes
  pages. `OneAtATime` and `EntryIsLatest` hold while calls do not overlap.
- `AnswersWereTrueHolds` (for any number of threads, with changes of the tree and broken
  transfers in between, until `cache_add` meets another use of the cache, and up to what
  `dirname` makes of the path) and `ReadsForwardHolds` follow.

`PostOfficeProofs`:
- `OfficeInvHolds`: `OfficeInv` comes in layers, since one misuse breaks some facts and leaves
  others. Without a race: all places are in one list, with only the one being added not
  ended yet (`OneList`), every call knows where it is in it (`Cursors`), a walk has the mailbox it
  looks for ahead of it (`Ahead`), and who extends the list has seen every place taken
  (`SeenFull`). Without more than a doubled owner: what is found is still there
  (`InUse`), a mailbox on its way in is empty and known to nobody else (`OnItsWay`), and each
  has one place (`OnePlaceEach`). Without any misuse: no two mailboxes of one owner
  (`OneBoxEach`).
- The places ahead of a cursor (`From`) are not defined by recursion but as those in every set
  that has the cursor and is closed under `next` (`Reach`), about which the lemmas
  `ReachStays`, `ReachOn`, `ReachSame`, `ReachExtended` and `ReachUnlinked` say what
  a step, an appended place and an unlinked head do to it. So no induction is needed, nor
  an assumption that the list ends: `OneList` excludes a cycle, since no `next` is the first
  place and no two are the same.
- `WritesOrNot` says that most steps leave the list alone; `OneListKept`, `CursorsKept`,
  `AheadKept`, `SeenFullKept`, `InUseKept`, `OnItsWayKept`, `OnePlaceEachKept` and
  `MessagesKept` then take the layers one by one. What lets a cursor survive the steps of
  others is `~Races'`: a step that would make two threads race sets `"raced"`.
- `TypeCorrect`, `MessagesAtHomeHolds`, `FindsWhatIsThereHolds` and `PlacesReusedHolds`
  follow.
- `OfficeIsDirectory`: from `Directory`'s initial state, each step without misuse is a step of
  `Directory` or changes nothing its owners can tell. The letters of an owner are the outbox
  of the mailbox at its place; `OneBoxEach` and `OnePlaceEach` make that mailbox unique, so
  that `CHOOSE` picks it. A mailbox becomes visible at the step that puts it at a place, and
  is gone for its owner at the step that deletes it, not when its place is emptied. A letter
  has its owner and the box it was meant for, so that `Directory` shows both orders: what is
  pushed to either box comes out of the outbox, once and oldest first, and nothing comes out
  of the inbox.

`ScarLogProofs`:
- `TypeCorrect`.
- `LogInvHolds`: none of the three properties is inductive, since none says what a thread in
  the middle of an open or a close has come to. `LogInv` comes in layers, by what each
  misuse breaks. Always: the code point goes with the function (`Points`). Without an
  overlap: whoever writes is alone in the log (`WriterAlone`), so that a call that reads
  finds what it found before; an open or a close that is under way agrees with the history
  (`Underway`); and the flag says whose the stream is, but for the moment between the two
  assignments of `scar_log_open` (`CallerNotClosed`). Without a reopen or the time
  indicator either: the log knows its stream and its string, and has none of its own when it
  is shut and until an open makes new ones (`OneStream`, `OneString`). With reopens at
  most (calls that only read may overlap, which is no misuse): what is used is there, but for the
  moment between `fclose` or `free` and the assignment of null (`StreamThere`,
  `StringThere`), and a session that is `"open"` has a stream, which is what makes the close
  that belongs to it safe.
- One lemma per layer for each kind of step: `OneStreamStep` and its like for the steps of the
  calls, `OneStreamKept` and its like for all of `Next`. `CallPoints` and `CallsOverlap` say
  when a call that starts overlaps another, `ReadersChangeNothing` and `AloneKept` that
  nobody changes the log under a reader, `MisuseGrows` that a layer once lost stays lost.
- `CrashExplainedHolds`, `CallerStreamKeptHolds` and `NothingLostHolds` follow, for any number of
  threads, streams and strings. `CrashExplained` is about bad pointers: the deaths by an
  untested `malloc` and by a line used as a format need no misuse and are states of their
  own. `NothingLost` includes the line `scar_log_time` leaves behind: it loses none while a
  session is open.

Every safety and action property of every passing run, `IsOnePageCache`, `IsDirectory` and
`FifoUntilSpoilt` among them, is thus the conclusion of a theorem. Only model-checked: all
liveness, since fairness and ENABLED are outside the prover's reach.

## 8. What is not modelled, and why
- *Formatting, logging and host names*: no control depends on them. The shared hostname
  buffer of the acceptor (`net_server.c:438`) is read by handlers for log lines only.
- *The time-outs of select*: a time-out that fires is a step of ClientHandler; that the
  prefork loop sets its time-out once only (line 267) changes how often it goes round.
- *Half-closed connections*: a client of ClientHandler that has ended reads no more either.
- *What a prefork child does after it returns* from `net_server()`: its caller is not in the
  repository.
- *What follows a race in the post office*: the model finds and names the races (`Races`)
  and stops there; what a torn list leads to depends on what memory holds.
- *What follows an overlap in the log* (`NoOverlap`), for the same reason; nor, in the driver,
  what follows an overlap in the cache, where UrlCache goes on and shows what can happen.
- *Dead code*: `createAndSetUpAllTCPServerSockets` (`net_server.c:36`), `copy_buffer_to_buffer`
  (`net_buffer.c`) and `select_and_wait_for_activity_loop` (`net_common.c`) are called nowhere.
- *The commands of mini FTS*: they are declared in a header that is not in the tree. A pull
  command reads the scratch directory, which may not be set.
- *Failed allocations* whose null is followed are modelled in the acceptor, the handler, the
  messages, the cache, the driver, the log, the places of the post office and the time-out of
  the connecting client. Left out are those of a mailbox, its queues or a handle, after which
  the call has no effect, those of the host name and error text buffers (`net_server.c:308`,
  316 and 438, the last one once, at the first client), and those inside the libraries.
- *The settings* (`common.c`) are set before the first operation. GridFs takes the URL as
  fixed (griddaam_main.c:83 always sets the same).
- *`vlet.c`* runs an external program through `system()`. *`nslookup.c`* is a third-party
  tool, *`proto/net.c`* and *`main.c`* are an earlier layer and an empty program, none in
  the build lists. `mylog.c` prints.

## 9. Plan
Done, in this order: the threaded server and its proofs; the message queue, its abstract
queue and proofs; the handler and its proofs; the cache and its abstraction; the driver; the
prefork server and its proofs; the post office, first with atomic walks and then place by
place; the connecting client and its proofs; the log; the proofs for the cache, the driver
and the post office, with the two refinements; the proofs for the log.

Next: `NetBuffer`, the `u_` search functions as operators against reference definitions over
short strings, should a command header that uses them join the tree.
