----------------------------- MODULE NetThreader -----------------------------
(***************************************************************************)
(* The thread-per-client server of src/src/network/net_threader.c: the     *)
(* acceptor thread (threadingDaemonStart, with the accept loop of          *)
(* net_server.c), the heap nodes and the linked pool they are registered   *)
(* in, and the handler threads (threadingDaemonClientHandler) from their   *)
(* creation to their exit.  What a handler does with the bytes it reads is *)
(* the subject of ClientHandler; here it only "serves" its descriptor.     *)
(*                                                                         *)
(* The acceptor passes a handler the ADDRESS of its own local variable     *)
(* net_thread_pool_node, so the model keeps that variable, the two reads   *)
(* the handler makes through it and every write the acceptor makes to it.  *)
(***************************************************************************)
EXTENDS Integers, Sequences, FiniteSets

CONSTANTS
    Conn,          \* client connections; each one also names the thread made for it
    Node,          \* addresses malloc may return for a net_thread_pool_t
    Fd,            \* descriptors the process may have open for clients
    NULL,          \* the null pointer, and "no connection"
    Wild,          \* a garbage pointer: following it kills the process
    SpawnMayFail   \* may pthread_create fail in this instance?

NoFd == -1

ASSUME ConstantsAssumption ==
    /\ Fd \subseteq Nat
    /\ NULL \notin Node /\ NULL \notin Conn
    /\ Wild \notin Node /\ Wild # NULL
    /\ SpawnMayFail \in BOOLEAN

VARIABLES
    \* the kernel
    conn,                  \* state of each connection
    gone,                  \* connections whose client has hung up
    fdtab,                 \* the connection behind each descriptor, or NULL
    \* locals of threadingDaemonStart
    apc, connection_fd, net_thread_pool_node, net_thread_pool,
    net_thread_looper, active_thread_counter,
    \* the heap: fields of the nodes
    allocated, client_fd, next,
    \* the handler threads
    hpc, hnode, hsock,
    \* history
    current,               \* the connection of the round the acceptor is in
    registered,            \* the nodes registered so far, in order
    overtaken,             \* a node was allocated while a new thread had yet to read the last one
    spawnFailed            \* some pthread_create failed

kernel   == <<conn, gone, fdtab>>
acceptor == <<apc, connection_fd, net_thread_pool_node, net_thread_pool,
              net_thread_looper, active_thread_counter>>
heap     == <<allocated, client_fd, next>>
handlers == <<hpc, hnode, hsock>>
history  == <<current, registered, overtaken, spawnFailed>>
vars     == <<kernel, acceptor, heap, handlers, history>>

-----------------------------------------------------------------------------

ValuesOK ==
    /\ conn \in [Conn -> {"idle", "queued", "open", "closed"}]
    /\ gone \subseteq Conn
    /\ fdtab \in [Fd -> Conn \cup {NULL}]
    /\ apc \in {"accept", "malloc", "fill", "spawn", "register", "walk", "crashed"}
    /\ connection_fd \in Fd \cup {NoFd}
    /\ net_thread_pool_node \in Node \cup {NULL}
    /\ net_thread_pool \in Node \cup {NULL}
    /\ net_thread_looper \in Node \cup {NULL}
    /\ active_thread_counter \in Nat
    /\ allocated \subseteq Node
    /\ client_fd \in [Node -> Fd \cup {NoFd}]
    /\ next \in [Node -> Node \cup {NULL, Wild}]
    /\ hpc \in [Conn -> {"none", "spawned", "deref", "serving", "closing",
                         "clearing", "exited"}]
    /\ hnode \in [Conn -> Node \cup {NULL}]
    /\ hsock \in [Conn -> Fd \cup {NoFd}]
    /\ current \in Conn \cup {NULL}
    /\ registered \in Seq(Node)

FlagsOK == {overtaken, spawnFailed} \subseteq BOOLEAN

Alive == apc # "crashed"

(* While the process lives, every pointer the acceptor or a handler is      *)
(* about to follow is the address of a node.  (An acceptor that follows     *)
(* malloc's null at line 263 is dead: MallocFails.)                         *)
PointersOK ==
    Alive =>
        /\ apc \in {"fill", "spawn", "register", "walk"} => net_thread_pool_node \in Node
        /\ apc = "walk" => net_thread_looper \in Node
        /\ \A h \in Conn : hpc[h] # "none" => net_thread_pool_node \in Node
        /\ \A h \in Conn : hpc[h] \notin {"none", "spawned"} => hnode[h] \in Node

TypeOK == ValuesOK /\ PointersOK /\ FlagsOK

Init ==
    /\ conn = [c \in Conn |-> "idle"]
    /\ gone = {}
    /\ fdtab = [f \in Fd |-> NULL]
    /\ apc = "accept"
    /\ connection_fd = NoFd
    /\ net_thread_pool_node = NULL
    /\ net_thread_pool = NULL
    /\ net_thread_looper = NULL
    /\ active_thread_counter = 0
    /\ allocated = {}
    /\ client_fd = [n \in Node |-> NoFd]
    /\ next = [n \in Node |-> NULL]
    /\ hpc = [c \in Conn |-> "none"]
    /\ hnode = [c \in Conn |-> NULL]
    /\ hsock = [c \in Conn |-> NoFd]
    /\ current = NULL
    /\ registered = <<>>
    /\ overtaken = FALSE
    /\ spawnFailed = FALSE

-----------------------------------------------------------------------------
(* The clients.  Each connects at most once: that bounds the model.         *)

Connect(c) ==
    /\ conn[c] = "idle"
    /\ conn' = [conn EXCEPT ![c] = "queued"]
    /\ UNCHANGED <<gone, fdtab, acceptor, heap, handlers, history>>

PeerClose(c) ==
    /\ conn[c] \in {"queued", "open"}
    /\ c \notin gone
    /\ gone' = gone \cup {c}
    /\ UNCHANGED <<conn, fdtab, acceptor, heap, handlers, history>>

(* close(f): the kernel drops the connection behind f, if f is open.        *)
CloseFd(f) ==
    IF f \in Fd /\ fdtab[f] # NULL
    THEN /\ fdtab' = [fdtab EXCEPT ![f] = NULL]
         /\ conn' = [conn EXCEPT ![fdtab[f]] = "closed"]
    ELSE UNCHANGED <<fdtab, conn>>

-----------------------------------------------------------------------------
(* The acceptor thread.                                                     *)

FreeFds == {f \in Fd : fdtab[f] = NULL}

(* accept() takes a queued connection and the lowest free descriptor.  With *)
(* no descriptor left it fails, -1 is returned and nothing changes.  The    *)
(* client's name, which only the log uses, is left out.                     *)
Accept(c) ==
    /\ apc = "accept"
    /\ conn[c] = "queued"
    /\ \E f \in FreeFds :
         /\ \A g \in FreeFds : f <= g
         /\ connection_fd' = f
         /\ fdtab' = [fdtab EXCEPT ![f] = c]
    /\ conn' = [conn EXCEPT ![c] = "open"]
    /\ current' = c
    /\ apc' = "malloc"
    /\ UNCHANGED <<gone, net_thread_pool_node, net_thread_pool,
                   net_thread_looper, active_thread_counter, heap, handlers,
                   registered, overtaken, spawnFailed>>

(* The client is gone before accept() gets to it.  ECONNABORTED: -1 is      *)
(* returned and the acceptor comes round again; EAGAIN: it selects again.   *)
AcceptAborted(c) ==
    /\ apc = "accept"
    /\ conn[c] = "queued" /\ c \in gone
    /\ conn' = [conn EXCEPT ![c] = "closed"]
    /\ UNCHANGED <<gone, fdtab, apc, connection_fd, net_thread_pool_node,
                   net_thread_pool, net_thread_looper, active_thread_counter,
                   heap, handlers, history>>

(* Either failure is logged with "%S" and no argument (line 258): whatever  *)
(* lies in the argument's place is followed, which may end the process.     *)
LogFailedAccept ==
    /\ apc = "accept"
    /\ \E c \in Conn : conn[c] = "queued" /\ (c \in gone \/ FreeFds = {})
    /\ apc' = "crashed"
    /\ UNCHANGED <<kernel, connection_fd, net_thread_pool_node, net_thread_pool,
                   net_thread_looper, active_thread_counter, heap, handlers,
                   history>>

(* The new node's address is stored in the variable handlers read their     *)
(* node from; until Fill the node holds whatever its memory held before.    *)
MallocNode(n, junk) ==
    /\ apc = "malloc"
    /\ n \notin allocated
    /\ allocated' = allocated \cup {n}
    /\ net_thread_pool_node' = n
    /\ client_fd' = [client_fd EXCEPT ![n] = junk]
    /\ overtaken' = (overtaken \/ \E h \in Conn : hpc[h] = "spawned")
    /\ apc' = "fill"
    /\ UNCHANGED <<kernel, connection_fd, net_thread_pool, net_thread_looper,
                   active_thread_counter, next, handlers, current, registered,
                   spawnFailed>>

(* malloc has nothing left.  Its null is not tested: it is stored in the    *)
(* same variable and followed at line 263, and the process dies.            *)
MallocFails ==
    /\ apc = "malloc"
    /\ net_thread_pool_node' = NULL
    /\ overtaken' = (overtaken \/ \E h \in Conn : hpc[h] = "spawned")
    /\ apc' = "crashed"
    /\ UNCHANGED <<kernel, connection_fd, net_thread_pool, net_thread_looper,
                   active_thread_counter, heap, handlers, current, registered,
                   spawnFailed>>

Fill ==
    /\ apc = "fill"
    /\ next' = [next EXCEPT ![net_thread_pool_node] = NULL]
    /\ client_fd' = [client_fd EXCEPT ![net_thread_pool_node] = connection_fd]
    /\ apc' = "spawn"
    /\ UNCHANGED <<kernel, connection_fd, net_thread_pool_node, net_thread_pool,
                   net_thread_looper, active_thread_counter, allocated,
                   handlers, history>>

SpawnOk ==
    /\ apc = "spawn"
    /\ hpc' = [hpc EXCEPT ![current] = "spawned"]
    /\ apc' = "register"
    /\ UNCHANGED <<kernel, connection_fd, net_thread_pool_node, net_thread_pool,
                   net_thread_looper, active_thread_counter, heap, hnode, hsock,
                   history>>

(* Mutant of SpawnFail: the node is liberated with close_the_fd = 0.        *)
SpawnFailKeepsFd ==
    /\ SpawnMayFail
    /\ apc = "spawn"
    /\ allocated' = allocated \ {net_thread_pool_node}
    /\ spawnFailed' = TRUE
    /\ apc' = "register"
    /\ UNCHANGED <<kernel, connection_fd, net_thread_pool_node, net_thread_pool,
                   net_thread_looper, active_thread_counter, client_fd, next,
                   handlers, current, registered, overtaken>>

(* pthread_create fails: liberate_net_thread_pool_node closes the           *)
(* descriptor the node holds, frees the hostname buffer and the node.  The  *)
(* allocator keeps its list of free chunks in the first word of the freed   *)
(* node, its next field: null, or an encoded address that leads nowhere.    *)
(* pthread_kill of a thread id that was never set, or a second free of the  *)
(* hostname buffer, may kill the process.                                   *)
SpawnFail ==
    /\ SpawnMayFail
    /\ apc = "spawn"
    /\ CloseFd(client_fd[net_thread_pool_node])
    /\ client_fd' = [client_fd EXCEPT ![net_thread_pool_node] = NoFd]
    /\ allocated' = allocated \ {net_thread_pool_node}
    /\ \E word \in {NULL, Wild} :
         next' = [next EXCEPT ![net_thread_pool_node] = word]
    /\ spawnFailed' = TRUE
    /\ apc' \in {"register", "crashed"}
    /\ UNCHANGED <<gone, connection_fd, net_thread_pool_node, net_thread_pool,
                   net_thread_looper, active_thread_counter, handlers, current,
                   registered, overtaken>>

(* Mutant of RegisterFirst: the acceptor waits for the thread to end before *)
(* it goes on (a pthread_join).                                             *)
RegisterAfterJoin ==
    /\ apc = "register"
    /\ net_thread_pool = NULL
    /\ hpc[current] = "exited"
    /\ net_thread_pool' = net_thread_pool_node
    /\ active_thread_counter' = active_thread_counter + 1
    /\ registered' = Append(registered, net_thread_pool_node)
    /\ apc' = "accept"
    /\ UNCHANGED <<kernel, connection_fd, net_thread_pool_node,
                   net_thread_looper, heap, handlers, current, overtaken,
                   spawnFailed>>

(* Registration happens whether or not the thread was created.              *)
RegisterFirst ==
    /\ apc = "register"
    /\ net_thread_pool = NULL
    /\ net_thread_pool' = net_thread_pool_node
    /\ active_thread_counter' = active_thread_counter + 1
    /\ registered' = Append(registered, net_thread_pool_node)
    /\ apc' = "accept"
    /\ UNCHANGED <<kernel, connection_fd, net_thread_pool_node,
                   net_thread_looper, heap, handlers, current, overtaken,
                   spawnFailed>>

StartWalk ==
    /\ apc = "register"
    /\ net_thread_pool # NULL
    /\ net_thread_looper' = net_thread_pool
    /\ apc' = "walk"
    /\ UNCHANGED <<kernel, connection_fd, net_thread_pool_node, net_thread_pool,
                   active_thread_counter, heap, handlers, history>>

WalkOn ==
    /\ apc = "walk"
    /\ next[net_thread_looper] # NULL
    /\ IF next[net_thread_looper] = Wild
       THEN apc' = "crashed" /\ UNCHANGED net_thread_looper
       ELSE net_thread_looper' = next[net_thread_looper] /\ UNCHANGED apc
    /\ UNCHANGED <<kernel, connection_fd, net_thread_pool_node, net_thread_pool,
                   active_thread_counter, heap, handlers, history>>

(* Mutant of RegisterLast: the node is attached wherever the walk stands.   *)
RegisterAnywhere ==
    /\ apc = "walk"
    /\ next' = [next EXCEPT ![net_thread_looper] = net_thread_pool_node]
    /\ active_thread_counter' = active_thread_counter + 1
    /\ registered' = Append(registered, net_thread_pool_node)
    /\ apc' = "accept"
    /\ UNCHANGED <<kernel, connection_fd, net_thread_pool_node, net_thread_pool,
                   net_thread_looper, allocated, client_fd, handlers, current,
                   overtaken, spawnFailed>>

RegisterLast ==
    /\ apc = "walk"
    /\ next[net_thread_looper] = NULL
    /\ next' = [next EXCEPT ![net_thread_looper] = net_thread_pool_node]
    /\ active_thread_counter' = active_thread_counter + 1
    /\ registered' = Append(registered, net_thread_pool_node)
    /\ apc' = "accept"
    /\ UNCHANGED <<kernel, connection_fd, net_thread_pool_node, net_thread_pool,
                   net_thread_looper, allocated, client_fd, handlers, current,
                   overtaken, spawnFailed>>

-----------------------------------------------------------------------------
(* The handler thread made for connection h.  Every handler dies with the   *)
(* process.                                                                 *)

(* The argument is dereferenced: the acceptor's variable as it is NOW.     *)
Deref(h) ==
    /\ Alive
    /\ hpc[h] = "spawned"
    /\ hnode' = [hnode EXCEPT ![h] = net_thread_pool_node]
    /\ hpc' = [hpc EXCEPT ![h] = "deref"]
    /\ UNCHANGED <<kernel, acceptor, heap, hsock, history>>

LoadFd(h) ==
    /\ Alive
    /\ hpc[h] = "deref"
    /\ hsock' = [hsock EXCEPT ![h] = client_fd[hnode[h]]]
    /\ hpc' = [hpc EXCEPT ![h] = "serving"]
    /\ UNCHANGED <<kernel, acceptor, heap, hnode, history>>

(* Mutant of PeerGone: the end of the stream is not noticed, only errors.   *)
PeerGoneUnlessEof(h) ==
    /\ Alive
    /\ hpc[h] = "serving"
    /\ \A f \in Fd : f = hsock[h] => fdtab[f] = NULL
    /\ hpc' = [hpc EXCEPT ![h] = "closing"]
    /\ UNCHANGED <<kernel, acceptor, heap, hnode, hsock, history>>

(* read() reports the end of the stream, or select() a bad descriptor.      *)
PeerGone(h) ==
    /\ Alive
    /\ hpc[h] = "serving"
    /\ \A f \in Fd : f = hsock[h] => fdtab[f] \in gone \cup {NULL}
    /\ hpc' = [hpc EXCEPT ![h] = "closing"]
    /\ UNCHANGED <<kernel, acceptor, heap, hnode, hsock, history>>

(* The callbacks end the session, a write fails or memory runs out.         *)
HangUp(h) ==
    /\ Alive
    /\ hpc[h] = "serving"
    /\ hpc' = [hpc EXCEPT ![h] = "closing"]
    /\ UNCHANGED <<kernel, acceptor, heap, hnode, hsock, history>>

Close(h) ==
    /\ Alive
    /\ hpc[h] = "closing"
    /\ CloseFd(hsock[h])
    /\ hpc' = [hpc EXCEPT ![h] = "clearing"]
    /\ UNCHANGED <<gone, acceptor, heap, hnode, hsock, history>>

(* Mutant of Clear: the descriptor is closed a second time.                 *)
ClearClosesAgain(h) ==
    /\ Alive
    /\ hpc[h] = "clearing"
    /\ CloseFd(hsock[h])
    /\ client_fd' = [client_fd EXCEPT ![hnode[h]] = NoFd]
    /\ hpc' = [hpc EXCEPT ![h] = "exited"]
    /\ UNCHANGED <<gone, acceptor, allocated, next, hnode, hsock, history>>

Clear(h) ==
    /\ Alive
    /\ hpc[h] = "clearing"
    /\ client_fd' = [client_fd EXCEPT ![hnode[h]] = NoFd]
    /\ hpc' = [hpc EXCEPT ![h] = "exited"]
    /\ UNCHANGED <<kernel, acceptor, allocated, next, hnode, hsock, history>>

(* A handler can take the process with it: SIGPIPE keeps its default        *)
(* action, so that a reply written to a client that has gone kills it, ...  *)
DieOfSigpipe(h) ==
    /\ Alive
    /\ hpc[h] = "serving"
    /\ \E f \in Fd : f = hsock[h] /\ fdtab[f] \in gone
    /\ apc' = "crashed"
    /\ UNCHANGED <<kernel, connection_fd, net_thread_pool_node, net_thread_pool,
                   net_thread_looper, active_thread_counter, heap, handlers,
                   history>>

(* ... and the teardown follows the null pointer of a buffer that could not *)
(* be allocated (ClientHandler says when).                                  *)
DieFreeing(h) ==
    /\ Alive
    /\ hpc[h] = "clearing"
    /\ client_fd' = [client_fd EXCEPT ![hnode[h]] = NoFd]
    /\ apc' = "crashed"
    /\ UNCHANGED <<kernel, connection_fd, net_thread_pool_node, net_thread_pool,
                   net_thread_looper, active_thread_counter, allocated, next,
                   handlers, history>>

-----------------------------------------------------------------------------

AcceptorStep ==
    \/ \E c \in Conn : Accept(c) \/ AcceptAborted(c)
    \/ \E n \in Node, junk \in Fd \cup {NoFd} : MallocNode(n, junk)
    \/ Fill \/ SpawnOk \/ SpawnFail
    \/ RegisterFirst \/ StartWalk \/ WalkOn \/ RegisterLast

(* The steps a handler takes by itself once it runs; HangUp is up to the    *)
(* callbacks.                                                               *)
HandlerStep(h) == Deref(h) \/ LoadFd(h) \/ PeerGone(h) \/ Close(h) \/ Clear(h)

(* The deaths that nothing forces to happen.                                *)
Death ==
    \/ MallocFails \/ LogFailedAccept
    \/ \E h \in Conn : DieOfSigpipe(h) \/ DieFreeing(h)

Next ==
    \/ \E c \in Conn : Connect(c) \/ PeerClose(c)
    \/ AcceptorStep
    \/ \E h \in Conn : HandlerStep(h) \/ HangUp(h)
    \/ Death

Spec == Init /\ [][Next]_vars

(* The operating system schedules every runnable thread; clients may stay   *)
(* connected for ever and callbacks need never hang up.                     *)
Fairness == WF_vars(AcceptorStep) /\ \A h \in Conn : WF_vars(HandlerStep(h))

FairSpec == Spec /\ Fairness

-----------------------------------------------------------------------------
(* Safety.                                                                  *)

(* As long as the acceptor never allocated a node before the thread of the  *)
(* last one had read its argument, each handler works on the descriptor of  *)
(* its own client and of no other, from the read at line 8 to its close().  *)
OwnDescriptor ==
    ~overtaken =>
        \A h \in Conn : hpc[h] \in {"serving", "closing"} =>
            hsock[h] \in Fd /\ fdtab[hsock[h]] = h

(* In the same executions every open connection has somebody who will close *)
(* it: the acceptor, before the thread exists, or the client's own handler. *)
NoOrphan ==
    ~overtaken =>
        \A c \in Conn : conn[c] = "open" =>
            \/ apc \in {"malloc", "fill", "spawn"} /\ current = c
            \/ hpc[c] \in {"spawned", "deref", "serving", "closing"}
            \/ apc = "crashed"

-----------------------------------------------------------------------------
(* Why OwnDescriptor and NoOrphan hold: the inductive invariant.            *)

(* While the acceptor prepares a thread it holds the descriptor of the      *)
(* client of its round, which no thread serves yet.                         *)
RoundInv ==
    apc \in {"malloc", "fill", "spawn"} =>
        /\ current \in Conn /\ hpc[current] = "none"
        /\ conn[current] \notin {"idle", "queued"}
        /\ connection_fd \in Fd /\ fdtab[connection_fd] = current

(* The node it fills is a live chunk and, at the spawn, carries the         *)
(* descriptor.                                                              *)
NewNodeInv ==
    /\ apc \in {"fill", "spawn"} => net_thread_pool_node \in allocated
    /\ apc = "spawn" => client_fd[net_thread_pool_node] = connection_fd

(* Through node n handler h will find, or found, the descriptor of its      *)
(* own client.                                                              *)
LeadsHome(n, h) ==
    /\ n \in allocated
    /\ client_fd[n] \in Fd /\ fdtab[client_fd[n]] = h

HandlerInv ==
    \A h \in Conn :
        /\ hpc[h] = "spawned" =>
              apc \notin {"fill", "spawn"} /\ LeadsHome(net_thread_pool_node, h)
        /\ hpc[h] = "deref" => LeadsHome(hnode[h], h)
        /\ hpc[h] \in {"serving", "closing"} => hsock[h] \in Fd /\ fdtab[hsock[h]] = h

Running(h) == hpc[h] \in {"deref", "serving", "closing", "clearing"}

(* No node belongs to two handlers, nor to one handler and the next.        *)
NodeInv ==
    \A h \in Conn : Running(h) =>
        /\ hnode[h] \in allocated
        /\ \A g \in Conn : Running(g) /\ hnode[g] = hnode[h] => g = h
        /\ (apc \in {"fill", "spawn"} \/ \E g \in Conn : hpc[g] = "spawned") =>
              hnode[h] # net_thread_pool_node

(* A client not yet accepted has no thread.                                 *)
FreshInv == \A c \in Conn : conn[c] \in {"idle", "queued"} => hpc[c] = "none"

(* As long as no new thread was overtaken, the hand-over works: each node   *)
(* and each descriptor has one user, who reached it through the acceptor's  *)
(* variable while it still pointed to his own node.                         *)
OneUserInv == RoundInv /\ NewNodeInv /\ HandlerInv /\ NodeInv /\ FreshInv

HandoffInv == ~overtaken => OneUserInv

-----------------------------------------------------------------------------
(* The pool.                                                                *)

(* The acceptor's list holds the nodes sq, in that order: each points to    *)
(* the one after it, the last to null.                                      *)
PoolIs(sq) ==
    /\ net_thread_pool = IF sq = <<>> THEN NULL ELSE sq[1]
    /\ \A i \in 1..Len(sq) :
          next[sq[i]] = IF i = Len(sq) THEN NULL ELSE sq[i + 1]

PoolOK ==
    /\ PoolIs(registered)
    /\ active_thread_counter = Len(registered)
    /\ \A i \in 1..Len(registered) : registered[i] \in allocated
    /\ \A i, j \in 1..Len(registered) : registered[i] = registered[j] => i = j

(* While no pthread_create has failed, the pool is a null-terminated list   *)
(* of the nodes registered, each of them allocated and none listed twice:   *)
(* the walk at line 298 ends, and loses no node.                            *)
PoolIntegrity == ~spawnFailed => PoolOK

(* Why: the node on its way to the pool is not in it yet and ends a list,   *)
(* and the walk is always at a node of the pool.                            *)
WalkOK ==
    /\ apc \in {"fill", "spawn", "register", "walk"} =>
          /\ net_thread_pool_node \in allocated
          /\ \A i \in 1..Len(registered) : registered[i] # net_thread_pool_node
    /\ apc \in {"spawn", "register", "walk"} => next[net_thread_pool_node] = NULL
    /\ apc = "walk" => \E i \in 1..Len(registered) : net_thread_looper = registered[i]

WalkInv == ~spawnFailed => WalkOK

-----------------------------------------------------------------------------
(* Liveness, under FairSpec.                                                *)

(* A client that hung up after being accepted is noticed and its descriptor *)
(* is given back, unless the acceptor overtook a new thread or the process  *)
(* died.                                                                    *)
GoneIsClosed ==
    \A c \in Conn :
        (conn[c] = "open" /\ c \in gone) ~> (conn[c] = "closed" \/ overtaken \/ ~Alive)

(* A waiting client is accepted, or finds the descriptors used up, or the   *)
(* process dies: as long as it lives and no pthread_create fails, no path   *)
(* of the acceptor keeps it from coming back to accept().                   *)
EveryClientAccepted ==
    \A c \in Conn :
        conn[c] = "queued" ~>
            (conn[c] # "queued" \/ FreeFds = {} \/ spawnFailed \/ ~Alive)

-----------------------------------------------------------------------------
(* What the code says of itself, and does not keep.                         *)

(* net_threader.c:292 registers each round with "All is well, client        *)
(* network thread launched": the launched thread serves the client its      *)
(* round accepted.                                                          *)
LaunchedThreadServesItsClient ==
    \A h \in Conn : hpc[h] \in {"serving", "closing"} =>
        hsock[h] \in Fd /\ fdtab[hsock[h]] = h
=============================================================================
