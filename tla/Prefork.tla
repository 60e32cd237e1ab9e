------------------------------- MODULE Prefork -------------------------------
(***************************************************************************)
(* net_server() of src/src/network/net_server.c: the calling process and   *)
(* the workers it forks all wait on one listening socket, and whichever    *)
(* gets a client forks a process for it.  A fork copies the table of open  *)
(* descriptors, so that a connection only ends when each process that got  *)
(* it has closed it.                                                       *)
(***************************************************************************)
EXTENDS Naturals, Sequences

CONSTANTS
    Boss,      \* the process that called net_server()
    Worker,    \* the AMOUNT_OF_WORKERS processes it forks
    Conn,      \* connections; each one also names the process forked for it
    NULL

ASSUME PreforkAssumption ==
    /\ Boss \notin Worker
    /\ NULL \notin Conn

Listener == Worker \cup {Boss}

VARIABLES
    toFork,    \* the workers the boss has not come to yet
    pc,        \* where each listener is
    sock,      \* client_sock of each listener
    fds,       \* the client sockets open in each listener
    child,     \* where the process for each connection is
    kept,      \* the client sockets open in it
    backlog,   \* connections the kernel has ready for accept()
    net        \* each connection as the client has it

parent   == <<toFork, pc, sock, fds>>
children == <<child, kept>>
kernel   == <<backlog, net>>
vars     == <<parent, children, kernel>>

TypeOK ==
    /\ toFork \subseteq Worker
    /\ pc \in [Listener -> {"none", "setup", "forking", "select", "accept", "named",
                            "forked", "ended"}]
    /\ sock \in [Listener -> Conn \cup {NULL}]
    /\ fds \in [Listener -> SUBSET Conn]
    /\ child \in [Conn -> {"none", "serving", "shut", "returned"}]
    /\ kept \in [Conn -> SUBSET Conn]
    /\ backlog \in Seq(Conn)
    /\ net \in [Conn -> {"new", "open", "closed", "reset"}]
    /\ \A l \in Listener : pc[l] \in {"named", "forked"} => sock[l] # NULL

Init ==
    /\ toFork = Worker
    /\ pc = [l \in Listener |-> IF l = Boss THEN "setup" ELSE "none"]
    /\ sock = [l \in Listener |-> NULL]
    /\ fds = [l \in Listener |-> {}]
    /\ child = [c \in Conn |-> "none"]
    /\ kept = [c \in Conn |-> {}]
    /\ backlog = <<>>
    /\ net = [c \in Conn |-> "new"]

Goto(l, p) == pc' = [pc EXCEPT ![l] = p]

Queued(c) == \E i \in 1..Len(backlog) : backlog[i] = c

\* is any process able to take on clients, or going to be
InService == \E l \in Listener : pc[l] \notin {"none", "ended"}

-----------------------------------------------------------------------------
(* Clients and the kernel.                                                 *)

(* The kernel completes a connection as long as somebody listens.          *)
Connect(c) ==
    /\ net[c] = "new"
    /\ pc[Boss] # "setup" /\ InService
    /\ net' = [net EXCEPT ![c] = "open"]
    /\ backlog' = Append(backlog, c)
    /\ UNCHANGED <<parent, children>>

\* the backlog without its i-th connection
Without(i) == [j \in 1..(Len(backlog) - 1) |-> backlog[IF j < i THEN j ELSE j + 1]]

(* A client that gives up may or may not vanish from the backlog.          *)
Reset(c) ==
    /\ net[c] = "open"
    /\ net' = [net EXCEPT ![c] = "reset"]
    /\ \/ UNCHANGED backlog
       \/ \E i \in 1..Len(backlog) : backlog[i] = c /\ backlog' = Without(i)
    /\ UNCHANGED <<parent, children>>

-----------------------------------------------------------------------------
(* Starting.                                                               *)

(* net_setup_master_socket: the socket listens before anybody is forked.   *)
Setup ==
    /\ pc[Boss] = "setup"
    /\ \E p \in {"forking", "ended"} : Goto(Boss, p)
    /\ UNCHANGED <<toFork, sock, fds, children, kernel>>

(* fork() of a worker; one that fails is done without.                     *)
ForkWorker(w) ==
    /\ pc[Boss] = "forking"
    /\ w \in toFork
    /\ toFork' = toFork \ {w}
    /\ \E p \in {"select", "none"} : Goto(w, p)
    /\ UNCHANGED <<sock, fds, children, kernel>>

StartListening ==
    /\ pc[Boss] = "forking"
    /\ toFork = {}
    /\ Goto(Boss, "select")
    /\ UNCHANGED <<toFork, sock, fds, children, kernel>>

-----------------------------------------------------------------------------
(* The loop of each listener.                                              *)

(* Mutant of SelectWakes: a result is looked at only if it is an error.    *)
SelectWakesOnError(l) ==
    /\ pc[l] = "select"
    /\ backlog = <<>>
    /\ Goto(l, "accept")
    /\ UNCHANGED <<toFork, sock, fds, children, kernel>>

(* There is a client, or a signal came and the set of descriptors is as it *)
(* was (the test of line 281 lets EINTR through).  After a time-out it     *)
(* waits again, which changes nothing.                                     *)
SelectWakes(l) ==
    /\ pc[l] = "select"
    /\ Goto(l, "accept")
    /\ UNCHANGED <<toFork, sock, fds, children, kernel>>

SelectFails(l) ==
    /\ pc[l] = "select"
    /\ Goto(l, "ended")
    /\ UNCHANGED <<toFork, sock, fds, children, kernel>>

\* Mutant of AcceptFails: the result is not tested.
AcceptUntested(l) ==
    /\ pc[l] = "accept"
    /\ backlog = <<>>
    /\ sock' = [sock EXCEPT ![l] = NULL]
    /\ Goto(l, "named")
    /\ UNCHANGED <<toFork, fds, children, kernel>>

(* The master socket does not block: accept() fails if another listener    *)
(* was first, and may fail for a client that has gone.                     *)
AcceptFails(l) ==
    /\ pc[l] = "accept"
    /\ \/ backlog = <<>> /\ UNCHANGED backlog
       \/ backlog # <<>> /\ net[Head(backlog)] = "reset" /\ backlog' = Tail(backlog)
    /\ sock' = [sock EXCEPT ![l] = NULL]
    /\ Goto(l, "select")
    /\ UNCHANGED <<toFork, fds, children, net>>

Accept(l) ==
    /\ pc[l] = "accept"
    /\ backlog # <<>>
    /\ backlog' = Tail(backlog)
    /\ sock' = [sock EXCEPT ![l] = Head(backlog)]
    /\ fds' = [fds EXCEPT ![l] = @ \cup {Head(backlog)}]
    /\ Goto(l, "named")
    /\ UNCHANGED <<toFork, children, net>>

\* the client sees the end of the stream when no process has its socket open any more
Released(c, tables, keeping) ==
    /\ \A l \in Listener : c \notin tables[l]
    /\ \A d \in Conn : c \notin keeping[d]

CloseIn(tables, keeping) ==
    net' = [c \in Conn |-> IF /\ net[c] = "open" /\ ~Released(c, fds, kept)
                              /\ Released(c, tables, keeping)
                           THEN "closed" ELSE net[c]]

(* fork() fails: the client is sent away.                                  *)
ForkFails(l) ==
    /\ pc[l] = "named"
    /\ fds' = [fds EXCEPT ![l] = @ \ {sock[l]}]
    /\ CloseIn(fds', kept)
    /\ Goto(l, "select")
    /\ UNCHANGED <<toFork, sock, children, backlog>>

(* Mutant of ForkClient: the parent closes its copy before there is another.*)
CloseThenFork(l) ==
    /\ pc[l] = "named"
    /\ fds' = [fds EXCEPT ![l] = @ \ {sock[l]}]
    /\ child' = [child EXCEPT ![sock[l]] = "serving"]
    /\ kept' = [kept EXCEPT ![sock[l]] = fds'[l]]
    /\ CloseIn(fds', kept')
    /\ Goto(l, "forked")
    /\ UNCHANGED <<toFork, sock, backlog>>

ForkClient(l) ==
    /\ pc[l] = "named"
    /\ child' = [child EXCEPT ![sock[l]] = "serving"]
    /\ kept' = [kept EXCEPT ![sock[l]] = fds[l]]
    /\ Goto(l, "forked")
    /\ UNCHANGED <<toFork, sock, fds, kernel>>

\* Mutant of ParentCloses: the parent keeps its copy open.
ParentKeeps(l) ==
    /\ pc[l] = "forked"
    /\ Goto(l, "select")
    /\ UNCHANGED <<toFork, sock, fds, children, kernel>>

ParentCloses(l) ==
    /\ pc[l] = "forked"
    /\ fds' = [fds EXCEPT ![l] = @ \ {sock[l]}]
    /\ CloseIn(fds', kept)
    /\ Goto(l, "select")
    /\ UNCHANGED <<toFork, sock, children, backlog>>

-----------------------------------------------------------------------------
(* The process of one client.                                              *)

(* The callback has returned: shutdown() ends the stream whoever else has  *)
(* the socket open.                                                        *)
ChildShutsDown(c) ==
    /\ child[c] = "serving"
    /\ child' = [child EXCEPT ![c] = "shut"]
    /\ net' = IF net[c] = "open" THEN [net EXCEPT ![c] = "closed"] ELSE net
    /\ UNCHANGED <<parent, kept, backlog>>

(* It closes the socket and returns from net_server() with the callback's  *)
(* result; what its caller does then is not in the repository.             *)
ChildReturns(c) ==
    /\ child[c] = "shut"
    /\ child' = [child EXCEPT ![c] = "returned"]
    /\ kept' = [kept EXCEPT ![c] = @ \ {c}]
    /\ CloseIn(fds, kept')
    /\ UNCHANGED <<parent, backlog>>

-----------------------------------------------------------------------------

Serve(l) ==
    AcceptFails(l) \/ Accept(l) \/ ForkFails(l) \/ ForkClient(l) \/ ParentCloses(l)

Next ==
    \/ Setup \/ StartListening
    \/ \E w \in Worker : ForkWorker(w)
    \/ \E l \in Listener : SelectWakes(l) \/ SelectFails(l) \/ Serve(l)
    \/ \E c \in Conn : Connect(c) \/ Reset(c) \/ ChildShutsDown(c) \/ ChildReturns(c)

Spec == Init /\ [][Next]_vars

(* Every process is scheduled, and select() returns while there is a       *)
(* client, but it need not ever be interrupted or fail.  Nothing makes a   *)
(* callback return, so that ChildShutsDown has no fairness.                *)
FairSpec ==
    /\ Spec
    /\ WF_vars(StartListening) /\ \A w \in Worker : WF_vars(ForkWorker(w))
    /\ \A l \in Listener : WF_vars((backlog # <<>> /\ SelectWakes(l)) \/ Serve(l))
    /\ \A c \in Conn : WF_vars(ChildReturns(c))

-----------------------------------------------------------------------------

\* the listeners that have a connection but no process for it yet
Holding(c) == {l \in Listener : pc[l] = "named" /\ sock[l] = c}

(* Although all listeners wake up for one client and race for it, a        *)
(* connection is in the backlog, or with one listener, or with its process,*)
(* and is nowhere twice; and the process that serves it has it open.       *)
OneProcessPerClient ==
    \A c \in Conn :
        /\ Queued(c) => Holding(c) = {} /\ child[c] = "none"
        /\ Holding(c) # {} => child[c] = "none" /\ \E l \in Listener : Holding(c) = {l}
        /\ child[c] \in {"serving", "shut"} => c \in kept[c]

(* A listener that waits has no client's socket open, and no process ever  *)
(* inherits a connection other than its own: one kept open anywhere would  *)
(* keep its client waiting for the end of the stream.                      *)
NoStrayDescriptor ==
    /\ \A l \in Listener : fds[l] = IF pc[l] \in {"named", "forked"} THEN {sock[l]} ELSE {}
    /\ \A c \in Conn : kept[c] \subseteq {c}

-----------------------------------------------------------------------------
(* Why they hold: the inductive invariant.                                 *)

Has(l, c) == pc[l] = "named" /\ sock[l] = c

(* Each connection has one place: it has not been made, or is in the       *)
(* backlog, or with one listener, or with a process that has it open.      *)
OnePlace ==
    \A c \in Conn :
        /\ net[c] = "new" => ~Queued(c)
        /\ net[c] = "new" \/ Queued(c) =>
              child[c] = "none" /\ \A l \in Listener : ~Has(l, c)
        /\ \A l \in Listener : Has(l, c) =>
              child[c] = "none" /\ \A k \in Listener : Has(k, c) => k = l
        /\ child[c] \in {"serving", "shut"} => c \in kept[c]

(* accept() hands out each connection once: none is twice in the backlog.  *)
NoTwin == \A i, j \in 1..Len(backlog) : backlog[i] = backlog[j] => i = j

(* A worker runs only once it has been forked.                             *)
NotForked == \A w \in toFork : pc[w] = "none"

ServerInv == OnePlace /\ NoTwin /\ NotForked /\ NoStrayDescriptor

-----------------------------------------------------------------------------

(* Under FairSpec a client that connected gets a process or is sent away,  *)
(* whichever of the listeners have ended, as long as one is left.          *)
ClientIsDealtWith ==
    \A c \in Conn : net[c] = "open" ~> (net[c] # "open" \/ child[c] # "none" \/ ~InService)
=============================================================================
