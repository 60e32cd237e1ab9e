-------------------------------- MODULE Dial ---------------------------------
(***************************************************************************)
(* The connecting side, src/src/network/net_client.c:                      *)
(* firstTCPSocketConnectingCorrectly, which walks the addresses of a host  *)
(* until one of them accepts, and net_create_client_socket, which tries    *)
(* the first address only.  Calls run in any number of threads; they share *)
(* the process's table of descriptors, so that what one call leaves open   *)
(* is missing to the next.                                                 *)
(***************************************************************************)
EXTENDS Integers

CONSTANTS
    Call,      \* the calls made, by any threads
    Fd,        \* descriptors the process may have open for them
    MaxAddrs,  \* the most addresses a name resolves to
    NULL

NoSocket == -1

ASSUME ConstantsAssumption ==
    /\ Fd \subseteq Nat /\ 1 \notin Fd     \* 1 is the standard output
    /\ MaxAddrs \in Nat \ {0}
    /\ NULL \notin Call

VARIABLES
    tab,                \* the kernel's table: the socket behind each descriptor
    pc, fn,             \* where a call is, and which of the two functions it is in
    connection_socket,
    addresses,          \* the length of its address list
    paddress,           \* its place in the list; past the end it is null
    list,               \* the memory of the list: "none", "held", "freed"
    res,                \* what the call returned
    passed,             \* history: addresses given up before a connection was under way
    mishaps             \* history: which system calls failed on the way

locals == <<connection_socket, addresses, paddress, list, res>>
vars   == <<tab, pc, fn, locals, passed, mishaps>>

-----------------------------------------------------------------------------

Sockets == [state : {"free", "new", "pending", "connected", "failed"},
            by : Call \cup {NULL}, to : 0..MaxAddrs]

NoConnection == [state |-> "free", by |-> NULL, to |-> 0]

InCall == {"resolve", "socket", "gettimeout", "settimeout", "keepalive", "keepclose",
           "nonblock", "connect", "refused", "select", "soerror", "freelist"}

(* Where a call has a socket to work on, and an address.                   *)
Working == InCall \ {"resolve", "socket", "freelist"}

TypeOK ==
    /\ tab \in [Fd -> Sockets]
    /\ pc \in [Call -> InCall \cup {"idle", "returned", "done", "crashed"}]
    /\ fn \in [Call -> {"first", "create"}]
    /\ connection_socket \in [Call -> Fd \cup {NoSocket}]
    /\ addresses \in [Call -> 0..MaxAddrs]
    /\ paddress \in [Call -> 1..MaxAddrs + 1]
    /\ list \in [Call -> {"none", "held", "freed"}]
    /\ res \in [Call -> Fd \cup {NoSocket, 1}]
    /\ passed \in [Call -> SUBSET (1..MaxAddrs)]
    /\ mishaps \in [Call -> SUBSET {"option", "keepalive", "nonblock", "gaveup"}]
    /\ \A c \in Call : pc[c] \in Working =>
          connection_socket[c] \in Fd /\ paddress[c] <= addresses[c]

Init ==
    /\ tab = [f \in Fd |-> NoConnection]
    /\ pc = [c \in Call |-> "idle"]
    /\ fn \in [Call -> {"first", "create"}]
    /\ connection_socket = [c \in Call |-> NoSocket]
    /\ addresses = [c \in Call |-> 0]
    /\ paddress = [c \in Call |-> 1]
    /\ list = [c \in Call |-> "none"]
    /\ res = [c \in Call |-> NoSocket]
    /\ passed = [c \in Call |-> {}]
    /\ mishaps = [c \in Call |-> {}]

(* The process is alive and call c is at p.                                *)
At(c, p) == pc[c] = p /\ \A d \in Call : pc[d] # "crashed"

Goto(c, p) == pc' = [pc EXCEPT ![c] = p]

Return(c, value) == Goto(c, "returned") /\ res' = [res EXCEPT ![c] = value]

Mishap(c, what) == mishaps' = [mishaps EXCEPT ![c] = @ \cup {what}]

(* The socket of call c changes its state in the kernel.                   *)
SocketIs(c, s) == tab' = [tab EXCEPT ![connection_socket[c]].state = s]

Close(f) == tab' = [tab EXCEPT ![f] = NoConnection]

-----------------------------------------------------------------------------
(* The caller and the kernel.                                              *)

Start(c) ==
    /\ At(c, "idle")
    /\ Goto(c, "resolve")
    /\ UNCHANGED <<tab, fn, locals, passed, mishaps>>

(* Whoever asked for the connection closes it.                             *)
HangUp(c) ==
    /\ At(c, "returned") /\ res[c] \in Fd
    /\ Close(res[c])
    /\ Goto(c, "done")
    /\ UNCHANGED <<fn, locals, passed, mishaps>>

(* A connection under way succeeds or fails.                               *)
Settle(f) ==
    /\ tab[f].state = "pending"
    /\ \E s \in {"connected", "failed"} : tab' = [tab EXCEPT ![f].state = s]
    /\ UNCHANGED <<pc, fn, locals, passed, mishaps>>

-----------------------------------------------------------------------------
(* The name.                                                               *)

Resolve(c) ==
    /\ At(c, "resolve")
    /\ \E n \in 1..MaxAddrs : addresses' = [addresses EXCEPT ![c] = n]
    /\ list' = [list EXCEPT ![c] = "held"]
    /\ Goto(c, "socket")
    /\ UNCHANGED <<tab, fn, connection_socket, paddress, res, passed, mishaps>>

(* The first function does not look at the result of getaddrinfo: it walks *)
(* from whatever its variable holds, garbage or null.                      *)
ResolveFails(c) ==
    /\ At(c, "resolve")
    /\ \/ fn[c] = "first" /\ pc' \in {[pc EXCEPT ![c] = p] : p \in {"socket", "crashed"}}
          /\ UNCHANGED res
       \/ fn[c] = "create" /\ Return(c, 1)
    /\ UNCHANGED <<tab, fn, connection_socket, addresses, paddress, list, passed, mishaps>>

-----------------------------------------------------------------------------
(* One address: socket() and the options.                                  *)

FreeFds == {f \in Fd : tab[f].state = "free"}

EndOfList(c) ==
    /\ At(c, "socket") /\ paddress[c] > addresses[c]
    /\ Goto(c, "freelist")
    /\ UNCHANGED <<tab, fn, locals, passed, mishaps>>

(* socket() takes the lowest free descriptor.                              *)
OpenSocket(c) ==
    /\ At(c, "socket") /\ paddress[c] <= addresses[c]
    /\ \E f \in FreeFds :
         /\ \A g \in FreeFds : f <= g
         /\ connection_socket' = [connection_socket EXCEPT ![c] = f]
         /\ tab' = [tab EXCEPT ![f] = [state |-> "new", by |-> c, to |-> paddress[c]]]
    /\ Goto(c, "gettimeout")
    /\ UNCHANGED <<fn, addresses, paddress, list, res, passed, mishaps>>

(* No descriptor left, or an address family the machine does not know.     *)
SocketFails(c) ==
    /\ At(c, "socket") /\ paddress[c] <= addresses[c]
    /\ connection_socket' = [connection_socket EXCEPT ![c] = NoSocket]
    /\ \/ /\ fn[c] = "first"
          /\ paddress' = [paddress EXCEPT ![c] = @ + 1]
          /\ passed' = [passed EXCEPT ![c] = @ \cup {paddress[c]}]
          /\ UNCHANGED <<pc, res>>
       \/ fn[c] = "create" /\ Return(c, 1) /\ UNCHANGED <<paddress, passed>>
    /\ UNCHANGED <<tab, fn, addresses, list, mishaps>>

(* The two calls for the time-out; a failure returns 1 at once, with the   *)
(* socket open and the list in memory.                                     *)
Timeout(c, here, there) ==
    /\ At(c, here)
    /\ \/ Goto(c, there) /\ UNCHANGED <<res, mishaps>>
       \/ Return(c, 1) /\ Mishap(c, "option")
    /\ UNCHANGED <<tab, fn, connection_socket, addresses, paddress, list, passed>>

GetTimeout(c) == Timeout(c, "gettimeout", "settimeout")

(* The time-out is set from memory of its own; where malloc has none, its   *)
(* null is followed.                                                        *)
NoMemory(c) ==
    /\ At(c, "settimeout")
    /\ Goto(c, "crashed")
    /\ UNCHANGED <<tab, fn, locals, passed, mishaps>>

SetTimeout(c) == Timeout(c, "settimeout", IF fn[c] = "first" THEN "keepalive" ELSE "connect")

KeepAlive(c) ==
    /\ At(c, "keepalive")
    /\ \/ Goto(c, "nonblock") /\ UNCHANGED mishaps
       \/ Goto(c, "keepclose") /\ Mishap(c, "keepalive")
    /\ UNCHANGED <<tab, fn, locals, passed>>

(* "close (connection_socket); connection_socket = -1; continue": the same *)
(* address once more.                                                      *)
KeepClose(c) ==
    /\ At(c, "keepclose")
    /\ Close(connection_socket[c])
    /\ connection_socket' = [connection_socket EXCEPT ![c] = NoSocket]
    /\ Goto(c, "socket")
    /\ UNCHANGED <<fn, addresses, paddress, list, res, passed, mishaps>>

(* "continue" without close: the same address with another socket.         *)
NonBlock(c) ==
    /\ At(c, "nonblock")
    /\ \/ Goto(c, "connect") /\ UNCHANGED mishaps
       \/ Goto(c, "socket") /\ Mishap(c, "nonblock")
    /\ UNCHANGED <<tab, fn, locals, passed>>

-----------------------------------------------------------------------------
(* connect().                                                              *)

Connected(c) ==
    /\ At(c, "connect")
    /\ SocketIs(c, "connected")
    /\ \/ fn[c] = "first" /\ Goto(c, "freelist") /\ UNCHANGED res
       \/ fn[c] = "create" /\ Return(c, connection_socket[c])
    /\ UNCHANGED <<fn, connection_socket, addresses, paddress, list, passed, mishaps>>

(* net_create_client_socket's connect() blocks; when it fails the socket   *)
(* stays open.                                                             *)
ConnectFails(c) ==
    /\ At(c, "connect") /\ fn[c] = "create"
    /\ SocketIs(c, "failed")
    /\ Return(c, 1) /\ Mishap(c, "gaveup")
    /\ UNCHANGED <<fn, connection_socket, addresses, paddress, list, passed>>

InProgress(c) ==
    /\ At(c, "connect") /\ fn[c] = "first"
    /\ SocketIs(c, "pending")
    /\ Goto(c, "select")
    /\ UNCHANGED <<fn, locals, passed, mishaps>>

Refusal(c) ==
    /\ At(c, "connect") /\ fn[c] = "first"
    /\ SocketIs(c, "failed")
    /\ Goto(c, "refused")
    /\ UNCHANGED <<fn, locals, passed, mishaps>>

(* Mutants of Refused: the variable keeps the closed descriptor; the socket *)
(* is not closed; the list does not advance.                                *)
RefusedKeepsFd(c) ==
    /\ At(c, "refused")
    /\ Close(connection_socket[c])
    /\ paddress' = [paddress EXCEPT ![c] = @ + 1]
    /\ passed' = [passed EXCEPT ![c] = @ \cup {paddress[c]}]
    /\ Goto(c, "socket")
    /\ UNCHANGED <<fn, connection_socket, addresses, list, res, mishaps>>

RefusedNotClosed(c) ==
    /\ At(c, "refused")
    /\ connection_socket' = [connection_socket EXCEPT ![c] = NoSocket]
    /\ paddress' = [paddress EXCEPT ![c] = @ + 1]
    /\ passed' = [passed EXCEPT ![c] = @ \cup {paddress[c]}]
    /\ Goto(c, "socket")
    /\ UNCHANGED <<tab, fn, addresses, list, res, mishaps>>

RefusedTriesAgain(c) ==
    /\ At(c, "refused")
    /\ Close(connection_socket[c])
    /\ connection_socket' = [connection_socket EXCEPT ![c] = NoSocket]
    /\ Goto(c, "socket")
    /\ UNCHANGED <<fn, addresses, paddress, list, res, passed, mishaps>>

(* A connect() that fails at once: close, and on to the next address.       *)
Refused(c) ==
    /\ At(c, "refused")
    /\ Close(connection_socket[c])
    /\ connection_socket' = [connection_socket EXCEPT ![c] = NoSocket]
    /\ paddress' = [paddress EXCEPT ![c] = @ + 1]
    /\ passed' = [passed EXCEPT ![c] = @ \cup {paddress[c]}]
    /\ Goto(c, "socket")
    /\ UNCHANGED <<fn, addresses, list, res, mishaps>>

(* Leaving a connection under way: the variable is -1, the socket open, and *)
(* the addresses behind this one are not looked at.                         *)
GiveUp(c) ==
    /\ connection_socket' = [connection_socket EXCEPT ![c] = NoSocket]
    /\ Goto(c, "freelist")
    /\ Mishap(c, "gaveup")
    /\ UNCHANGED <<tab, fn, addresses, paddress, list, res, passed>>

SelectReady(c) ==
    /\ At(c, "select")
    /\ tab[connection_socket[c]].state # "pending"
    /\ Goto(c, "soerror")
    /\ UNCHANGED <<tab, fn, locals, passed, mishaps>>

(* An error; thirty seconds without an answer; or a signal, which the code  *)
(* takes for the time-out.                                                  *)
SelectFails(c) == At(c, "select") /\ GiveUp(c)

(* SO_ERROR tells how the connection ended.                                 *)
SoErrorClear(c) ==
    /\ At(c, "soerror") /\ tab[connection_socket[c]].state = "connected"
    /\ Goto(c, "freelist")
    /\ UNCHANGED <<tab, fn, locals, passed, mishaps>>

SoErrorSet(c) == At(c, "soerror") /\ GiveUp(c)

(* bail_out.                                                                *)
FreeList(c) ==
    /\ At(c, "freelist")
    /\ list' = [list EXCEPT ![c] = IF @ = "held" THEN "freed" ELSE @]
    /\ Return(c, connection_socket[c])
    /\ UNCHANGED <<tab, fn, connection_socket, addresses, paddress, passed, mishaps>>

-----------------------------------------------------------------------------

Step(c) ==
    \/ Resolve(c) \/ ResolveFails(c) \/ EndOfList(c) \/ OpenSocket(c) \/ SocketFails(c)
    \/ GetTimeout(c) \/ SetTimeout(c) \/ NoMemory(c)
    \/ KeepAlive(c) \/ KeepClose(c) \/ NonBlock(c)
    \/ Connected(c) \/ ConnectFails(c) \/ InProgress(c) \/ Refusal(c) \/ Refused(c)
    \/ SelectReady(c) \/ SelectFails(c) \/ SoErrorClear(c) \/ SoErrorSet(c)
    \/ FreeList(c)

Next ==
    \/ \E c \in Call : Start(c) \/ HangUp(c) \/ Step(c)
    \/ \E f \in Fd : Settle(f)

Spec == Init /\ [][Next]_vars

(* A thread in a call runs, and its select() ends after thirty seconds.     *)
FairSpec == Spec /\ \A c \in Call : WF_vars(Step(c))

-----------------------------------------------------------------------------
(* Safety.                                                                  *)

(* The part of what the comment at lines 30-31 promises that the code does. *)
(* Of a connection under way that fails or takes too long, the function     *)
(* returns -1 with later addresses untried (GiveUp), and it returns 1 when  *)
(* the time-out cannot be set (Timeout), whatever the comment says.  But    *)
(* for these two, the descriptor returned is open and connected to the      *)
(* first address that did not fail at once, and -1 means that every address *)
(* did.                                                                     *)
FirstThatAnswers ==
    \A c \in Call :
        pc[c] = "returned" /\ fn[c] = "first" /\ mishaps[c] \cap {"option", "gaveup"} = {} =>
            IF res[c] = NoSocket
            THEN passed[c] = 1..addresses[c]
            ELSE /\ res[c] \in Fd
                 /\ tab[res[c]].state = "connected" /\ tab[res[c]].by = c
                 /\ passed[c] = 1..(tab[res[c]].to - 1)

(* The socket a call works on or its caller has.                            *)
Held(c) ==
    IF pc[c] = "returned" THEN res[c]
    ELSE IF pc[c] \in InCall \cup {"crashed"} THEN connection_socket[c] ELSE NoSocket

(* A socket is open only while its call works on it or its caller has it,   *)
(* but for calls that failed after socket() or left a connection under way, *)
(* which leave one behind, and calls that could not make a socket           *)
(* non-blocking, which leave one behind each time.                          *)
LeaksExplained ==
    \A c \in Call :
        /\ mishaps[c] \cap {"option", "nonblock", "gaveup"} = {} =>
              \A f \in Fd : tab[f].by = c => f = Held(c)
        /\ "nonblock" \notin mishaps[c] =>
              \A f, g \in Fd : tab[f].by = c /\ tab[g].by = c => f = g

-----------------------------------------------------------------------------
(* Why they hold.                                                           *)

TabInv == \A f \in Fd : tab[f].state = "free" <=> tab[f].by = NULL

(* The socket a call has is its own, made for the address it is at.  It has *)
(* one where the next is made only if that is to be for the same address.   *)
HeldInv(c) ==
    /\ pc[c] \in {"idle", "resolve"} =>
          connection_socket[c] = NoSocket /\ paddress[c] = 1 /\ mishaps[c] = {}
    /\ Held(c) \in Fd =>
          /\ tab[Held(c)].by = c /\ tab[Held(c)].to = paddress[c]
          /\ pc[c] \in {"freelist", "returned"} => tab[Held(c)].state = "connected"
          /\ pc[c] = "socket" => "nonblock" \in mishaps[c] /\ paddress[c] <= addresses[c]

(* The addresses given up are those in front of the one it is at.           *)
PassedInv(c) ==
    fn[c] = "first" =>
        /\ passed[c] = 1..(paddress[c] - 1)
        /\ paddress[c] <= addresses[c] + 1
        /\ pc[c] \in {"freelist", "returned"} /\ mishaps[c] \cap {"option", "gaveup"} = {} =>
              /\ Held(c) \in Fd \cup {NoSocket}
              /\ Held(c) = NoSocket => paddress[c] = addresses[c] + 1

(* No socket is made after the mishaps that leave one behind for good.      *)
LeakInv(c) ==
    /\ pc[c] \in InCall \ {"freelist"} => mishaps[c] \cap {"option", "gaveup"} = {}
    /\ mishaps[c] \cap {"option", "nonblock", "gaveup"} = {} =>
          \A f \in Fd : tab[f].by = c => f = Held(c)
    /\ "nonblock" \notin mishaps[c] =>
          \A f, g \in Fd : tab[f].by = c /\ tab[g].by = c => f = g

CallInv(c) == HeldInv(c) /\ PassedInv(c) /\ LeakInv(c)

DialInv == TabInv /\ \A c \in Call : CallInv(c)

-----------------------------------------------------------------------------
(* Liveness, under FairSpec.                                                *)

(* A call returns, however its addresses answer and however many sockets it *)
(* leaks, unless SO_KEEPALIVE is refused again and again or the process     *)
(* dies.                                                                    *)
CallsReturn ==
    \A c \in Call :
        \/ pc[c] = "resolve" ~> (pc[c] \notin InCall \/ \E d \in Call : pc[d] = "crashed")
        \/ []<>(pc[c] = "keepclose")

(* Why it holds: no step of a call but "keepclose" goes back without a new   *)
(* address or one more socket left behind.                                  *)
Point == [resolve |-> 0, socket |-> 1, gettimeout |-> 2, settimeout |-> 3, keepalive |-> 4,
          keepclose |-> 5, nonblock |-> 5, connect |-> 6, refused |-> 7, select |-> 7,
          soerror |-> 8, freelist |-> 9]

LeftBehind(c) ==
    {f \in Fd : tab[f].by = c /\ ~(pc[c] \in Working /\ f = connection_socket[c])}

Onward(c) ==
    \/ pc'[c] \notin InCall
    \/ paddress'[c] > paddress[c]
    \/ /\ paddress'[c] = paddress[c] /\ LeftBehind(c) \subseteq LeftBehind(c)'
       /\ LeftBehind(c)' # LeftBehind(c) \/ Point[pc'[c]] > Point[pc[c]]

NoWayBack(c) ==
    /\ pc'[c] = pc[c] \/ pc[c] = "keepclose"
    /\ paddress'[c] = paddress[c] /\ LeftBehind(c)' = LeftBehind(c)

(* Each step a call takes brings it nearer to its end, whatever the system  *)
(* calls answer: it tries a later address, has one socket less to use up,   *)
(* or is further on with this one.  Closing a socket that refused           *)
(* SO_KEEPALIVE keeps address and sockets, and so does what other calls do. *)
CallsAdvance ==
    [][\A c \in Call : pc[c] \in InCall =>
          IF Step(c) /\ pc[c] # "keepclose" THEN Onward(c) ELSE NoWayBack(c)]_vars
=============================================================================
