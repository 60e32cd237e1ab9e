------------------------ MODULE ThreadedServerProofs ------------------------
(***************************************************************************)
(* Proofs about the thread-per-client server: about NetThreader, for any   *)
(* number of clients, nodes and descriptors, whether or not threads can    *)
(* always be created, and about each of its handlers, ClientHandler, for   *)
(* buffers of any size and any callbacks.                                  *)
(***************************************************************************)
EXTENDS NetThreader, ClientHandler, TLAPS

-----------------------------------------------------------------------------
(* The acceptor: its types.                                                *)

(* The flags are only ever set to truth values.                            *)
LEMMA FlagsPreserved == FlagsOK /\ [Next]_vars => FlagsOK'
  BY DEF FlagsOK, Next, AcceptorStep, HandlerStep, Connect, PeerClose, Accept,
         AcceptAborted, MallocNode, Fill, SpawnOk, SpawnFail, RegisterFirst,
         StartWalk, WalkOn, RegisterLast, Deref, LoadFd, PeerGone, HangUp, Close,
         Clear, Death, MallocFails, LogFailedAccept, DieOfSigpipe, DieFreeing,
         vars, acceptor, history

(* Every variable keeps its type, and while the process lives every pointer *)
(* that is followed stays a node's address.                                 *)
LEMMA ValuesPreserved ==
    ValuesOK /\ PointersOK /\ [Next]_vars => ValuesOK' /\ PointersOK'
  <1> SUFFICES ASSUME ValuesOK, PointersOK, [Next]_vars PROVE ValuesOK' /\ PointersOK'
    OBVIOUS
  <1> USE ConstantsAssumption DEF ConstantsAssumption, NoFd, ValuesOK, PointersOK, Alive
  <1>1. ASSUME NEW c \in Conn, Connect(c) PROVE ValuesOK' /\ PointersOK'
    BY <1>1 DEF Connect, acceptor, heap, handlers, history
  <1>2. ASSUME NEW c \in Conn, PeerClose(c) PROVE ValuesOK' /\ PointersOK'
    BY <1>2 DEF PeerClose, acceptor, heap, handlers, history
  <1>3. ASSUME NEW c \in Conn, Accept(c) PROVE ValuesOK' /\ PointersOK'
    BY <1>3 DEF Accept, FreeFds, heap, handlers
  <1>4. ASSUME NEW c \in Conn, AcceptAborted(c) PROVE ValuesOK' /\ PointersOK'
    BY <1>4 DEF AcceptAborted, heap, handlers, history
  <1>5. ASSUME NEW n \in Node, NEW junk \in Fd \cup {NoFd}, MallocNode(n, junk)
        PROVE ValuesOK' /\ PointersOK'
    BY <1>5 DEF MallocNode, kernel, handlers
  <1>6. CASE Fill
    BY <1>6 DEF Fill, kernel, handlers, history
  <1>7. CASE SpawnOk
    BY <1>7 DEF SpawnOk, kernel, heap, history
  <1>8. CASE SpawnFail
    BY <1>8 DEF SpawnFail, CloseFd, handlers
  <1>9. CASE RegisterFirst
    BY <1>9 DEF RegisterFirst, kernel, heap, handlers, history
  <1>10. CASE StartWalk
    BY <1>10 DEF StartWalk, kernel, heap, handlers, history
  <1>11. CASE WalkOn
    BY <1>11 DEF WalkOn, kernel, heap, handlers, history
  <1>12. CASE RegisterLast
    BY <1>12 DEF RegisterLast, kernel, handlers, history
  <1>13. ASSUME NEW h \in Conn, Deref(h) \/ LoadFd(h) \/ Clear(h)
         PROVE ValuesOK' /\ PointersOK'
    <2>1. CASE Deref(h)
      BY <2>1 DEF Deref, kernel, acceptor, heap, history
    <2>2. CASE LoadFd(h)
      BY <2>2 DEF LoadFd, kernel, acceptor, heap, history
    <2>3. CASE Clear(h)
      BY <2>3 DEF Clear, kernel, acceptor, history
    <2> QED
      BY <1>13, <2>1, <2>2, <2>3
  <1>14. ASSUME NEW h \in Conn, PeerGone(h) \/ HangUp(h)
         PROVE ValuesOK' /\ PointersOK'
    BY SMTT(30), <1>14 DEF HangUp, PeerGone, kernel, acceptor, heap, history
  <1>15. ASSUME NEW h \in Conn, Close(h) PROVE ValuesOK' /\ PointersOK'
    BY <1>15 DEF Close, CloseFd, acceptor, heap, history
  <1>16. CASE Death
    BY <1>16 DEF Death, MallocFails, LogFailedAccept, DieOfSigpipe, DieFreeing,
                 kernel, heap, handlers, history
  <1>17. CASE UNCHANGED vars
    BY <1>17 DEF vars, kernel, acceptor, heap, handlers, history
  <1> QED
    BY <1>1, <1>2, <1>3, <1>4, <1>5, <1>6, <1>7, <1>8, <1>9, <1>10, <1>11, <1>12,
       <1>13, <1>14, <1>15, <1>16, <1>17 DEF Next, AcceptorStep, HandlerStep

(* The variables always hold values of their types; and as long as the      *)
(* process lives, each pointer the acceptor or a handler is about to follow *)
(* is the address of a node: what malloc's null can do, it does at once.    *)
THEOREM TypeCorrect == Spec => []TypeOK
<1>1. Init => ValuesOK
  BY ConstantsAssumption DEF ConstantsAssumption, Init, ValuesOK, NoFd
<1>2. Init => PointersOK /\ FlagsOK
  BY DEF Init, PointersOK, FlagsOK
<1> QED
  BY <1>1, <1>2, FlagsPreserved, ValuesPreserved, PTL DEF Spec, TypeOK

(* History only grows.                                                      *)
LEMMA OvertakenGrows == [Next]_vars /\ overtaken => overtaken'
  BY DEF Next, AcceptorStep, HandlerStep, Connect, PeerClose, Accept,
         AcceptAborted, MallocNode, Fill, SpawnOk, SpawnFail, RegisterFirst,
         StartWalk, WalkOn, RegisterLast, Deref, LoadFd, PeerGone, HangUp, Close,
         Clear, Death, MallocFails, LogFailedAccept, DieOfSigpipe, DieFreeing,
         vars, acceptor, history

(* Nobody is overtaken only if no thread was new when the node was made.    *)
LEMMA NoneIsNew ==
  ASSUME NEW n \in Node, NEW junk \in Fd \cup {NoFd}, MallocNode(n, junk), ~overtaken'
  PROVE  \A h \in Conn : hpc[h] # "spawned"
  BY DEF MallocNode

(* One step of the program keeps every descriptor and every node with its   *)
(* one user, unless the step overtakes a new thread.                        *)
LEMMA OneUserPreserved ==
  ASSUME ValuesOK, PointersOK, OneUserInv, [Next]_vars, ~overtaken'
  PROVE  OneUserInv'
<1> USE ConstantsAssumption DEF ConstantsAssumption, NoFd, ValuesOK, PointersOK,
        OneUserInv, RoundInv, NewNodeInv, HandlerInv, NodeInv, FreshInv, LeadsHome, Running,
        Alive
<1>1. ASSUME NEW c \in Conn, Connect(c) \/ PeerClose(c) PROVE OneUserInv'
  BY <1>1 DEF Connect, PeerClose, acceptor, heap, handlers, history
<1>3. ASSUME NEW c \in Conn, Accept(c) PROVE OneUserInv'
  BY <1>3 DEF Accept, FreeFds, heap, handlers
<1>4. ASSUME NEW c \in Conn, AcceptAborted(c) PROVE OneUserInv'
  BY <1>4 DEF AcceptAborted, heap, handlers, history
<1>5. ASSUME NEW n \in Node, NEW junk \in Fd \cup {NoFd}, MallocNode(n, junk)
      PROVE OneUserInv'
  <2>1. \A h \in Conn : hpc[h] # "spawned"
    BY <1>5, NoneIsNew
  <2>2. /\ apc = "malloc" /\ apc' = "fill"
        /\ n \notin allocated /\ allocated' = allocated \cup {n}
        /\ net_thread_pool_node' = n
        /\ client_fd' = [client_fd EXCEPT ![n] = junk]
        /\ UNCHANGED <<kernel, connection_fd, handlers, current>>
    BY <1>5 DEF MallocNode
  <2>3. RoundInv' /\ NewNodeInv' /\ FreshInv'
    BY <2>2 DEF kernel, handlers
  <2>4. HandlerInv'
    BY <2>1, <2>2 DEF kernel, handlers
  <2>5. NodeInv'
    BY <2>2 DEF kernel, handlers
  <2> QED
    BY <2>3, <2>4, <2>5
<1>6. CASE Fill
  BY <1>6 DEF Fill, kernel, handlers, history
<1>7. CASE SpawnOk
  BY <1>7 DEF SpawnOk, kernel, heap, history
<1>8. CASE SpawnFail
  <2>1. fdtab' = [fdtab EXCEPT ![connection_fd] = NULL]
    BY <1>8 DEF SpawnFail, CloseFd
  <2>2. \A c \in Conn : c # current => conn'[c] = conn[c]
    BY <1>8 DEF SpawnFail, CloseFd
  <2>3. conn'[current] = "closed"
    BY <1>8 DEF SpawnFail, CloseFd
  <2>4. \A h \in Conn : hpc[h] # "spawned"
    BY <1>8 DEF SpawnFail
  <2>5. \A h \in Conn : hpc[h] = "deref" => LeadsHome(hnode[h], h)'
    BY <1>8, <2>1 DEF SpawnFail, handlers
  <2>6. HandlerInv'
    BY <1>8, <2>1, <2>4, <2>5 DEF SpawnFail, handlers
  <2>7. NodeInv'
    BY <1>8, <2>4 DEF SpawnFail, handlers
  <2> QED
    BY <1>8, <2>2, <2>3, <2>6, <2>7 DEF SpawnFail, handlers
<1>9. CASE RegisterFirst \/ StartWalk \/ WalkOn \/ RegisterLast
  BY <1>9 DEF RegisterFirst, StartWalk, WalkOn, RegisterLast, kernel, heap, handlers, history
<1>13. ASSUME NEW h \in Conn, Deref(h) PROVE OneUserInv'
  BY <1>13 DEF Deref, kernel, acceptor, heap, history
<1>14. ASSUME NEW h \in Conn, LoadFd(h) PROVE OneUserInv'
  BY <1>14 DEF LoadFd, kernel, acceptor, heap, history
<1>15. ASSUME NEW h \in Conn, PeerGone(h) \/ HangUp(h) PROVE OneUserInv'
  BY <1>15 DEF HangUp, PeerGone, kernel, acceptor, heap, history
<1>16. ASSUME NEW h \in Conn, Close(h) PROVE OneUserInv'
  <2>1. /\ fdtab' = [fdtab EXCEPT ![hsock[h]] = NULL]
        /\ conn' = [conn EXCEPT ![h] = "closed"]
    BY <1>16 DEF Close, CloseFd
  <2>2. RoundInv' /\ NewNodeInv' /\ FreshInv'
    BY <1>16, <2>1 DEF Close, acceptor, heap, history
  <2>3. HandlerInv'
    BY <1>16, <2>1 DEF Close, acceptor, heap, history
  <2>4. NodeInv'
    BY <1>16 DEF Close, acceptor, heap, history
  <2> QED
    BY <2>2, <2>3, <2>4
<1>17. ASSUME NEW h \in Conn, Clear(h) PROVE OneUserInv'
  BY <1>17 DEF Clear, kernel, acceptor, heap, history
<1>18. CASE UNCHANGED vars
  BY <1>18 DEF vars, kernel, acceptor, heap, handlers, history
<1>19. CASE MallocFails \/ LogFailedAccept
  <2>1. CASE MallocFails
    <3>1. \A h \in Conn : hpc[h] # "spawned"
      BY <2>1 DEF MallocFails
    <3> QED
      BY <2>1, <3>1 DEF MallocFails, kernel, heap, handlers
  <2>2. CASE LogFailedAccept
    BY <2>2 DEF LogFailedAccept, kernel, heap, handlers, history
  <2> QED
    BY <1>19, <2>1, <2>2
<1>20. ASSUME NEW h \in Conn, DieOfSigpipe(h) \/ DieFreeing(h) PROVE OneUserInv'
  BY <1>20 DEF DieOfSigpipe, DieFreeing, kernel, heap, handlers, history
<1> QED
  BY <1>1, <1>3, <1>4, <1>5, <1>6, <1>7, <1>8, <1>9, <1>13, <1>14, <1>15, <1>16, <1>17, <1>18,
     <1>19, <1>20
     DEF Next, AcceptorStep, HandlerStep, Death

(* The hand-over invariant of NetThreader is invariant: it is inductive     *)
(* together with the types.                                                 *)
THEOREM Handoff == Spec => []HandoffInv
<1>1. Init => HandoffInv
  BY DEF Init, HandoffInv, OneUserInv, RoundInv, NewNodeInv, HandlerInv, NodeInv,
         FreshInv, Running
<1>2. TypeOK /\ HandoffInv /\ [Next]_vars => HandoffInv'
  <2> SUFFICES ASSUME TypeOK, HandoffInv, [Next]_vars, ~overtaken'
               PROVE  OneUserInv'
    BY DEF HandoffInv
  <2>1. OneUserInv
    BY OvertakenGrows DEF HandoffInv
  <2> QED
    BY <2>1, OneUserPreserved DEF TypeOK
<1> QED
  BY <1>1, <1>2, TypeCorrect, PTL DEF Spec

(* Each handler reads, writes and closes the descriptor of its own client   *)
(* and of no other, as long as no new thread was overtaken.                 *)
THEOREM OwnDescriptorHolds == Spec => []OwnDescriptor
<1>1. HandoffInv => OwnDescriptor
  BY DEF HandoffInv, OneUserInv, HandlerInv, OwnDescriptor
<1> QED
  BY <1>1, Handoff, PTL

-----------------------------------------------------------------------------
(* Orphans.                                                                 *)

(* Somebody is going to close every open connection.                        *)
Minded(c) ==
    \/ apc \in {"malloc", "fill", "spawn"} /\ current = c
    \/ hpc[c] \in {"spawned", "deref", "serving", "closing"}
    \/ apc = "crashed"

LEMMA MindedPreserved ==
  ASSUME ValuesOK, PointersOK, OneUserInv, [Next]_vars,
         \A c \in Conn : conn[c] = "open" => Minded(c)
  PROVE  \A c \in Conn : conn'[c] = "open" => Minded(c)'
<1> USE ConstantsAssumption DEF ConstantsAssumption, NoFd, ValuesOK, Minded
<1> DEFINE Goal == \A c \in Conn : conn'[c] = "open" => Minded(c)'
<1>1. ASSUME NEW c \in Conn, Connect(c) \/ PeerClose(c) PROVE Goal
  BY <1>1 DEF Connect, PeerClose, acceptor, handlers, history
<1>2. ASSUME NEW c \in Conn, Accept(c) \/ AcceptAborted(c) PROVE Goal
  BY <1>2 DEF Accept, AcceptAborted, handlers, history
<1>3. CASE \/ \E n \in Node, junk \in Fd \cup {NoFd} : MallocNode(n, junk)
           \/ Fill \/ SpawnOk
  BY <1>3 DEF MallocNode, Fill, SpawnOk, kernel, handlers, history
<1>4. CASE SpawnFail
  <2>1. conn'[current] = "closed" /\ \A c \in Conn : c # current => conn'[c] = conn[c]
    BY <1>4 DEF SpawnFail, CloseFd, OneUserInv, RoundInv, NewNodeInv
  <2> QED
    BY <1>4, <2>1 DEF SpawnFail, handlers
<1>5. CASE RegisterFirst \/ StartWalk \/ WalkOn \/ RegisterLast
  BY <1>5 DEF RegisterFirst, StartWalk, WalkOn, RegisterLast, kernel, handlers, history
<1>6. ASSUME NEW h \in Conn, Deref(h) \/ LoadFd(h) \/ PeerGone(h) \/ HangUp(h) \/ Clear(h)
      PROVE Goal
  BY <1>6 DEF Deref, LoadFd, PeerGone, HangUp, Clear, kernel, acceptor, history
<1>7. ASSUME NEW h \in Conn, Close(h) PROVE Goal
  <2>1. conn' = [conn EXCEPT ![h] = "closed"]
    BY <1>7 DEF Close, CloseFd, OneUserInv, HandlerInv
  <2> QED
    BY <1>7, <2>1 DEF Close, acceptor, history
<1>8. CASE Death
  BY <1>8 DEF Death, MallocFails, LogFailedAccept, DieOfSigpipe, DieFreeing
<1>9. CASE UNCHANGED vars
  BY <1>9 DEF vars, kernel, acceptor, handlers, history
<1> QED
  BY <1>1, <1>2, <1>3, <1>4, <1>5, <1>6, <1>7, <1>8, <1>9 DEF Next, AcceptorStep, HandlerStep

(* No open connection is ever left without a thread that will close it, as  *)
(* long as no new thread was overtaken.                                     *)
THEOREM NoOrphanHolds == Spec => []NoOrphan
<1>1. Init => NoOrphan
  BY DEF Init, NoOrphan
<1>2. TypeOK /\ HandoffInv /\ NoOrphan /\ [Next]_vars => NoOrphan'
  <2> SUFFICES ASSUME TypeOK, HandoffInv, NoOrphan, [Next]_vars, ~overtaken'
               PROVE  \A c \in Conn : conn'[c] = "open" => Minded(c)'
    BY DEF NoOrphan, Minded
  <2>1. ~overtaken
    BY OvertakenGrows
  <2>2. OneUserInv /\ \A c \in Conn : conn[c] = "open" => Minded(c)
    BY <2>1 DEF HandoffInv, NoOrphan, Minded
  <2> QED
    BY <2>2, MindedPreserved DEF TypeOK
<1> QED
  BY <1>1, <1>2, TypeCorrect, Handoff, PTL DEF Spec

-----------------------------------------------------------------------------
(* The pool.                                                                *)

(* A failed pthread_create is never forgotten.                              *)
LEMMA SpawnFailedGrows ==
    [Next]_vars => (spawnFailed => spawnFailed') /\ (SpawnFail => spawnFailed')
  BY DEF Next, AcceptorStep, HandlerStep, Connect, PeerClose, Accept,
         AcceptAborted, MallocNode, Fill, SpawnOk, SpawnFail, RegisterFirst,
         StartWalk, WalkOn, RegisterLast, Deref, LoadFd, PeerGone, HangUp, Close,
         Clear, Death, MallocFails, LogFailedAccept, DieOfSigpipe, DieFreeing,
         vars, acceptor, history

(* A step that is not a failed pthread_create keeps the pool a list.        *)
LEMMA PoolPreserved ==
  ASSUME ValuesOK, PointersOK, PoolOK, WalkOK, [Next]_vars, ~SpawnFail
  PROVE  PoolOK' /\ WalkOK'
<1> USE ConstantsAssumption DEF ConstantsAssumption, NoFd, ValuesOK, PointersOK,
        PoolOK, WalkOK, PoolIs, Alive
<1>1. ASSUME NEW c \in Conn, Connect(c) \/ PeerClose(c) \/ Accept(c) \/ AcceptAborted(c)
      PROVE PoolOK' /\ WalkOK'
  BY <1>1 DEF Connect, PeerClose, Accept, AcceptAborted, acceptor, heap, handlers, history
<1>2. ASSUME NEW n \in Node, NEW junk \in Fd \cup {NoFd}, MallocNode(n, junk)
      PROVE PoolOK' /\ WalkOK'
  BY <1>2 DEF MallocNode
<1>3. CASE Fill
  BY <1>3 DEF Fill, history
<1>4. CASE SpawnOk
  BY <1>4 DEF SpawnOk, heap, history
<1>5. CASE RegisterFirst
  <2>1. registered = <<>>
    <3>1. registered # <<>> => 1 \in 1..Len(registered) /\ registered[1] \in Node
      OBVIOUS
    <3> QED
      BY <1>5, <3>1 DEF RegisterFirst
  <2>2. /\ Len(registered') = 1 /\ registered' # <<>>
        /\ registered'[1] = net_thread_pool_node
    BY <1>5, <2>1 DEF RegisterFirst
  <2> QED
    BY <1>5, <2>2 DEF RegisterFirst, heap
<1>6. CASE StartWalk
  BY <1>6 DEF StartWalk, heap, history
<1>7. CASE WalkOn
  BY <1>7 DEF WalkOn, heap, history
<1>8. CASE RegisterLast
  <2> DEFINE k == Len(registered)
  <2>1. k \in Nat /\ k > 0 /\ net_thread_looper = registered[k]
    BY <1>8 DEF RegisterLast
  <2>2. /\ Len(registered') = k + 1
        /\ registered'[k + 1] = net_thread_pool_node
        /\ \A i \in 1..k : registered'[i] = registered[i]
    BY <1>8, <2>1 DEF RegisterLast
  <2>3. /\ next'[registered[k]] = net_thread_pool_node
        /\ next'[net_thread_pool_node] = NULL
        /\ \A i \in 1..k : i # k => next'[registered[i]] = next[registered[i]]
    BY <1>8, <2>1 DEF RegisterLast
  <2>4. PoolIs(registered)'
    BY <1>8, <2>1, <2>2, <2>3 DEF RegisterLast
  <2> QED
    BY <1>8, <2>1, <2>2, <2>4 DEF RegisterLast
<1>9. ASSUME NEW h \in Conn, HandlerStep(h) \/ HangUp(h) PROVE PoolOK' /\ WalkOK'
  BY <1>9 DEF HandlerStep, Deref, LoadFd, PeerGone, HangUp, Close, Clear,
              acceptor, heap, history
<1>10. CASE Death
  BY <1>10 DEF Death, MallocFails, LogFailedAccept, DieOfSigpipe, DieFreeing,
               heap, history
<1>11. CASE UNCHANGED vars
  BY <1>11 DEF vars, acceptor, heap, history
<1> QED
  BY <1>1, <1>2, <1>3, <1>4, <1>5, <1>6, <1>7, <1>8, <1>9, <1>10, <1>11
     DEF Next, AcceptorStep

(* While no pthread_create has failed, the pool is a null-terminated list   *)
(* of distinct live nodes, one for each registration.                       *)
THEOREM PoolIntegrityHolds == Spec => []PoolIntegrity
<1>1. Init => PoolIntegrity /\ WalkInv
  BY DEF Init, PoolIntegrity, WalkInv, PoolOK, WalkOK, PoolIs
<1>2. TypeOK /\ PoolIntegrity /\ WalkInv /\ [Next]_vars => PoolIntegrity' /\ WalkInv'
  <2> SUFFICES ASSUME TypeOK, PoolIntegrity, WalkInv, [Next]_vars, ~spawnFailed'
               PROVE  PoolOK' /\ WalkOK'
    BY DEF PoolIntegrity, WalkInv
  <2>1. ~spawnFailed /\ ~SpawnFail
    BY SpawnFailedGrows
  <2>2. PoolOK /\ WalkOK
    BY <2>1 DEF PoolIntegrity, WalkInv
  <2> QED
    BY <2>1, <2>2, PoolPreserved DEF TypeOK
<1> QED
  BY <1>1, <1>2, TypeCorrect, PTL DEF Spec

-----------------------------------------------------------------------------
(* One handler: its types.                                                 *)

(* What is left of at most most bytes when some of them are taken.          *)
LEMMA LeftOver ==
  ASSUME NEW size \in Nat, NEW most \in Nat,
         NEW taken \in 1..size, NEW total \in 0..most, taken <= total
  PROVE  total - taken \in 0..most
  OBVIOUS

(* What read() can leave in num_bytes and behind the client.               *)
LEMMA ReadResult ==
  ASSUME HandlerTypeOK, Read
  PROVE  /\ num_bytes' \in 0..ReadSize \cup {SizeMax}
         /\ unread' \in 0..MaxUnread
         /\ peer' \in {"open", "closed", "reset", "broken"}
<1> USE SizesAssumption DEF SizesAssumption, HandlerTypeOK
<1>1. CASE ReadBytes
  <2>1. num_bytes' \in 1..ReadSize /\ peer' = peer
    BY <1>1 DEF ReadBytes
  <2>2. CASE peer = "open"
    BY <1>1, <2>1, <2>2 DEF ReadBytes
  <2>3. CASE peer # "open"
    <3>1. num_bytes' <= unread /\ unread' = unread - num_bytes'
      BY <1>1, <2>3 DEF ReadBytes
    <3>2. unread \in 0..MaxUnread
      OBVIOUS
    <3>3. unread' \in 0..MaxUnread
      <4>1. unread - num_bytes' \in 0..MaxUnread
        BY <2>1, <3>1, <3>2, LeftOver
      <4> QED
        BY <3>1, <4>1
    <3> QED
      BY <2>1, <3>3
  <2> QED
    BY <2>2, <2>3
<1>2. CASE ReadEnd
  BY <1>2 DEF ReadEnd
<1> QED
  BY <1>1, <1>2 DEF Read

LEMMA HandlerTypePreserved ==
  HandlerTypeOK /\ [HandlerNext]_handlerVars => HandlerTypeOK'
<1> SUFFICES ASSUME HandlerTypeOK, [HandlerNext]_handlerVars PROVE HandlerTypeOK'
  OBVIOUS
<1> USE SizesAssumption DEF SizesAssumption, HandlerTypeOK, Hooks, memory, clientVars,
        readVars, writeVars
<1>1. CASE PeerEnds \/ WriteBlocks \/ WriteInterrupted
  BY ZenonT(60), <1>1 DEF PeerEnds, WriteBlocks, WriteInterrupted
<1>2. CASE AllocWrite \/ AllocRead \/ Initiate
  BY ZenonT(60), <1>2 DEF AllocWrite, AllocRead, Initiate
<1>3. CASE SelectReady \/ SelectIdle \/ SelectFails
  BY <1>3 DEF SelectReady, SelectIdle, SelectFails
<1>4. CASE Read
  <2>1. /\ bytes_commited' = 0
        /\ pc' \in {"disconnect", "parse", "report"}
        /\ UNCHANGED <<hooks, stalled, socket, memory, read_offset_commited, writeVars>>
    BY <1>4 DEF Read
  <2> QED
    BY <1>4, <2>1, ReadResult
<1>5. CASE Report
  BY <1>5 DEF Report
<1>6. CASE Parse
  BY <1>6 DEF Parse, Answer
<1>7. CASE Reparse
  BY <1>7 DEF Reparse
<1>8. CASE Idle
  <2>1. CASE "idle" \in hooks
    BY <1>8, <2>1 DEF Idle, Answer
  <2>2. CASE "idle" \notin hooks
    BY <1>8, <2>2 DEF Idle
  <2> QED
    BY <2>1, <2>2
<1>9. ASSUME NEW count \in 1..WriteSize, WriteSome(count) \/ PeerReads(count)
      PROVE  HandlerTypeOK'
  <2>1. Take(count) /\ write_commited < write_num_bytes
    BY <1>9 DEF WriteSome, PeerReads, Take
  <2>2. sent' \in Seq(1..WriteSize)
    BY <2>1 DEF Take
  <2>3. write_commited' \in 0..(2 * WriteSize - 1) /\ short' \in {"no", "yes"}
    BY <2>1 DEF Take
  <2>4. peer' \in {"open", "closed", "reset", "broken"} /\ stalled' \in BOOLEAN
    BY <1>9 DEF WriteSome, PeerReads
  <2> QED
    BY <2>1, <2>2, <2>3, <2>4 DEF Take
<1>10. CASE WriteError
  BY <1>10 DEF WriteError
<1>11. CASE WriteDone
  BY <1>11 DEF WriteDone
<1>12. CASE Disconnect \/ Free \/ Liberate
  BY <1>12 DEF Disconnect, Free, Liberate
<1>13. CASE UNCHANGED handlerVars
  BY <1>13 DEF handlerVars
<1> QED
  BY <1>1, <1>2, <1>3, <1>4, <1>5, <1>6, <1>7, <1>8, <1>9, <1>10, <1>11, <1>12, <1>13
     DEF HandlerNext, Environment, Step

(* Every variable has its type in every execution: in particular the byte  *)
(* counts stay within what a size_t holds and the count of a write loop    *)
(* below twice the size of the buffer.                                     *)
THEOREM HandlerTypeCorrect == HandlerSpec => []HandlerTypeOK
<1>1. HandlerInit => HandlerTypeOK
  <2> SUFFICES ASSUME HandlerInit PROVE HandlerTypeOK
    OBVIOUS
  <2> USE SizesAssumption DEF SizesAssumption
  <2>1. hooks \subseteq Hooks /\ stalled \in BOOLEAN
    BY DEF HandlerInit, Hooks
  <2>2. unread \in 0..MaxUnread /\ sent \in Seq(1..WriteSize)
    BY DEF HandlerInit
  <2> QED
    BY <2>1, <2>2 DEF HandlerInit, HandlerTypeOK
<1> QED
  BY <1>1, HandlerTypePreserved, PTL DEF HandlerSpec

-----------------------------------------------------------------------------
(* The teardown.                                                           *)

LEMMA OwnedPreserved ==
  HandlerTypeOK /\ OwnedInv /\ [HandlerNext]_handlerVars => OwnedInv'
<1> SUFFICES ASSUME HandlerTypeOK, OwnedInv, [HandlerNext]_handlerVars PROVE OwnedInv'
  OBVIOUS
<1> USE DEF OwnedInv, Serving, TornDown, memory
<1>1. CASE PeerEnds \/ WriteBlocks \/ WriteInterrupted \/ AllocWrite \/ AllocRead \/ Initiate
  BY <1>1 DEF PeerEnds, WriteBlocks, WriteInterrupted, AllocWrite, AllocRead, Initiate
<1>2. CASE SelectReady \/ SelectIdle \/ SelectFails \/ Report \/ Reparse
  BY <1>2 DEF SelectReady, SelectIdle, SelectFails, Report, Reparse
<1>3. CASE Read
  BY <1>3 DEF Read
<1>4. CASE Parse \/ Idle
  BY <1>4 DEF Parse, Idle, Answer
<1>5. ASSUME NEW count \in 1..WriteSize, WriteSome(count) \/ PeerReads(count)
      PROVE  OwnedInv'
  BY <1>5 DEF WriteSome, PeerReads, Take
<1>6. CASE WriteError \/ WriteDone
  BY <1>6 DEF WriteError, WriteDone
<1>7. CASE Disconnect
  BY <1>7 DEF Disconnect
<1>8. CASE Free
  BY <1>8 DEF Free
<1>9. CASE Liberate
  BY <1>9 DEF Liberate
<1>10. CASE UNCHANGED handlerVars
  BY <1>10 DEF handlerVars
<1> QED
  BY <1>1, <1>2, <1>3, <1>4, <1>5, <1>6, <1>7, <1>8, <1>9, <1>10 DEF HandlerNext, Environment, Step

(* In every execution the handler owns its buffers as OwnedInv says.       *)
THEOREM HandlerOwned == HandlerSpec => []OwnedInv
<1>1. HandlerInit => OwnedInv
  BY DEF HandlerInit, OwnedInv, Serving, TornDown
<1> QED
  BY <1>1, HandlerTypeCorrect, OwnedPreserved, PTL DEF HandlerSpec

(* A thread that ends by itself has closed its socket and given back its   *)
(* buffers and its state.                                                  *)
THEOREM NothingLeaksHolds == HandlerSpec => []NothingLeaks
<1>1. OwnedInv => NothingLeaks
  BY DEF OwnedInv, NothingLeaks, Serving, TornDown
<1> QED
  BY <1>1, HandlerOwned, PTL

(* The teardown follows a null pointer only after a failed allocation.     *)
LEMMA CrashPreserved ==
  HandlerTypeOK /\ OwnedInv /\ CrashNeedsFailedAlloc /\ [HandlerNext]_handlerVars
    => CrashNeedsFailedAlloc'
<1> SUFFICES ASSUME HandlerTypeOK, OwnedInv, CrashNeedsFailedAlloc, [HandlerNext]_handlerVars
             PROVE CrashNeedsFailedAlloc'
  OBVIOUS
<1> USE DEF CrashNeedsFailedAlloc, memory
<1>1. CASE PeerEnds \/ WriteBlocks \/ WriteInterrupted \/ AllocWrite \/ AllocRead \/ Initiate
  BY <1>1 DEF PeerEnds, WriteBlocks, WriteInterrupted, AllocWrite, AllocRead, Initiate
<1>2. CASE SelectReady \/ SelectIdle \/ SelectFails \/ Report \/ Reparse
  BY <1>2 DEF SelectReady, SelectIdle, SelectFails, Report, Reparse
<1>3. CASE Read \/ Parse \/ Idle
  BY <1>3 DEF Read, Parse, Idle, Answer
<1>4. ASSUME NEW count \in 1..WriteSize, WriteSome(count) \/ PeerReads(count)
      PROVE  CrashNeedsFailedAlloc'
  BY <1>4 DEF WriteSome, PeerReads, Take
<1>5. CASE WriteError \/ WriteDone \/ Disconnect \/ Liberate
  BY <1>5 DEF WriteError, WriteDone, Disconnect, Liberate
<1>6. CASE Free
  BY <1>6 DEF Free, OwnedInv, TornDown, HandlerTypeOK
<1>7. CASE UNCHANGED handlerVars
  BY <1>7 DEF handlerVars
<1> QED
  BY <1>1, <1>2, <1>3, <1>4, <1>5, <1>6, <1>7 DEF HandlerNext, Environment, Step

(* free_buffer_state follows a null pointer only where an allocation       *)
(* failed: the buffers are freed once.                                     *)
THEOREM CrashNeedsFailedAllocHolds == HandlerSpec => []CrashNeedsFailedAlloc
<1>1. HandlerInit => CrashNeedsFailedAlloc
  BY DEF HandlerInit, CrashNeedsFailedAlloc
<1> QED
  BY <1>1, HandlerTypeCorrect, HandlerOwned, CrashPreserved, PTL DEF HandlerSpec

-----------------------------------------------------------------------------
(* The reading callback and the replies.                                   *)

(* After a read that gave bytes the callback is entered with some of them   *)
(* unhandled, on its first and on every further call for one buffer,        *)
(* whatever it does to the count.                                           *)
THEOREM CallbackHasInputHolds == HandlerSpec => []CallbackHasInput
<1>1. HandlerInit => CallbackHasInput
  BY DEF HandlerInit, CallbackHasInput
<1>2. HandlerTypeOK /\ CallbackHasInput /\ [HandlerNext]_handlerVars => CallbackHasInput'
  <2> SUFFICES ASSUME HandlerTypeOK, CallbackHasInput, [HandlerNext]_handlerVars
               PROVE  CallbackHasInput'
    OBVIOUS
  <2> USE DEF CallbackHasInput, readVars
  <2>1. CASE PeerEnds \/ WriteBlocks \/ WriteInterrupted \/ AllocWrite \/ AllocRead \/ Initiate
    BY <2>1 DEF PeerEnds, WriteBlocks, WriteInterrupted, AllocWrite, AllocRead, Initiate
  <2>2. CASE SelectReady \/ SelectIdle \/ SelectFails \/ Report
    BY <2>2 DEF SelectReady, SelectIdle, SelectFails, Report
  <2>3. CASE Read
    <3>1. num_bytes' \in Nat
      <4>1. num_bytes' \in 0..ReadSize \cup {SizeMax}
        BY <2>3, ReadResult
      <4> QED
        BY <4>1, SizesAssumption DEF SizesAssumption
    <3>2. bytes_commited' = 0 /\ (pc' = "parse" => num_bytes' # 0)
      BY <2>3 DEF Read
    <3> QED
      BY <3>1, <3>2
  <2>4. CASE Reparse
    BY <2>4 DEF Reparse
  <2>5. CASE Parse \/ Idle
    BY <2>5 DEF Parse, Idle, Answer
  <2>6. ASSUME NEW count \in 1..WriteSize, WriteSome(count) \/ PeerReads(count)
        PROVE  CallbackHasInput'
    BY <2>6 DEF WriteSome, PeerReads, Take
  <2>7. CASE WriteError \/ WriteDone \/ Disconnect \/ Free \/ Liberate
    BY <2>7 DEF WriteError, WriteDone, Disconnect, Free, Liberate
  <2>8. CASE UNCHANGED handlerVars
    BY <2>8 DEF handlerVars
  <2> QED
    BY <2>1, <2>2, <2>3, <2>4, <2>5, <2>6, <2>7, <2>8 DEF HandlerNext, Environment, Step
<1> QED
  BY <1>1, <1>2, HandlerTypeCorrect, PTL DEF HandlerSpec

LEMMA ReplyPreserved ==
  HandlerTypeOK /\ FreshCounterInv /\ ReplyInv /\ [HandlerNext]_handlerVars
    => FreshCounterInv' /\ ReplyInv'
<1> SUFFICES ASSUME HandlerTypeOK, FreshCounterInv, ReplyInv, [HandlerNext]_handlerVars
             PROVE FreshCounterInv' /\ ReplyInv'
  OBVIOUS
<1> USE DEF FreshCounterInv, ReplyInv, Serving, writeVars
<1>1. CASE PeerEnds \/ WriteBlocks \/ WriteInterrupted \/ AllocWrite \/ AllocRead \/ Initiate
  BY <1>1 DEF PeerEnds, WriteBlocks, WriteInterrupted, AllocWrite, AllocRead, Initiate
<1>2. CASE SelectReady \/ SelectIdle \/ SelectFails \/ Read \/ Report \/ Reparse
  BY <1>2 DEF SelectReady, SelectIdle, SelectFails, Read, Report, Reparse
<1>3. CASE Parse \/ Idle
  BY <1>3 DEF Parse, Idle, Answer
<1>4. ASSUME NEW count \in 1..WriteSize, WriteSome(count) \/ PeerReads(count)
      PROVE  FreshCounterInv' /\ ReplyInv'
  <2> SUFFICES ASSUME Take(count) PROVE FreshCounterInv' /\ ReplyInv'
    BY <1>4 DEF WriteSome, PeerReads
  <2>1. FreshCounterInv'
    BY DEF Take
  <2>2. ASSUME short' = "no" PROVE ReplyInv'
    <3>1. count = write_num_bytes /\ short = "no"
      BY <2>2, SizesAssumption DEF Take, HandlerTypeOK, SizesAssumption
    <3>2. write_commited = 0 /\ sent = <<>>
      BY <3>1, SizesAssumption DEF Take, HandlerTypeOK, SizesAssumption
    <3>3. write_commited' = write_num_bytes
      BY <3>1, <3>2 DEF Take, HandlerTypeOK
    <3>4. sent' = [i \in 1..write_num_bytes |-> i]
      BY <3>1, <3>2, SizesAssumption DEF Take, HandlerTypeOK, SizesAssumption
    <3> QED
      BY <3>3, <3>4 DEF Take
  <2> QED
    BY <2>1, <2>2
<1>5. CASE WriteError \/ WriteDone
  BY <1>5 DEF WriteError, WriteDone
<1>6. CASE Disconnect \/ Free \/ Liberate
  BY <1>6 DEF Disconnect, Free, Liberate
<1>7. CASE UNCHANGED handlerVars
  BY <1>7 DEF handlerVars
<1> QED
  BY <1>1, <1>2, <1>3, <1>4, <1>5, <1>6, <1>7 DEF HandlerNext, Environment, Step

(* With buffers of any size: when a write loop ends, the client has been   *)
(* sent the reply, each byte once and in order, if no write was short.     *)
THEOREM ReplySentOnceHolds == HandlerSpec => []ReplySentOnce
<1>1. HandlerInit => FreshCounterInv /\ ReplyInv
  BY DEF HandlerInit, FreshCounterInv, ReplyInv, Serving
<1>2. HandlerTypeOK /\ ReplyInv => ReplySentOnce
  <2> SUFFICES ASSUME HandlerTypeOK, ReplyInv, pc = "write", write_commited >= write_num_bytes,
                      short = "no"
               PROVE  sent = [i \in 1..write_num_bytes |-> i]
    BY DEF ReplySentOnce
  <2>1. CASE write_commited = 0 /\ sent = <<>>
    BY <2>1 DEF HandlerTypeOK
  <2> QED
    BY <2>1 DEF ReplyInv
<1> QED
  BY <1>1, <1>2, HandlerTypeCorrect, ReplyPreserved, PTL DEF HandlerSpec
=============================================================================
