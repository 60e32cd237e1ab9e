---------------------------- MODULE PreforkProofs ----------------------------
(***************************************************************************)
(* Proofs about Prefork, for any number of workers and clients.            *)
(***************************************************************************)
EXTENDS Prefork, TLAPS

-----------------------------------------------------------------------------

(* Closing descriptors ends connections, and makes none new.               *)
LEMMA ClosingMakesNoneNew ==
  ASSUME TypeOK, NEW tables, NEW keeping, CloseIn(tables, keeping)
  PROVE  /\ net' \in [Conn -> {"new", "open", "closed", "reset"}]
         /\ \A c \in Conn : net'[c] = "new" <=> net[c] = "new"
  BY DEF CloseIn, TypeOK

(* The backlog without one of its connections has the others, once each.   *)
LEMMA WithoutOne ==
  ASSUME TypeOK, NEW i \in 1..Len(backlog), backlog' = Without(i)
  PROVE  /\ backlog' \in Seq(Conn)
         /\ \A c \in Conn : Queued(c)' => Queued(c)
         /\ NoTwin => NoTwin'
<1>1. Len(backlog) \in Nat /\ Len(backlog) > 0
  BY DEF TypeOK
<1>2. /\ backlog' \in Seq(Conn)
      /\ Len(backlog') = Len(backlog) - 1
      /\ \A j \in 1..(Len(backlog) - 1) : backlog'[j] = backlog[IF j < i THEN j ELSE j + 1]
  BY <1>1 DEF Without, TypeOK
<1> QED
  BY <1>1, <1>2, SMTT(30) DEF Queued, NoTwin

(* The first of the backlog is taken off it.                               *)
LEMMA TakenOff ==
  ASSUME TypeOK, backlog # <<>>, NEW h, h = Head(backlog), backlog' = Tail(backlog)
  PROVE  /\ backlog' \in Seq(Conn) /\ h \in Conn
         /\ Queued(h)
         /\ \A c \in Conn : Queued(c)' => Queued(c)
         /\ NoTwin => NoTwin' /\ ~Queued(h)'
<1>1. backlog \in Seq(Conn) /\ Len(backlog) \in Nat /\ Len(backlog) > 0 /\ h = backlog[1]
  BY DEF TypeOK
<1>2. /\ backlog' \in Seq(Conn)
      /\ Len(backlog') = Len(backlog) - 1
      /\ \A j \in 1..(Len(backlog) - 1) : backlog'[j] = backlog[j + 1]
  BY <1>1
<1>3. h \in Conn /\ Queued(h)
  BY <1>1 DEF Queued
<1>4. \A c \in Conn : Queued(c)' => Queued(c)
  BY <1>1, <1>2 DEF Queued
<1>5. ASSUME NoTwin PROVE NoTwin' /\ ~Queued(h)'
  <2>1. \A i \in 1..Len(backlog') :
           i \in Nat /\ i > 0 /\ i + 1 \in 1..Len(backlog) /\ backlog'[i] = backlog[i + 1]
    BY <1>1, <1>2
  <2>2. ASSUME NEW i \in 1..Len(backlog'), NEW j \in 1..Len(backlog'), backlog'[i] = backlog'[j]
        PROVE  i = j
    <3>1. i + 1 = j + 1
      BY <1>5, <2>1, <2>2 DEF NoTwin
    <3> QED
      BY <3>1, <2>1
  <2>3. ASSUME NEW i \in 1..Len(backlog'), backlog'[i] = h
        PROVE  FALSE
    <3>1. i + 1 = 1
      BY <1>1, <1>5, <2>1, <2>3 DEF NoTwin
    <3> QED
      BY <3>1, <2>1
  <2> QED
    BY <2>2, <2>3 DEF NoTwin, Queued
<1> QED
  BY <1>2, <1>3, <1>4, <1>5

(* A connection joins at the end.                                          *)
LEMMA JoinsQueue ==
  ASSUME TypeOK, NEW c \in Conn, backlog' = Append(backlog, c)
  PROVE  /\ backlog' \in Seq(Conn)
         /\ \A b \in Conn : Queued(b)' <=> Queued(b) \/ b = c
         /\ NoTwin /\ ~Queued(c) => NoTwin'
<1>1. /\ backlog' \in Seq(Conn) /\ Len(backlog) \in Nat
      /\ Len(backlog') = Len(backlog) + 1
      /\ \A j \in 1..Len(backlog) : backlog'[j] = backlog[j]
      /\ backlog'[Len(backlog) + 1] = c
  BY DEF TypeOK
<1>2. ASSUME NEW b \in Conn PROVE Queued(b)' <=> Queued(b) \/ b = c
  BY <1>1 DEF Queued
<1> QED
  BY <1>1, <1>2 DEF Queued, NoTwin

LEMMA TypePreserved == TypeOK /\ [Next]_vars => TypeOK'
<1> SUFFICES ASSUME TypeOK, [Next]_vars PROVE TypeOK'
  OBVIOUS
<1> USE DEF TypeOK, Listener, Goto, parent, children, kernel
<1>1. CASE Setup \/ StartListening
  BY <1>1 DEF Setup, StartListening
<1>2. ASSUME NEW w \in Worker, ForkWorker(w) PROVE TypeOK'
  BY <1>2 DEF ForkWorker
<1>3. ASSUME NEW l \in Listener, SelectWakes(l) \/ SelectFails(l) PROVE TypeOK'
  BY <1>3 DEF SelectWakes, SelectFails
<1>4. ASSUME NEW l \in Listener, AcceptFails(l) PROVE TypeOK'
  BY <1>4, TakenOff DEF AcceptFails
<1>5. ASSUME NEW l \in Listener, Accept(l) PROVE TypeOK'
  <2>1. backlog' \in Seq(Conn) /\ Head(backlog) \in Conn
    BY <1>5, TakenOff DEF Accept
  <2>2. /\ sock' = [sock EXCEPT ![l] = Head(backlog)]
        /\ fds' = [fds EXCEPT ![l] = @ \cup {Head(backlog)}]
        /\ pc' = [pc EXCEPT ![l] = "named"]
        /\ UNCHANGED <<toFork, children, net>>
    BY <1>5 DEF Accept
  <2>3. Head(backlog) # NULL
    BY <2>1, PreforkAssumption DEF PreforkAssumption
  <2> QED
    BY <2>1, <2>2, <2>3
<1>6. ASSUME NEW l \in Listener, ForkFails(l) \/ ParentCloses(l) PROVE TypeOK'
  BY <1>6, ClosingMakesNoneNew, SMTT(30) DEF ForkFails, ParentCloses
<1>7. ASSUME NEW l \in Listener, ForkClient(l) PROVE TypeOK'
  BY <1>7 DEF ForkClient
<1>8. ASSUME NEW c \in Conn, Connect(c) PROVE TypeOK'
  BY <1>8 DEF Connect
<1>9. ASSUME NEW c \in Conn, Reset(c) PROVE TypeOK'
  BY <1>9, WithoutOne DEF Reset
<1>10. ASSUME NEW c \in Conn, ChildShutsDown(c) PROVE TypeOK'
  BY <1>10 DEF ChildShutsDown
<1>11. ASSUME NEW c \in Conn, ChildReturns(c) PROVE TypeOK'
  BY <1>11, ClosingMakesNoneNew DEF ChildReturns
<1>12. CASE UNCHANGED vars
  BY <1>12 DEF vars
<1> QED
  BY <1>1, <1>2, <1>3, <1>4, <1>5, <1>6, <1>7, <1>8, <1>9, <1>10, <1>11, <1>12
     DEF Next, Serve

(* Every variable has its type in every execution, and a listener past its *)
(* accept() has a client's socket.                                         *)
THEOREM TypeCorrect == Spec => []TypeOK
<1>1. ASSUME Init PROVE TypeOK
  <2>1. pc \in [Listener -> {"none", "setup", "forking", "select", "accept", "named",
                             "forked", "ended"}]
        /\ \A l \in Listener : pc[l] \notin {"named", "forked"}
    BY <1>1 DEF Init
  <2>2. sock \in [Listener -> Conn \cup {NULL}] /\ fds \in [Listener -> SUBSET Conn]
    BY <1>1 DEF Init
  <2> QED
    BY <1>1, <2>1, <2>2 DEF Init, TypeOK
<1> QED
  BY <1>1, TypePreserved, PTL DEF Spec

-----------------------------------------------------------------------------

(* Where the backlog stays, so does whoever is in it.                      *)
LEMMA QueueStays == UNCHANGED backlog => \A c \in Conn : Queued(c)' <=> Queued(c)
  BY DEF Queued

LEMMA TwinPreserved ==
  ASSUME TypeOK, OnePlace, NoTwin, [Next]_vars
  PROVE  NoTwin'
<1> USE DEF parent, children, kernel, OnePlace
<1>1. CASE Setup \/ StartListening
  BY <1>1 DEF Setup, StartListening, NoTwin
<1>2. ASSUME NEW w \in Worker, ForkWorker(w) PROVE NoTwin'
  BY <1>2 DEF ForkWorker, NoTwin
<1>3. ASSUME NEW l \in Listener, SelectWakes(l) \/ SelectFails(l) PROVE NoTwin'
  BY <1>3 DEF SelectWakes, SelectFails, NoTwin
<1>4. ASSUME NEW l \in Listener, AcceptFails(l) PROVE NoTwin'
  <2>1. CASE backlog' = backlog
    BY <2>1 DEF NoTwin
  <2>2. CASE backlog # <<>> /\ backlog' = Tail(backlog)
    BY <2>2, TakenOff
  <2> QED
    BY <1>4, <2>1, <2>2 DEF AcceptFails
<1>5. ASSUME NEW l \in Listener, Accept(l) PROVE NoTwin'
  BY <1>5, TakenOff DEF Accept
<1>6. ASSUME NEW l \in Listener, ForkFails(l) \/ ParentCloses(l) PROVE NoTwin'
  BY <1>6 DEF ForkFails, ParentCloses, NoTwin
<1>7. ASSUME NEW l \in Listener, ForkClient(l) PROVE NoTwin'
  BY <1>7 DEF ForkClient, NoTwin
<1>8. ASSUME NEW c \in Conn, Connect(c) PROVE NoTwin'
  BY <1>8, JoinsQueue DEF Connect
<1>9. ASSUME NEW c \in Conn, Reset(c) PROVE NoTwin'
  <2>1. CASE backlog' = backlog
    BY <2>1 DEF NoTwin
  <2>2. CASE \E i \in 1..Len(backlog) : backlog' = Without(i)
    BY <2>2, WithoutOne
  <2> QED
    BY <1>9, <2>1, <2>2 DEF Reset
<1>10. ASSUME NEW c \in Conn, ChildShutsDown(c) PROVE NoTwin'
  BY <1>10 DEF ChildShutsDown, NoTwin
<1>11. ASSUME NEW c \in Conn, ChildReturns(c) PROVE NoTwin'
  BY <1>11 DEF ChildReturns, NoTwin
<1>12. CASE UNCHANGED vars
  BY <1>12 DEF vars, NoTwin
<1> QED
  BY <1>1, <1>2, <1>3, <1>4, <1>5, <1>6, <1>7, <1>8, <1>9, <1>10, <1>11, <1>12
     DEF Next, Serve

LEMMA NotForkedPreserved ==
  ASSUME TypeOK, NotForked, [Next]_vars
  PROVE  NotForked'
<1> USE PreforkAssumption DEF PreforkAssumption, TypeOK, Listener, Goto, parent, NotForked
<1>1. CASE Setup \/ StartListening
  BY <1>1 DEF Setup, StartListening
<1>2. ASSUME NEW w \in Worker, ForkWorker(w) PROVE NotForked'
  BY <1>2 DEF ForkWorker
<1>3. ASSUME NEW l \in Listener, SelectWakes(l) \/ SelectFails(l) \/ Serve(l)
      PROVE  NotForked'
  BY <1>3 DEF SelectWakes, SelectFails, Serve, AcceptFails, Accept, ForkFails, ForkClient,
              ParentCloses
<1>4. ASSUME NEW c \in Conn, Connect(c) \/ Reset(c) \/ ChildShutsDown(c) \/ ChildReturns(c)
      PROVE  NotForked'
  BY <1>4 DEF Connect, Reset, ChildShutsDown, ChildReturns
<1>5. CASE UNCHANGED vars
  BY <1>5 DEF vars
<1> QED
  BY <1>1, <1>2, <1>3, <1>4, <1>5 DEF Next

LEMMA StrayPreserved ==
  ASSUME TypeOK, NotForked, NoStrayDescriptor, [Next]_vars
  PROVE  NoStrayDescriptor'
<1> USE PreforkAssumption DEF PreforkAssumption, TypeOK, Listener, Goto, parent, children, kernel,
        NoStrayDescriptor
<1>1. CASE Setup \/ StartListening
  BY <1>1 DEF Setup, StartListening
<1>2. ASSUME NEW w \in Worker, ForkWorker(w) PROVE NoStrayDescriptor'
  <2>1. w # Boss /\ pc[w] \notin {"named", "forked"}
    BY <1>2 DEF ForkWorker, NotForked
  <2> QED
    BY <1>2, <2>1 DEF ForkWorker
<1>3. ASSUME NEW l \in Listener, SelectWakes(l) \/ SelectFails(l) PROVE NoStrayDescriptor'
  BY <1>3 DEF SelectWakes, SelectFails
<1>4. ASSUME NEW l \in Listener, AcceptFails(l) PROVE NoStrayDescriptor'
  BY <1>4 DEF AcceptFails
<1>5. ASSUME NEW l \in Listener, Accept(l) PROVE NoStrayDescriptor'
  BY <1>5 DEF Accept
<1>6. ASSUME NEW l \in Listener, ForkFails(l) \/ ParentCloses(l) PROVE NoStrayDescriptor'
  BY <1>6, ZenonT(60) DEF ForkFails, ParentCloses
<1>7. ASSUME NEW l \in Listener, ForkClient(l) PROVE NoStrayDescriptor'
  <2>1. fds[l] = {sock[l]} /\ sock[l] \in Conn
    BY <1>7 DEF ForkClient
  <2>2. \A c \in Conn : kept'[c] \subseteq {c}
    BY <1>7, <2>1 DEF ForkClient
  <2>3. /\ pc' = [pc EXCEPT ![l] = "forked"] /\ pc[l] = "named"
        /\ UNCHANGED <<sock, fds>>
    BY <1>7 DEF ForkClient
  <2> QED
    BY <2>2, <2>3
<1>8. ASSUME NEW c \in Conn, Connect(c) PROVE NoStrayDescriptor'
  BY <1>8 DEF Connect
<1>9. ASSUME NEW c \in Conn, Reset(c) PROVE NoStrayDescriptor'
  BY <1>9 DEF Reset
<1>10. ASSUME NEW c \in Conn, ChildShutsDown(c) PROVE NoStrayDescriptor'
  BY <1>10 DEF ChildShutsDown
<1>11. ASSUME NEW c \in Conn, ChildReturns(c) PROVE NoStrayDescriptor'
  BY <1>11 DEF ChildReturns
<1>12. CASE UNCHANGED vars
  BY <1>12 DEF vars
<1> QED
  BY <1>1, <1>2, <1>3, <1>4, <1>5, <1>6, <1>7, <1>8, <1>9, <1>10, <1>11, <1>12
     DEF Next, Serve

LEMMA PlacePreserved ==
  ASSUME TypeOK, OnePlace, NoTwin, NoStrayDescriptor, [Next]_vars
  PROVE  OnePlace'
<1> USE PreforkAssumption DEF PreforkAssumption, TypeOK, Listener, Goto, parent, children, kernel,
        OnePlace, Has
<1>1. CASE Setup \/ StartListening
  BY <1>1, QueueStays DEF Setup, StartListening
<1>2. ASSUME NEW w \in Worker, ForkWorker(w) PROVE OnePlace'
  BY <1>2, QueueStays DEF ForkWorker
<1>3. ASSUME NEW l \in Listener, SelectWakes(l) \/ SelectFails(l) PROVE OnePlace'
  BY <1>3, QueueStays DEF SelectWakes, SelectFails
<1>4. ASSUME NEW l \in Listener, AcceptFails(l) PROVE OnePlace'
  BY <1>4, TakenOff, QueueStays DEF AcceptFails
<1>5. ASSUME NEW l \in Listener, Accept(l) PROVE OnePlace'
  <2> DEFINE h == Head(backlog)
  <2>1. h \in Conn /\ Queued(h) /\ \A c \in Conn : Queued(c)' => Queued(c)
    BY <1>5, TakenOff DEF Accept
  <2>2. ASSUME NEW c \in Conn, Queued(c)' PROVE c # h
    BY <1>5, <2>2, TakenOff DEF Accept
  <2>3. /\ pc[l] = "accept" /\ pc' = [pc EXCEPT ![l] = "named"]
        /\ sock' = [sock EXCEPT ![l] = h]
        /\ UNCHANGED <<child, kept, net>>
    BY <1>5 DEF Accept
  <2> HIDE DEF h
  <2> QED
    BY <2>1, <2>2, <2>3
<1>6. ASSUME NEW l \in Listener, ForkFails(l) \/ ParentCloses(l) PROVE OnePlace'
  BY <1>6, QueueStays, ClosingMakesNoneNew DEF ForkFails, ParentCloses
<1>7. ASSUME NEW l \in Listener, ForkClient(l) PROVE OnePlace'
  <2>1. Has(l, sock[l]) /\ sock[l] \in Conn /\ fds[l] = {sock[l]}
    BY <1>7, ZenonT(60) DEF ForkClient, NoStrayDescriptor
  <2>2. /\ pc' = [pc EXCEPT ![l] = "forked"]
        /\ child' = [child EXCEPT ![sock[l]] = "serving"]
        /\ kept' = [kept EXCEPT ![sock[l]] = fds[l]]
        /\ UNCHANGED <<sock, net, backlog>>
    BY <1>7 DEF ForkClient
  <2> QED
    BY <2>1, <2>2, QueueStays
<1>8. ASSUME NEW c \in Conn, Connect(c) PROVE OnePlace'
  BY <1>8, JoinsQueue DEF Connect
<1>9. ASSUME NEW c \in Conn, Reset(c) PROVE OnePlace'
  BY <1>9, WithoutOne, QueueStays DEF Reset
<1>10. ASSUME NEW c \in Conn, ChildShutsDown(c) PROVE OnePlace'
  BY <1>10, QueueStays DEF ChildShutsDown
<1>11. ASSUME NEW c \in Conn, ChildReturns(c) PROVE OnePlace'
  BY <1>11, QueueStays, ClosingMakesNoneNew DEF ChildReturns
<1>12. CASE UNCHANGED vars
  BY <1>12, QueueStays DEF vars
<1> QED
  BY <1>1, <1>2, <1>3, <1>4, <1>5, <1>6, <1>7, <1>8, <1>9, <1>10, <1>11, <1>12
     DEF Next, Serve

(* The inductive invariant: in every execution each connection has one     *)
(* place and only its own processes have it open.                          *)
THEOREM ServerInvHolds == Spec => []ServerInv
<1>1. ASSUME Init PROVE ServerInv
  <2>1. \A l \in Listener : pc[l] \notin {"named", "forked"} /\ fds[l] = {}
    BY <1>1 DEF Init
  <2>2. \A c \in Conn : child[c] = "none" /\ kept[c] = {} /\ ~Queued(c)
    BY <1>1 DEF Init, Queued
  <2>3. NoTwin
    BY <1>1 DEF Init, NoTwin
  <2>4. NotForked
    BY <1>1, PreforkAssumption DEF Init, NotForked, Listener, PreforkAssumption
  <2> QED
    BY <2>1, <2>2, <2>3, <2>4 DEF ServerInv, OnePlace, NoStrayDescriptor, Has
<1>2. TypeOK /\ ServerInv /\ [Next]_vars => ServerInv'
  BY TwinPreserved, NotForkedPreserved, StrayPreserved, PlacePreserved DEF ServerInv
<1> QED
  BY <1>1, <1>2, TypeCorrect, PTL DEF Spec

(* However many listeners race for a client, one process serves it.        *)
THEOREM OneProcessPerClientHolds == Spec => []OneProcessPerClient
<1>1. ServerInv => OneProcessPerClient
  <2> SUFFICES ASSUME ServerInv, NEW c \in Conn
               PROVE  /\ Queued(c) => Holding(c) = {} /\ child[c] = "none"
                      /\ Holding(c) # {} =>
                            child[c] = "none" /\ \E l \in Listener : Holding(c) = {l}
                      /\ child[c] \in {"serving", "shut"} => c \in kept[c]
    BY DEF OneProcessPerClient
  <2>1. \A l : l \in Holding(c) <=> l \in Listener /\ Has(l, c)
    BY DEF Holding, Has
  <2>2. Queued(c) => Holding(c) = {} /\ child[c] = "none"
    BY <2>1 DEF ServerInv, OnePlace
  <2>3. ASSUME NEW l \in Holding(c) PROVE child[c] = "none" /\ Holding(c) = {l}
    BY <2>1, <2>3 DEF ServerInv, OnePlace
  <2>4. child[c] \in {"serving", "shut"} => c \in kept[c]
    BY DEF ServerInv, OnePlace
  <2> QED
    BY <2>1, <2>2, <2>3, <2>4
<1> QED
  BY <1>1, ServerInvHolds, PTL

(* However many forks there are, and whichever fail, nobody inherits the   *)
(* connection of another client.                                           *)
THEOREM NoStrayDescriptorHolds == Spec => []NoStrayDescriptor
<1>1. ServerInv => NoStrayDescriptor
  BY DEF ServerInv
<1> QED
  BY <1>1, ServerInvHolds, PTL
=============================================================================
