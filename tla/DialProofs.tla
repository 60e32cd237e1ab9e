----------------------------- MODULE DialProofs ------------------------------
(***************************************************************************)
(* Proofs about Dial, for any number of calls, addresses and descriptors.  *)
(***************************************************************************)
EXTENDS Dial, TLAPS

-----------------------------------------------------------------------------

(* A step keeps the types, and every call at work keeps its socket and      *)
(* its address.                                                             *)
LEMMA TypePreserved == TypeOK /\ [Next]_vars => TypeOK'
<1> SUFFICES ASSUME TypeOK, [Next]_vars PROVE TypeOK'
  OBVIOUS
<1> USE ConstantsAssumption
    DEF ConstantsAssumption, TypeOK, Sockets, NoConnection, InCall, Working, NoSocket,
        At, Goto, Return, Mishap, SocketIs, Close, locals
<1>1. ASSUME NEW c \in Call, Start(c) \/ HangUp(c) PROVE TypeOK'
  <2>1. CASE Start(c)
    BY <2>1 DEF Start
  <2>2. CASE HangUp(c)
    <3>1. pc' \in [Call -> InCall \cup {"idle", "returned", "done", "crashed"}]
      BY <2>2 DEF HangUp
    <3>2. tab' \in [Fd -> Sockets]
      BY <2>2 DEF HangUp
    <3> QED
      BY <2>2, <3>1, <3>2 DEF HangUp
  <2> QED
    BY <1>1, <2>1, <2>2
<1>2. ASSUME NEW f \in Fd, Settle(f) PROVE TypeOK'
  BY <1>2 DEF Settle
<1>3. ASSUME NEW c \in Call, Resolve(c) \/ EndOfList(c) \/ FreeList(c) PROVE TypeOK'
  BY <1>3, SMTT(30) DEF Resolve, EndOfList, FreeList
<1>4. ASSUME NEW c \in Call, ResolveFails(c) PROVE TypeOK'
  BY <1>4 DEF ResolveFails
<1>5. ASSUME NEW c \in Call, OpenSocket(c) PROVE TypeOK'
  <2>1. PICK f \in FreeFds :
          /\ connection_socket' = [connection_socket EXCEPT ![c] = f]
          /\ tab' = [tab EXCEPT ![f] = [state |-> "new", by |-> c, to |-> paddress[c]]]
    BY ONLY <1>5, Zenon DEF OpenSocket
  <2>2. f \in Fd /\ paddress[c] \in 0..MaxAddrs /\ paddress[c] <= addresses[c]
    BY <1>5 DEF FreeFds, OpenSocket
  <2>3. [state |-> "new", by |-> c, to |-> paddress[c]] \in Sockets
    BY <2>2
  <2>4. tab' \in [Fd -> Sockets]
    BY <2>1, <2>2, <2>3
  <2> QED
    BY <1>5, <2>1, <2>2, <2>4 DEF OpenSocket
<1>6. ASSUME NEW c \in Call, SocketFails(c) PROVE TypeOK'
  <2>1. paddress[c] \in 1..MaxAddrs
    BY <1>6 DEF SocketFails
  <2>2. CASE Return(c, 1)
    BY <1>6, <2>2 DEF SocketFails
  <2>3. CASE UNCHANGED <<pc, res>>
    BY <1>6, <2>1, <2>3 DEF SocketFails
  <2> QED
    BY <1>6, <2>2, <2>3 DEF SocketFails
<1>7. ASSUME NEW c \in Call, NEW here \in Working, NEW there \in Working,
             Timeout(c, here, there)
      PROVE TypeOK'
  BY <1>7, SMTT(30) DEF Timeout
<1>8. ASSUME NEW c \in Call, KeepAlive(c) \/ KeepClose(c) \/ NonBlock(c) PROVE TypeOK'
  BY <1>8, SMTT(30) DEF KeepAlive, KeepClose, NonBlock
<1>9. ASSUME NEW c \in Call, NEW s \in {"connected", "failed", "pending"},
             pc[c] \in Working, SocketIs(c, s)
      PROVE tab' \in [Fd -> Sockets]
  BY <1>9, SMTT(30)
<1>10. ASSUME NEW c \in Call,
              Connected(c) \/ ConnectFails(c) \/ InProgress(c) \/ Refusal(c)
       PROVE TypeOK'
  <2>1. tab' \in [Fd -> Sockets]
    BY <1>9, <1>10 DEF Connected, ConnectFails, InProgress, Refusal
  <2>2. CASE Connected(c)
    <3>1. CASE Goto(c, "freelist") /\ UNCHANGED res
      BY <2>1, <2>2, <3>1 DEF Connected
    <3>2. CASE Return(c, connection_socket[c])
      BY <2>1, <2>2, <3>2 DEF Connected
    <3> QED
      BY <2>2, <3>1, <3>2 DEF Connected
  <2>3. CASE ConnectFails(c)
    BY <2>1, <2>3 DEF ConnectFails
  <2>4. CASE InProgress(c) \/ Refusal(c)
    BY <2>1, <2>4, ZenonT(60) DEF InProgress, Refusal
  <2> QED
    BY <1>10, <2>2, <2>3, <2>4
<1>11. ASSUME NEW c \in Call, Refused(c) PROVE TypeOK'
  <2>1. paddress[c] \in 1..MaxAddrs
    BY <1>11 DEF Refused
  <2>2. tab' \in [Fd -> Sockets]
    BY <1>11 DEF Refused
  <2> QED
    BY <1>11, <2>1, <2>2 DEF Refused
<1>12. ASSUME NEW c \in Call, SelectReady(c) \/ SoErrorClear(c) PROVE TypeOK'
  BY <1>12 DEF SelectReady, SoErrorClear
<1>13. ASSUME NEW c \in Call, SelectFails(c) \/ SoErrorSet(c) PROVE TypeOK'
  BY <1>13 DEF SelectFails, SoErrorSet, GiveUp
<1>14. CASE UNCHANGED vars
  BY <1>14 DEF vars
<1>15. ASSUME NEW c \in Call, GetTimeout(c) \/ SetTimeout(c) PROVE TypeOK'
  BY <1>7, <1>15 DEF GetTimeout, SetTimeout
<1>16. ASSUME NEW c \in Call, NoMemory(c) PROVE TypeOK'
  BY <1>16 DEF NoMemory
<1> HIDE DEF TypeOK
<1> QED
  BY <1>1, <1>2, <1>3, <1>4, <1>5, <1>6, <1>8, <1>10, <1>11, <1>12, <1>13, <1>14, <1>15,
     <1>16
  DEF Next, Step

(* The variables always hold values of their types; a call that uses a      *)
(* socket or an address has one.                                            *)
THEOREM TypeCorrect == Spec => []TypeOK
<1>1. Init => TypeOK
  BY ConstantsAssumption
  DEF ConstantsAssumption, Init, TypeOK, Sockets, NoConnection, NoSocket, Working, InCall
<1> QED
  BY <1>1, TypePreserved, PTL DEF Spec

-----------------------------------------------------------------------------
(* The invariant.                                                           *)

(* Nothing of the calls other than c changes, nor do their sockets.         *)
OthersAlone(c) ==
    \A d \in Call \ {c} :
        /\ pc'[d] = pc[d] /\ fn'[d] = fn[d] /\ res'[d] = res[d]
        /\ connection_socket'[d] = connection_socket[d]
        /\ addresses'[d] = addresses[d] /\ paddress'[d] = paddress[d]
        /\ passed'[d] = passed[d] /\ mishaps'[d] = mishaps[d]
        /\ \A f \in Fd : tab[f].by = d \/ tab'[f].by = d => tab'[f] = tab[f]

LEMMA OthersKept ==
  ASSUME TypeOK, NEW c \in Call, OthersAlone(c), NEW d \in Call \ {c}, CallInv(d)
  PROVE  CallInv(d)'
<1>1. /\ pc'[d] = pc[d] /\ fn'[d] = fn[d] /\ res'[d] = res[d]
      /\ connection_socket'[d] = connection_socket[d]
      /\ addresses'[d] = addresses[d] /\ paddress'[d] = paddress[d]
      /\ passed'[d] = passed[d] /\ mishaps'[d] = mishaps[d]
      /\ \A f \in Fd : tab[f].by = d \/ tab'[f].by = d => tab'[f] = tab[f]
  BY DEF OthersAlone
<1>2. Held(d)' = Held(d)
  BY <1>1 DEF Held
<1>3. HeldInv(d)'
  BY <1>1, <1>2 DEF CallInv, HeldInv
<1>4. PassedInv(d)'
  BY <1>1, <1>2 DEF CallInv, PassedInv
<1>5. LeakInv(d)'
  BY <1>1, <1>2 DEF CallInv, LeakInv
<1> QED
  BY <1>3, <1>4, <1>5 DEF CallInv

(* The step of a call between system calls on its socket.                   *)
LEMMA Advance ==
  ASSUME TypeOK, NEW c \in Call, CallInv(c), tab' = tab,
         pc[c] \in Working, pc'[c] \in Working \cup {"socket", "freelist"},
         connection_socket'[c] = connection_socket[c],
         fn'[c] = fn[c], passed'[c] = passed[c],
         addresses'[c] = addresses[c], paddress'[c] = paddress[c],
         \/ mishaps'[c] = mishaps[c]
         \/ mishaps'[c] = mishaps[c] \cup {"keepalive"}
         \/ mishaps'[c] = mishaps[c] \cup {"nonblock"},
         pc'[c] = "socket" => "nonblock" \in mishaps'[c],
         pc'[c] = "freelist" => tab[connection_socket[c]].state = "connected"
  PROVE  CallInv(c)'
<1>1. Held(c)' = connection_socket[c] /\ Held(c) = connection_socket[c]
  BY DEF Held, Working, InCall
<1>2. connection_socket[c] \in Fd /\ paddress[c] <= addresses[c]
  BY DEF TypeOK
<1>3. HeldInv(c)'
  BY <1>1, <1>2 DEF CallInv, HeldInv, Working, InCall
<1>4. PassedInv(c)'
  BY <1>1, <1>2, ConstantsAssumption
  DEF ConstantsAssumption, CallInv, PassedInv, NoSocket
<1>5. LeakInv(c)'
  BY <1>1 DEF CallInv, LeakInv, Working, InCall
<1> QED
  BY <1>3, <1>4, <1>5 DEF CallInv

(* Steps of a call that leave the table of descriptors alone.               *)
LEMMA QuietSteps ==
  ASSUME TypeOK, DialInv, NEW c \in Call,
         \/ Start(c) \/ Resolve(c) \/ ResolveFails(c) \/ EndOfList(c) \/ SocketFails(c)
         \/ GetTimeout(c) \/ SetTimeout(c) \/ NoMemory(c) \/ KeepAlive(c) \/ NonBlock(c)
         \/ SelectReady(c) \/ SelectFails(c) \/ SoErrorClear(c) \/ SoErrorSet(c)
         \/ FreeList(c)
  PROVE  CallInv(c)' /\ OthersAlone(c) /\ tab' = tab
<1>1. tab' = tab /\ OthersAlone(c)
  BY DEF Start, Resolve, ResolveFails, EndOfList, SocketFails, GetTimeout, SetTimeout,
         Timeout, NoMemory, KeepAlive, NonBlock, SelectReady, SelectFails, SoErrorClear, SoErrorSet,
         GiveUp, FreeList, OthersAlone, TypeOK, At, Goto, Return, Mishap, locals
<1>2. CallInv(c)
  BY DEF DialInv
<1>3. /\ addresses[c] \in Nat /\ paddress[c] \in Nat /\ NoSocket \notin Fd /\ 1 \notin Fd
      /\ connection_socket[c] \in Fd \cup {NoSocket}
  BY ConstantsAssumption DEF ConstantsAssumption, NoSocket, TypeOK
<1>4. CASE Start(c) \/ Resolve(c) \/ ResolveFails(c)
  <2>1. /\ pc[c] \in {"idle", "resolve"}
        /\ \/ pc'[c] \in {"resolve", "socket", "crashed"}
           \/ fn[c] = "create" /\ pc'[c] = "returned" /\ res'[c] = 1
        /\ connection_socket'[c] = connection_socket[c] /\ fn'[c] = fn[c]
        /\ passed'[c] = passed[c] /\ paddress'[c] = paddress[c] /\ mishaps'[c] = mishaps[c]
        /\ addresses'[c] \in Nat /\ (addresses'[c] = addresses[c] \/ addresses'[c] \in 1..MaxAddrs)
    <3>1. CASE Start(c)
      BY <1>3, <3>1 DEF Start, At, Goto, TypeOK, locals
    <3>2. CASE Resolve(c)
      BY <1>3, <3>2, ConstantsAssumption
      DEF ConstantsAssumption, Resolve, At, Goto, TypeOK
    <3>3. CASE ResolveFails(c)
      <4>1. /\ pc[c] = "resolve"
            /\ UNCHANGED <<fn, connection_socket, addresses, paddress, passed, mishaps>>
            /\ \/ fn[c] = "create" /\ Return(c, 1)
               \/ \E p \in {"socket", "crashed"} : pc' = [pc EXCEPT ![c] = p]
        BY <3>3 DEF ResolveFails, At
      <4> QED
        BY <1>3, <4>1 DEF Return, Goto, TypeOK
    <3> QED
      BY <1>4, <3>1, <3>2, <3>3
  <2>2. Held(c) = NoSocket /\ Held(c)' \notin Fd /\ connection_socket[c] = NoSocket
    BY <1>2, <1>3, <2>1 DEF CallInv, HeldInv, Held, InCall
  <2>3. HeldInv(c)'
    BY <1>2, <2>1, <2>2 DEF CallInv, HeldInv
  <2>4. PassedInv(c)'
    BY <1>2, <1>3, <2>1, <2>2 DEF CallInv, HeldInv, PassedInv
  <2>5. LeakInv(c)'
    BY <1>1, <1>2, <1>3, <2>1, <2>2 DEF CallInv, HeldInv, LeakInv
  <2> QED
    BY <2>3, <2>4, <2>5, <1>1 DEF CallInv
<1>5. CASE EndOfList(c)
  <2>1. /\ pc[c] = "socket" /\ pc'[c] = "freelist" /\ paddress[c] > addresses[c]
        /\ connection_socket'[c] = connection_socket[c] /\ fn'[c] = fn[c]
        /\ passed'[c] = passed[c] /\ paddress'[c] = paddress[c] /\ mishaps'[c] = mishaps[c]
        /\ addresses'[c] = addresses[c]
    BY <1>5 DEF EndOfList, At, Goto, TypeOK, locals
  <2>2. Held(c) = NoSocket /\ Held(c)' = NoSocket
    BY <1>2, <1>3, <2>1 DEF CallInv, HeldInv, Held, InCall
  <2>3. HeldInv(c)'
    BY <1>3, <2>1, <2>2 DEF HeldInv
  <2>4. PassedInv(c)'
    BY <1>2, <1>3, <2>1, <2>2 DEF CallInv, PassedInv
  <2>5. LeakInv(c)'
    BY <1>1, <1>2, <2>1, <2>2 DEF CallInv, LeakInv, InCall
  <2> QED
    BY <2>3, <2>4, <2>5, <1>1 DEF CallInv
<1>6. CASE SocketFails(c)
  <2>1. /\ pc[c] = "socket" /\ paddress[c] <= addresses[c]
        /\ connection_socket'[c] = NoSocket /\ fn'[c] = fn[c]
        /\ addresses'[c] = addresses[c] /\ mishaps'[c] = mishaps[c]
        /\ \/ /\ pc'[c] = "socket"
              /\ paddress'[c] = paddress[c] + 1 /\ passed'[c] = passed[c] \cup {paddress[c]}
           \/ fn[c] = "create" /\ pc'[c] = "returned" /\ res'[c] = 1
    BY <1>6 DEF SocketFails, At, Goto, Return, TypeOK
  <2>2. Held(c)' \notin Fd /\ Held(c) = connection_socket[c]
    BY <1>3, <2>1 DEF Held, InCall
  <2>3. HeldInv(c)'
    BY <2>1, <2>2 DEF HeldInv
  <2>4. fn[c] = "first" => passed'[c] = 1..(paddress'[c] - 1) /\ paddress'[c] <= addresses[c] + 1
    <3>1. ASSUME fn[c] = "first" PROVE passed[c] = 1..(paddress[c] - 1)
      BY <1>2, <3>1 DEF CallInv, PassedInv
    <3>2. paddress[c] \in Nat \ {0}
      BY DEF TypeOK
    <3>3. \A n \in Nat \ {0} : 1..(n - 1) \cup {n} = 1..n /\ (n + 1) - 1 = n
      OBVIOUS
    <3>4. ASSUME fn[c] = "first"
          PROVE  paddress'[c] = paddress[c] + 1 /\ passed'[c] = passed[c] \cup {paddress[c]}
      BY <2>1, <3>4
    <3>5. ASSUME fn[c] = "first" PROVE passed'[c] = 1..(paddress'[c] - 1)
      BY <3>1, <3>2, <3>3, <3>4, <3>5
    <3> QED
      BY <1>3, <2>1, <3>2, <3>4, <3>5
  <2>5. PassedInv(c)'
    BY <2>1, <2>4 DEF PassedInv
  <2>6. LeakInv(c)'
    BY <1>1, <1>2, <1>3, <2>1, <2>2 DEF CallInv, HeldInv, LeakInv, InCall
  <2> QED
    BY <2>3, <2>5, <2>6, <1>1 DEF CallInv
<1>7. ASSUME NEW here \in Working, NEW there \in Working, Timeout(c, here, there)
      PROVE  CallInv(c)'
  <2>1. /\ pc[c] = here /\ connection_socket'[c] = connection_socket[c] /\ fn'[c] = fn[c]
        /\ passed'[c] = passed[c] /\ paddress'[c] = paddress[c] /\ addresses'[c] = addresses[c]
    BY <1>7 DEF Timeout, At
  <2>2. CASE Goto(c, there) /\ UNCHANGED <<res, mishaps>>
    <3>1. pc'[c] = there /\ mishaps'[c] = mishaps[c]
      BY <2>2 DEF Goto, TypeOK
    <3> QED
      BY <1>1, <1>2, <2>1, <3>1, Advance DEF Working, InCall
  <2>3. CASE Return(c, 1) /\ Mishap(c, "option")
    <3>1. pc'[c] = "returned" /\ res'[c] = 1 /\ mishaps'[c] = mishaps[c] \cup {"option"}
      BY <2>3 DEF Return, Goto, Mishap, TypeOK
    <3>2. Held(c)' \notin Fd
      BY <1>3, <3>1 DEF Held
    <3>3. HeldInv(c)'
      BY <1>3, <3>1, <3>2 DEF HeldInv
    <3>4. PassedInv(c)'
      BY <1>2, <2>1, <3>1 DEF CallInv, PassedInv
    <3>5. LeakInv(c)'
      BY <1>1, <1>2, <3>1 DEF CallInv, LeakInv, InCall
    <3> QED
      BY <3>3, <3>4, <3>5 DEF CallInv
  <2> QED
    BY <1>7, <2>2, <2>3 DEF Timeout
<1>8. CASE GetTimeout(c) \/ SetTimeout(c)
  BY <1>1, <1>7, <1>8 DEF GetTimeout, SetTimeout, Working, InCall
<1>12. CASE NoMemory(c)
  <2>1. /\ pc[c] = "settimeout" /\ pc'[c] = "crashed"
        /\ connection_socket'[c] = connection_socket[c] /\ fn'[c] = fn[c]
        /\ passed'[c] = passed[c] /\ paddress'[c] = paddress[c] /\ mishaps'[c] = mishaps[c]
        /\ addresses'[c] = addresses[c]
    BY <1>12 DEF NoMemory, At, Goto, TypeOK, locals
  <2>2. Held(c)' = Held(c)
    BY <2>1 DEF Held, InCall
  <2>3. HeldInv(c)'
    BY <1>1, <1>2, <1>3, <2>1, <2>2 DEF CallInv, HeldInv
  <2>4. PassedInv(c)'
    BY <1>2, <2>1 DEF CallInv, PassedInv
  <2>5. LeakInv(c)'
    BY <1>1, <1>2, <2>1, <2>2 DEF CallInv, LeakInv, InCall
  <2> QED
    BY <2>3, <2>4, <2>5, <1>1 DEF CallInv
<1>9. CASE KeepAlive(c) \/ NonBlock(c) \/ SelectReady(c) \/ SoErrorClear(c)
  <2>1. /\ pc[c] \in {"keepalive", "nonblock", "select", "soerror"}
        /\ pc'[c] \in {"nonblock", "keepclose", "connect", "socket", "soerror", "freelist"}
        /\ connection_socket'[c] = connection_socket[c] /\ fn'[c] = fn[c]
        /\ passed'[c] = passed[c] /\ paddress'[c] = paddress[c] /\ addresses'[c] = addresses[c]
        /\ \/ mishaps'[c] = mishaps[c]
           \/ mishaps'[c] = mishaps[c] \cup {"keepalive"}
           \/ mishaps'[c] = mishaps[c] \cup {"nonblock"}
        /\ pc'[c] = "socket" => "nonblock" \in mishaps'[c]
        /\ pc'[c] = "freelist" => tab[connection_socket[c]].state = "connected"
    BY <1>9 DEF KeepAlive, NonBlock, SelectReady, SoErrorClear, At, Goto, Mishap, TypeOK, locals
  <2> QED
    BY <1>1, <1>2, <2>1, Advance DEF Working, InCall
<1>10. CASE SelectFails(c) \/ SoErrorSet(c)
  <2>1. /\ pc[c] \in {"select", "soerror"} /\ pc'[c] = "freelist"
        /\ connection_socket'[c] = NoSocket /\ fn'[c] = fn[c]
        /\ passed'[c] = passed[c] /\ paddress'[c] = paddress[c] /\ addresses'[c] = addresses[c]
        /\ mishaps'[c] = mishaps[c] \cup {"gaveup"}
    BY <1>10 DEF SelectFails, SoErrorSet, GiveUp, At, Goto, Mishap, TypeOK
  <2>2. Held(c)' = NoSocket
    BY <2>1 DEF Held, InCall
  <2>3. HeldInv(c)'
    BY <1>3, <2>1, <2>2 DEF HeldInv
  <2>4. PassedInv(c)'
    BY <1>2, <2>1 DEF CallInv, PassedInv
  <2>5. LeakInv(c)'
    BY <1>1, <1>2, <2>1 DEF CallInv, LeakInv, InCall
  <2> QED
    BY <2>3, <2>4, <2>5, <1>1 DEF CallInv
<1>11. CASE FreeList(c)
  <2>1. /\ pc[c] = "freelist" /\ pc'[c] = "returned" /\ res'[c] = connection_socket[c]
        /\ fn'[c] = fn[c] /\ mishaps'[c] = mishaps[c]
        /\ passed'[c] = passed[c] /\ paddress'[c] = paddress[c] /\ addresses'[c] = addresses[c]
    BY <1>11 DEF FreeList, At, Goto, Return, TypeOK
  <2>2. Held(c)' = Held(c)
    BY <2>1 DEF Held, InCall
  <2>3. HeldInv(c)'
    BY <1>1, <1>2, <2>1, <2>2 DEF CallInv, HeldInv
  <2>4. PassedInv(c)'
    BY <1>2, <2>1, <2>2 DEF CallInv, PassedInv
  <2>5. LeakInv(c)'
    BY <1>1, <1>2, <2>1, <2>2 DEF CallInv, LeakInv, InCall
  <2> QED
    BY <2>3, <2>4, <2>5, <1>1 DEF CallInv
<1> QED
  BY <1>1, <1>4, <1>5, <1>6, <1>8, <1>9, <1>10, <1>11, <1>12

(* A socket is made.                                                        *)
LEMMA OpenKept ==
  ASSUME TypeOK, DialInv, NEW c \in Call, OpenSocket(c)
  PROVE  CallInv(c)' /\ OthersAlone(c) /\ TabInv'
<1>1. PICK f \in FreeFds :
        /\ connection_socket' = [connection_socket EXCEPT ![c] = f]
        /\ tab' = [tab EXCEPT ![f] = [state |-> "new", by |-> c, to |-> paddress[c]]]
  BY DEF OpenSocket
<1>2. /\ f \in Fd /\ tab[f].by = NULL /\ c # NULL
      /\ \A g \in Fd : tab'[g] = IF g = f THEN [state |-> "new", by |-> c, to |-> paddress[c]]
                                ELSE tab[g]
  BY <1>1, ConstantsAssumption DEF ConstantsAssumption, FreeFds, DialInv, TabInv, TypeOK
<1>3. /\ pc[c] = "socket" /\ pc'[c] = "gettimeout" /\ connection_socket'[c] = f
      /\ fn' = fn /\ addresses' = addresses /\ paddress' = paddress /\ res' = res
      /\ passed' = passed /\ mishaps' = mishaps
  BY <1>1 DEF OpenSocket, At, Goto, TypeOK
<1>4. CallInv(c)
  BY DEF DialInv
<1>5. Held(c)' = f /\ Held(c) = connection_socket[c]
  BY <1>3 DEF Held, InCall
<1>6. HeldInv(c)'
  BY <1>2, <1>3, <1>5 DEF HeldInv
<1>7. PassedInv(c)'
  BY <1>3, <1>4, <1>5 DEF CallInv, PassedInv
<1>8. ASSUME "nonblock" \notin mishaps[c] PROVE \A g \in Fd : tab[g].by # c
  BY <1>3, <1>4, <1>5, <1>8 DEF CallInv, HeldInv, LeakInv, InCall
<1>9. LeakInv(c)'
  BY <1>2, <1>3, <1>4, <1>5, <1>8 DEF CallInv, LeakInv, InCall
<1>10. OthersAlone(c)
  BY <1>1, <1>2, ConstantsAssumption
  DEF ConstantsAssumption, OthersAlone, OpenSocket, Goto, TypeOK
<1>11. TabInv'
  BY <1>2, <1>3, ConstantsAssumption DEF ConstantsAssumption, DialInv, TabInv
<1> QED
  BY <1>6, <1>7, <1>9, <1>10, <1>11 DEF CallInv

(* A call closes its socket, or the caller does.                            *)
LEMMA CloseKept ==
  ASSUME TypeOK, DialInv, NEW c \in Call, KeepClose(c) \/ Refused(c) \/ HangUp(c)
  PROVE  CallInv(c)' /\ OthersAlone(c) /\ TabInv'
<1>1. CallInv(c)
  BY DEF DialInv
<1>2. /\ addresses[c] \in Nat /\ paddress[c] \in Nat \ {0} /\ NoSocket \notin Fd /\ c # NULL
  BY ConstantsAssumption DEF ConstantsAssumption, NoSocket, TypeOK
<1>3. /\ Held(c) \in Fd /\ Close(Held(c))
      /\ \/ pc[c] \in {"keepclose", "refused"} /\ pc'[c] = "socket"
            /\ connection_socket'[c] = NoSocket
         \/ pc[c] = "returned" /\ pc'[c] = "done"
      /\ fn'[c] = fn[c] /\ addresses'[c] = addresses[c] /\ mishaps'[c] = mishaps[c]
      /\ \/ paddress'[c] = paddress[c] /\ passed'[c] = passed[c]
         \/ /\ pc[c] = "refused" /\ paddress'[c] = paddress[c] + 1
            /\ passed'[c] = passed[c] \cup {paddress[c]}
  BY DEF KeepClose, Refused, HangUp, At, Goto, Held, TypeOK, InCall, Working, locals
<1>4. \A g \in Fd : tab'[g] = IF g = Held(c) THEN NoConnection ELSE tab[g]
  BY <1>3 DEF Close, TypeOK
<1>5. tab[Held(c)].by = c
  BY <1>1, <1>3 DEF CallInv, HeldInv
<1>6. Held(c)' = NoSocket
  BY <1>3 DEF Held, InCall
<1>7. HeldInv(c)'
  BY <1>2, <1>3, <1>6 DEF HeldInv
<1>8. PassedInv(c)'
  <2>1. ASSUME fn[c] = "first"
        PROVE  /\ passed[c] = 1..(paddress[c] - 1) /\ paddress[c] <= addresses[c] + 1
               /\ pc[c] = "refused" => paddress[c] <= addresses[c]
    BY <1>1, <2>1 DEF CallInv, PassedInv, TypeOK, Working, InCall
  <2>2. \A n \in Nat \ {0} : 1..(n - 1) \cup {n} = 1..n /\ (n + 1) - 1 = n
    OBVIOUS
  <2>3. ASSUME fn[c] = "first" PROVE passed'[c] = 1..(paddress'[c] - 1)
    BY <1>2, <1>3, <2>1, <2>2, <2>3, ZenonT(60)
  <2>4. ASSUME fn[c] = "first" PROVE paddress'[c] <= addresses'[c] + 1
    BY <1>2, <1>3, <2>1, <2>4
  <2>5. pc'[c] \notin {"freelist", "returned"}
    BY <1>3
  <2> QED
    BY <1>3, <2>3, <2>4, <2>5 DEF PassedInv
<1>9. LeakInv(c)'
  <2>1. \A g \in Fd : tab'[g].by = c => tab[g].by = c /\ g # Held(c)
    BY <1>2, <1>4 DEF NoConnection
  <2> QED
    BY <1>1, <1>3, <1>6, <2>1 DEF CallInv, LeakInv, InCall
<1>10. OthersAlone(c)
  <2>1. \A d \in Call \ {c} : \A g \in Fd : tab[g].by = d \/ tab'[g].by = d => tab'[g] = tab[g]
    BY <1>4, <1>5, ConstantsAssumption DEF ConstantsAssumption, NoConnection
  <2> QED
    BY <2>1 DEF OthersAlone, KeepClose, Refused, HangUp, Goto, TypeOK, locals
<1>11. TabInv'
  BY <1>4 DEF DialInv, TabInv, NoConnection
<1> QED
  BY <1>7, <1>8, <1>9, <1>10, <1>11 DEF CallInv

(* What connect() does to the socket of a call.                             *)
LEMMA ConnectKept ==
  ASSUME TypeOK, DialInv, NEW c \in Call,
         Connected(c) \/ ConnectFails(c) \/ InProgress(c) \/ Refusal(c)
  PROVE  CallInv(c)' /\ OthersAlone(c) /\ TabInv'
<1>1. CallInv(c)
  BY DEF DialInv
<1>2. /\ pc[c] = "connect" /\ Held(c) = connection_socket[c] /\ Held(c) \in Fd
      /\ tab[Held(c)].by = c /\ tab[Held(c)].to = paddress[c] /\ c # NULL
      /\ 1 \notin Fd /\ NoSocket \notin Fd
  BY <1>1, ConstantsAssumption
  DEF ConstantsAssumption, NoSocket, Connected, ConnectFails, InProgress, Refusal, At, Held,
      InCall, Working, TypeOK, CallInv, HeldInv
<1>3. /\ fn' = fn /\ addresses' = addresses /\ paddress' = paddress /\ passed' = passed
      /\ connection_socket' = connection_socket
  BY DEF Connected, ConnectFails, InProgress, Refusal, locals
<1>4. \E s \in {"connected", "failed", "pending"} :
        /\ SocketIs(c, s)
        /\ pc'[c] = "freelist" \/ (pc'[c] = "returned" /\ res'[c] # 1) => s = "connected"
  <2>1. CASE Connected(c)
    BY <2>1 DEF Connected
  <2>2. CASE ConnectFails(c)
    BY <2>2 DEF ConnectFails, Return, Goto, TypeOK
  <2>3. CASE InProgress(c)
    BY <2>3 DEF InProgress, Goto, TypeOK
  <2>4. CASE Refusal(c)
    BY <2>4 DEF Refusal, Goto, TypeOK
  <2> QED
    BY <2>1, <2>2, <2>3, <2>4
<1>5. \/ /\ pc'[c] \in {"freelist", "select", "refused"} \/ (pc'[c] = "returned" /\ res'[c] = Held(c))
         /\ pc'[c] = "returned" => fn[c] = "create"
         /\ mishaps'[c] = mishaps[c]
      \/ /\ fn[c] = "create" /\ pc'[c] = "returned" /\ res'[c] = 1
         /\ mishaps'[c] = mishaps[c] \cup {"gaveup"}
  BY <1>2 DEF Connected, ConnectFails, InProgress, Refusal, Goto, Return, Mishap, TypeOK, locals
<1>6. Held(c)' = Held(c) \/ (Held(c)' = 1 /\ pc'[c] = "returned" /\ res'[c] = 1)
  BY <1>2, <1>3, <1>5 DEF Held, InCall
<1>7. /\ \A g \in Fd : tab'[g].by = tab[g].by /\ tab'[g].to = tab[g].to
                   /\ (g # Held(c) => tab'[g] = tab[g])
      /\ tab'[Held(c)].state # "free"
      /\ pc'[c] = "freelist" \/ (pc'[c] = "returned" /\ res'[c] # 1) =>
            tab'[Held(c)].state = "connected"
  BY <1>2, <1>4 DEF SocketIs, TypeOK, Sockets
<1>8. HeldInv(c)'
  <2>1. pc'[c] \notin {"idle", "resolve", "socket"}
    BY <1>5
  <2>2. CASE Held(c)' = Held(c)
    <3>1. pc'[c] = "returned" => res'[c] = Held(c)
      BY <2>2 DEF Held
    <3>2. /\ tab'[Held(c)].by = c /\ tab'[Held(c)].to = paddress'[c]
          /\ pc'[c] \in {"freelist", "returned"} => tab'[Held(c)].state = "connected"
      BY <1>2, <1>3, <1>7, <3>1
    <3> QED
      BY <2>1, <2>2, <3>2 DEF HeldInv
  <2>3. CASE Held(c)' = 1
    <3>1. Held(c)' \notin Fd
      BY <1>2, <2>3
    <3> QED
      BY <2>1, <3>1 DEF HeldInv
  <2> QED
    BY <1>6, <2>2, <2>3
<1>9. PassedInv(c)'
  BY <1>1, <1>2, <1>3, <1>5, <1>6 DEF CallInv, PassedInv
<1>10. LeakInv(c)'
  BY <1>1, <1>2, <1>5, <1>6, <1>7 DEF CallInv, LeakInv, InCall
<1>11. OthersAlone(c)
  BY <1>2, <1>3, <1>7
  DEF OthersAlone, Connected, ConnectFails, InProgress, Refusal, Goto, Return, Mishap, TypeOK,
      locals
<1>12. TabInv'
  BY <1>2, <1>7, ConstantsAssumption DEF ConstantsAssumption, DialInv, TabInv
<1> QED
  BY <1>8, <1>9, <1>10, <1>11, <1>12 DEF CallInv

(* The network settles a connection under way.                              *)
LEMMA SettleKept ==
  ASSUME TypeOK, DialInv, NEW f \in Fd, Settle(f)
  PROVE  DialInv'
<1>1. /\ \A g \in Fd : tab'[g].by = tab[g].by /\ tab'[g].to = tab[g].to
                       /\ (tab[g].state = "connected" => tab'[g].state = "connected")
                       /\ (tab'[g].state = "free" <=> tab[g].state = "free")
      /\ UNCHANGED <<pc, fn, locals, passed, mishaps>>
  BY DEF Settle, TypeOK, Sockets
<1>2. TabInv'
  BY <1>1 DEF DialInv, TabInv
<1>3. ASSUME NEW d \in Call PROVE CallInv(d)'
  <2>1. CallInv(d) /\ Held(d)' = Held(d)
    BY <1>1 DEF DialInv, Held, locals
  <2>2. HeldInv(d)'
    BY <1>1, <2>1 DEF CallInv, HeldInv, locals
  <2>3. PassedInv(d)'
    BY <1>1, <2>1 DEF CallInv, PassedInv, locals
  <2>4. LeakInv(d)'
    BY <1>1, <2>1 DEF CallInv, LeakInv, locals
  <2> QED
    BY <2>2, <2>3, <2>4 DEF CallInv
<1> QED
  BY <1>2, <1>3 DEF DialInv

(* Each call has at most the socket it works on, made for the address it is *)
(* at, with those in front of it given up; what else it left open it lost   *)
(* at a mishap.                                                             *)
THEOREM DialInvHolds == Spec => []DialInv
<1>1. Init => DialInv
  <2> SUFFICES ASSUME Init PROVE DialInv
    OBVIOUS
  <2>1. TabInv
    BY DEF Init, TabInv, NoConnection
  <2>2. ASSUME NEW c \in Call PROVE CallInv(c)
    <3>1. /\ Held(c) = NoSocket /\ NoSocket \notin Fd /\ \A f \in Fd : tab[f].by # c
          /\ pc[c] = "idle" /\ mishaps[c] = {} /\ paddress[c] = 1
          /\ addresses[c] = 0 /\ passed[c] = {} /\ connection_socket[c] = NoSocket
      BY ConstantsAssumption DEF ConstantsAssumption, Init, Held, InCall, NoConnection, NoSocket
    <3>2. HeldInv(c)
      BY <3>1 DEF HeldInv
    <3>3. PassedInv(c)
      BY <3>1 DEF PassedInv
    <3>4. LeakInv(c)
      BY <3>1 DEF LeakInv
    <3> QED
      BY <3>2, <3>3, <3>4 DEF CallInv
  <2> QED
    BY <2>1, <2>2 DEF DialInv
<1>2. TypeOK /\ DialInv /\ [Next]_vars => DialInv'
  <2> SUFFICES ASSUME TypeOK, DialInv, [Next]_vars PROVE DialInv'
    OBVIOUS
  <2>1. ASSUME NEW c \in Call, CallInv(c)', OthersAlone(c), TabInv' PROVE DialInv'
    <3>1. ASSUME NEW d \in Call \ {c} PROVE CallInv(d)'
      BY <2>1, OthersKept DEF DialInv
    <3> QED
      BY <2>1, <3>1 DEF DialInv
  <2>2. ASSUME NEW c \in Call, tab' = tab PROVE TabInv'
    BY <2>2 DEF DialInv, TabInv
  <2>3. ASSUME NEW c \in Call, Start(c) \/ HangUp(c) \/ Step(c) PROVE DialInv'
    <3>1. CallInv(c)' /\ OthersAlone(c) /\ TabInv'
      BY <2>2, <2>3, QuietSteps, OpenKept, CloseKept, ConnectKept DEF Step
    <3> QED
      BY <2>1, <3>1
  <2>4. CASE UNCHANGED vars
    BY <2>4 DEF vars, locals, DialInv, TabInv, CallInv, HeldInv, PassedInv, LeakInv, Held
  <2> QED
    BY <2>3, <2>4, SettleKept DEF Next
<1> QED
  BY <1>1, <1>2, TypeCorrect, PTL DEF Spec

(* What is returned is connected to the first address that did not fail at  *)
(* once, and -1 means that all did, however many addresses there are.       *)
THEOREM FirstThatAnswersHolds == Spec => []FirstThatAnswers
<1>1. TypeOK /\ DialInv => FirstThatAnswers
  <2> SUFFICES ASSUME TypeOK, DialInv, NEW c \in Call, pc[c] = "returned", fn[c] = "first",
                      mishaps[c] \cap {"option", "gaveup"} = {}
               PROVE  IF res[c] = NoSocket
                      THEN passed[c] = 1..addresses[c]
                      ELSE /\ res[c] \in Fd
                           /\ tab[res[c]].state = "connected" /\ tab[res[c]].by = c
                           /\ passed[c] = 1..(tab[res[c]].to - 1)
    BY DEF FirstThatAnswers
  <2>1. /\ Held(c) = res[c] /\ passed[c] = 1..(paddress[c] - 1)
        /\ res[c] \in Fd \cup {NoSocket}
        /\ res[c] = NoSocket => paddress[c] = addresses[c] + 1
    BY DEF Held, DialInv, CallInv, PassedInv
  <2>2. CASE res[c] = NoSocket
    <3>1. addresses[c] \in Nat /\ (addresses[c] + 1) - 1 = addresses[c]
      BY DEF TypeOK
    <3> QED
      BY <2>1, <2>2, <3>1
  <2>3. CASE res[c] # NoSocket
    BY <2>1, <2>3 DEF DialInv, CallInv, HeldInv
  <2> QED
    BY <2>2, <2>3
<1> QED
  BY <1>1, TypeCorrect, DialInvHolds, PTL

(* Only the mishaps named leave a socket open behind a call.                *)
THEOREM LeaksExplainedHolds == Spec => []LeaksExplained
<1>1. DialInv => LeaksExplained
  BY DEF DialInv, CallInv, LeakInv, LeaksExplained
<1> QED
  BY <1>1, DialInvHolds, PTL

-----------------------------------------------------------------------------
(* Progress.                                                                *)

(* A step that goes on with the socket a call has, or off it to the end.    *)
LEMMA FurtherOn ==
  ASSUME TypeOK, NEW c \in Call, pc[c] \in Working \cup {"resolve", "socket"},
         paddress'[c] = paddress[c],
         \A f \in Fd : tab'[f].by = tab[f].by,
         pc'[c] \in Working => connection_socket'[c] = connection_socket[c],
         pc[c] \notin Working => pc'[c] \notin Working,
         pc'[c] \in InCall => Point[pc'[c]] > Point[pc[c]]
  PROVE  Onward(c)
<1>1. LeftBehind(c) \subseteq LeftBehind(c)'
  BY DEF LeftBehind
<1> QED
  BY <1>1 DEF Onward

(* A call that is given another address, or one socket less.                *)
LEMMA StepOnward ==
  ASSUME TypeOK, DialInv, NEW c \in Call, Step(c), pc[c] # "keepclose"
  PROVE  Onward(c)
<1>1. /\ paddress[c] \in Nat /\ paddress[c] + 1 > paddress[c]
      /\ pc[c] \in Working => connection_socket[c] \in Fd
  BY DEF TypeOK
<1>2. CASE \/ Resolve(c) \/ ResolveFails(c) \/ EndOfList(c) \/ FreeList(c)
           \/ SelectFails(c) \/ SoErrorSet(c)
  <2>1. /\ tab' = tab /\ paddress' = paddress
        /\ \/ pc[c] = "resolve" /\ pc'[c] \in {"socket", "crashed", "returned"}
           \/ pc[c] \in {"socket", "select", "soerror"} /\ pc'[c] = "freelist"
           \/ pc[c] = "freelist" /\ pc'[c] = "returned"
    BY <1>2 DEF Resolve, ResolveFails, EndOfList, FreeList, SelectFails, SoErrorSet, GiveUp,
                At, Goto, Return, TypeOK, locals
  <2>2. CASE pc[c] = "freelist"
    BY <2>1, <2>2 DEF Onward, InCall
  <2>3. CASE pc[c] # "freelist"
    BY <2>1, <2>3, FurtherOn DEF Working, InCall, Point
  <2> QED
    BY <2>2, <2>3
<1>3. CASE \/ GetTimeout(c) \/ SetTimeout(c) \/ NoMemory(c) \/ KeepAlive(c)
           \/ SelectReady(c) \/ SoErrorClear(c)
  <2>1. /\ tab' = tab /\ paddress' = paddress /\ connection_socket' = connection_socket
        /\ \/ pc[c] = "gettimeout" /\ pc'[c] \in {"settimeout", "returned"}
           \/ pc[c] = "settimeout" /\ pc'[c] \in {"keepalive", "connect", "returned", "crashed"}
           \/ pc[c] = "keepalive" /\ pc'[c] \in {"nonblock", "keepclose"}
           \/ pc[c] = "select" /\ pc'[c] = "soerror"
           \/ pc[c] = "soerror" /\ pc'[c] = "freelist"
    BY <1>3 DEF GetTimeout, SetTimeout, Timeout, NoMemory, KeepAlive, SelectReady, SoErrorClear,
                At, Goto, Return, TypeOK, locals
  <2> QED
    BY <2>1, FurtherOn DEF Working, InCall, Point
<1>4. CASE Connected(c) \/ ConnectFails(c) \/ InProgress(c) \/ Refusal(c)
  <2>1. /\ pc[c] = "connect" /\ pc'[c] \in {"freelist", "returned", "select", "refused"}
        /\ paddress' = paddress /\ connection_socket' = connection_socket
        /\ \E s \in {"connected", "failed", "pending"} : SocketIs(c, s)
    BY <1>4 DEF Connected, ConnectFails, InProgress, Refusal, At, Goto, Return, TypeOK, locals
  <2>2. \A f \in Fd : tab'[f].by = tab[f].by
    BY <2>1 DEF SocketIs, TypeOK, Sockets
  <2> QED
    BY <2>1, <2>2, FurtherOn DEF Working, InCall, Point
<1>5. CASE SocketFails(c) \/ Refused(c)
  <2>1. pc'[c] \notin InCall \/ paddress'[c] = paddress[c] + 1
    BY <1>5 DEF SocketFails, Refused, Return, Goto, TypeOK, InCall
  <2> QED
    BY <1>1, <2>1 DEF Onward
\* The socket a call may still have when it makes the next is left behind already.
<1>6. CASE OpenSocket(c)
  <2>1. PICK f \in FreeFds :
          /\ connection_socket' = [connection_socket EXCEPT ![c] = f]
          /\ tab' = [tab EXCEPT ![f] = [state |-> "new", by |-> c, to |-> paddress[c]]]
    BY <1>6 DEF OpenSocket
  <2>2. /\ f \in Fd /\ tab[f].by # c /\ connection_socket'[c] = f
        /\ \A g \in Fd \ {f} : tab'[g] = tab[g]
        /\ pc[c] = "socket" /\ pc'[c] = "gettimeout" /\ paddress'[c] = paddress[c]
    BY <1>6, <2>1, ConstantsAssumption
    DEF ConstantsAssumption, FreeFds, DialInv, TabInv, OpenSocket, At, Goto, TypeOK
  <2>3. LeftBehind(c) \subseteq LeftBehind(c)'
    BY <2>2 DEF LeftBehind
  <2>4. Point[pc'[c]] > Point[pc[c]]
    BY <2>2 DEF Point
  <2> QED
    BY <2>2, <2>3, <2>4 DEF Onward
<1>7. CASE NonBlock(c)
  <2>1. /\ pc[c] = "nonblock" /\ pc'[c] \in {"connect", "socket"}
        /\ tab' = tab /\ paddress' = paddress /\ connection_socket' = connection_socket
    BY <1>7 DEF NonBlock, At, Goto, TypeOK, locals
  <2>2. CASE pc'[c] = "connect"
    BY <2>1, <2>2, FurtherOn DEF Working, InCall, Point
  \* One socket more is left behind for the same address.
  <2>3. CASE pc'[c] = "socket"
    <3>1. connection_socket[c] \in Fd /\ tab[connection_socket[c]].by = c
      BY <1>1, <2>1 DEF Working, InCall, DialInv, CallInv, HeldInv, Held
    <3>2. LeftBehind(c) \subseteq LeftBehind(c)'
      BY <2>1, <2>3 DEF LeftBehind, Working
    <3>3. connection_socket[c] \in LeftBehind(c)' /\ connection_socket[c] \notin LeftBehind(c)
      BY <2>1, <2>3, <3>1 DEF LeftBehind, Working, InCall
    <3> QED
      BY <2>1, <3>2, <3>3 DEF Onward
  <2> QED
    BY <2>1, <2>2, <2>3
<1>8. ~KeepClose(c)
  BY DEF KeepClose, At
<1> QED
  BY <1>2, <1>3, <1>4, <1>5, <1>6, <1>7, <1>8 DEF Step

(* What others do takes nothing back from a call.                           *)
LEMMA OthersTakeNothing ==
  ASSUME TypeOK, NEW d \in Call, OthersAlone(d), NEW c \in Call \ {d}
  PROVE  NoWayBack(c)
<1>1. /\ pc'[c] = pc[c] /\ paddress'[c] = paddress[c]
      /\ connection_socket'[c] = connection_socket[c]
      /\ \A f \in Fd : tab'[f].by = c <=> tab[f].by = c
  BY DEF OthersAlone
<1> QED
  BY <1>1 DEF NoWayBack, LeftBehind

(* A call can only go back by closing a socket that refused SO_KEEPALIVE:   *)
(* each other step of it takes one of the addresses or of the descriptors,  *)
(* or is further on, and nobody takes that back from it.                    *)
THEOREM CallsAdvanceHolds == Spec => CallsAdvance
<1>1. ASSUME TypeOK, DialInv, [Next]_vars, NEW c \in Call, pc[c] \in InCall,
             ~(Step(c) /\ pc[c] # "keepclose")
      PROVE  NoWayBack(c)
  <2>1. CASE KeepClose(c)
    <3>1. /\ pc[c] = "keepclose" /\ pc'[c] = "socket" /\ paddress' = paddress
          /\ connection_socket[c] \in Fd /\ Close(connection_socket[c])
      BY <1>1, <2>1 DEF KeepClose, At, Goto, TypeOK, Working, InCall
    <3>2. \A f \in Fd : tab'[f] = IF f = connection_socket[c] THEN NoConnection ELSE tab[f]
      BY <1>1, <3>1 DEF Close, TypeOK
    <3>3. LeftBehind(c)' = LeftBehind(c)
      <4>1. NoConnection.by # c
        BY ConstantsAssumption DEF ConstantsAssumption, NoConnection
      <4>2. ASSUME NEW f \in Fd
            PROVE  f \in LeftBehind(c)' <=> f \in LeftBehind(c)
        BY <3>1, <3>2, <4>1 DEF LeftBehind, Working, InCall
      <4> QED
        BY <4>2 DEF LeftBehind
    <3> QED
      BY <3>1, <3>3 DEF NoWayBack
  <2>2. ASSUME NEW d \in Call \ {c}, Start(d) \/ HangUp(d) \/ Step(d)
        PROVE  NoWayBack(c)
    <3>1. OthersAlone(d)
      <4>1. CASE Start(d) \/ HangUp(d)
        BY <1>1, <4>1, QuietSteps, CloseKept
      <4>2. CASE Step(d)
        BY <1>1, <4>2, QuietSteps, OpenKept, CloseKept, ConnectKept DEF Step
      <4> QED
        BY <2>2, <4>1, <4>2
    <3> QED
      BY <1>1, <3>1, OthersTakeNothing
  <2>3. ASSUME NEW f \in Fd, Settle(f) PROVE NoWayBack(c)
    <3>1. /\ \A g \in Fd : tab'[g].by = tab[g].by
          /\ UNCHANGED <<pc, locals>>
      BY <1>1, <2>3 DEF Settle, TypeOK, Sockets
    <3> QED
      BY <3>1 DEF NoWayBack, LeftBehind, locals
  <2>4. CASE UNCHANGED vars
    BY <2>4 DEF vars, locals, NoWayBack, LeftBehind
  <2>5. ~Start(c) /\ ~HangUp(c) /\ (Step(c) => KeepClose(c))
    <3>1. ~Start(c) /\ ~HangUp(c)
      BY <1>1 DEF Start, HangUp, At, InCall
    <3>2. ASSUME Step(c) PROVE KeepClose(c)
      BY <1>1, <3>2
      DEF Step, At, Resolve, ResolveFails, EndOfList, OpenSocket, SocketFails, GetTimeout,
          SetTimeout, Timeout, NoMemory, KeepAlive, NonBlock, Connected, ConnectFails, InProgress,
          Refusal, Refused, SelectReady, SelectFails, SoErrorClear, SoErrorSet, FreeList
    <3> QED
      BY <3>1, <3>2
  <2> QED
    BY <1>1, <2>1, <2>2, <2>3, <2>4, <2>5 DEF Next
<1>2. TypeOK /\ DialInv /\ [Next]_vars =>
        [\A c \in Call : pc[c] \in InCall =>
            IF Step(c) /\ pc[c] # "keepclose" THEN Onward(c) ELSE NoWayBack(c)]_vars
  BY <1>1, StepOnward
<1> QED
  BY <1>2, TypeCorrect, DialInvHolds, PTL DEF Spec, CallsAdvance
=============================================================================
